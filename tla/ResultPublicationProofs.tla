------------------------ MODULE ResultPublicationProofs ------------------------
(***************************************************************************)
(* Theorems about the publication of results, for every set of calls and   *)
(* messages, every window of the outbox, whether or not the journal fails  *)
(* and the user moves between the branches of the session; and, in the     *)
(* last part, what a session without either and a window that holds the    *)
(* rows of a message promise in addition.                                  *)
(***************************************************************************)
EXTENDS ResultPublication, SequenceProofs, FiniteSetTheorems

(* The call a call runs inside, or the call itself.                        *)
Root(c) == IF Parent[c] = NoCall THEN c ELSE Parent[c]

(* Batches below n are those of the first n - 1 assistant messages.        *)
IssuedBelow(n) == UNION {Elements(Batches[k]) : k \in {j \in DOMAIN Batches : j < n}}

BatchesBelow(s, n) == \A i \in 1..Len(s) : s[i].kind = "assistant" => s[i].batch < n

(* Every result has its call before it and no other result of that call    *)
(* (what the provider sees); no call has two results.                      *)
Paired(s) ==
  \A i \in 1..Len(s) : s[i].kind = "result" =>
    s[i].call \in IssuedBefore(s, i) \ AnsweredBefore(s, i)

Single(s) ==
  \A i \in 1..Len(s) : s[i].kind = "result" => s[i].call \notin AnsweredBefore(s, i)


(* The session: what carries an event id is committed, an acknowledged row *)
(* is in the session, and no message is of a batch that was not issued.    *)
SessionIsSound ==
  /\ \A c \in Calls : Projected(c) # {} => c \in Elements(outbox)
  /\ BatchesBelow(file, NextBatch)
  /\ BatchesBelow(messages, NextBatch)

(* The outbox: no row twice, children before the call they ran inside, and *)
(* only rows of calls that were issued.                                    *)
OutboxIsSound ==
  /\ Distinct(outbox)
  /\ \A c \in Elements(outbox) :
       /\ Root(c) \in IssuedBelow(NextBatch)
       /\ Parent[c] \in Elements(outbox) => Precedes(outbox, c, Parent[c])

(* The batch in hand is the latest; who runs is in hand, and nothing in    *)
(* hand is committed but what this process committed.                      *)
HandIsSound ==
  /\ phase \notin {"tools", "projecting"} => queue = <<>>
  /\ phase \in {"tools", "projecting"} =>
       /\ NextBatch - 1 \in DOMAIN Batches
       /\ Elements(queue) \subseteq Elements(Batches[NextBatch - 1])
       /\ Distinct(queue)
  /\ phase = "projecting" => queue # <<>>
  /\ \A c \in Calls :
       /\ got[c] = "running" => phase = "tools" /\ InHand(c)
       /\ Root(c) \in Elements(queue) /\ c \in Elements(outbox) => got[c] = "actual"

(* The rows being projected: each once, all of them committed, and no call *)
(* before the ones that ran inside it.                                     *)
RowsAreInOrder ==
  /\ todo # <<>> => phase \in Replaying \cup {"projecting"}
  /\ Distinct(todo)
  /\ Elements(todo) \subseteq Elements(outbox)
  /\ \A c \in Elements(outbox) : Parent[c] \in Elements(todo) =>
       Projected(c) # {} \/ Precedes(todo, c, Parent[c])

(* The conversation, phase by phase.                                       *)
TalkIsSound ==
  /\ phase = "replaying" => Single(messages)
  /\ phase \in {"reconciling", "reconciled", "provider", "tools", "projecting"} =>
       Paired(messages)
  /\ phase = "reconciling" => todo = <<>> /\ Pending = <<>>
  /\ phase = "provider" => Unresolved(messages) = {}
  /\ phase = "tools" => Unresolved(messages) = Elements(queue)
  /\ phase = "projecting" => Unresolved(messages) = Elements(Tail(queue))

IInv ==
  /\ TypeOK /\ SessionIsSound /\ OutboxIsSound /\ HandIsSound /\ RowsAreInOrder
  /\ TalkIsSound /\ ProjectedOnce /\ AcknowledgedIsInSession /\ ChildrenFirst
-----------------------------------------------------------------------------
(* Sequences of the library.                                               *)

(* An element that is inserted, the ones before it and the ones behind it. *)
LEMMA Inserted ==
  ASSUME NEW A, NEW s \in Seq(A), NEW e \in A, NEW at \in 1..(Len(s) + 1)
  PROVE  /\ InsertAt(s, at, e) \in Seq(A)
         /\ Len(InsertAt(s, at, e)) = Len(s) + 1
         /\ \A i \in 1..(Len(s) + 1) :
              InsertAt(s, at, e)[i] = IF i < at THEN s[i] ELSE IF i = at THEN e ELSE s[i - 1]
  <1> DEFINE n == Len(s)
             left == SubSeq(s, 1, at - 1)
             right == SubSeq(s, at, n)
             one == <<e>>
  <1>1. n \in Nat /\ at \in Nat /\ 1 <= at /\ at <= n + 1
    OBVIOUS
  <1>2. \A i \in 1..n : s[i] \in A
    BY ElementOfSeq
  <1>3. /\ left \in Seq(A) /\ Len(left) = at - 1
        /\ \A i \in 1..(at - 1) : left[i] = s[i]
    <2>1. \A i \in 1..(at - 1) : s[i] \in A
      BY <1>1, <1>2
    <2>2. /\ left \in Seq(A)
          /\ Len(left) = IF 1 <= at - 1 THEN at - 1 - 1 + 1 ELSE 0
          /\ \A i \in 1..(at - 1 - 1 + 1) : left[i] = s[1 + i - 1]
      BY <1>1, <2>1, SubSeqProperties
    <2>3. \A i \in 1..(at - 1) : i \in 1..(at - 1 - 1 + 1) /\ 1 + i - 1 = i
      BY <1>1
    <2> QED  BY <1>1, <2>2, <2>3
  <1>4. /\ right \in Seq(A) /\ Len(right) = n - at + 1
        /\ \A i \in 1..(n - at + 1) : right[i] = s[at + i - 1]
    <2>1. \A i \in at..n : s[i] \in A
      BY <1>1, <1>2
    <2> QED  BY <1>1, <2>1, SubSeqProperties
  <1>5. one \in Seq(A) /\ Len(one) = 1 /\ one[1] = e
    OBVIOUS
  <1> DEFINE both == left \o one
  <1> HIDE DEF left, right, one
  <1>6. /\ both \in Seq(A) /\ Len(both) = at
        /\ \A i \in 1..at : both[i] = IF i < at THEN s[i] ELSE e
    <2>1. /\ both \in Seq(A) /\ Len(both) = Len(left) + Len(one)
          /\ \A i \in 1..(Len(left) + Len(one)) :
               both[i] = IF i <= Len(left) THEN left[i] ELSE one[i - Len(left)]
      BY <1>3, <1>5, ConcatProperties
    <2>2. Len(left) + Len(one) = at
      BY <1>1, <1>3, <1>5
    <2>3. \A i \in 1..at : IF i <= at - 1 THEN i \in 1..(at - 1) /\ i < at
                                          ELSE i - (at - 1) = 1 /\ ~ (i < at)
      BY <1>1
    <2> QED  BY <1>3, <1>5, <2>1, <2>2, <2>3
  <1> HIDE DEF both
  <1> DEFINE u == both \o right
  <1>7. /\ u \in Seq(A) /\ Len(u) = Len(both) + Len(right)
        /\ \A i \in 1..(Len(both) + Len(right)) :
             u[i] = IF i <= Len(both) THEN both[i] ELSE right[i - Len(both)]
    BY <1>4, <1>6, ConcatProperties
  <1>8. Len(both) + Len(right) = n + 1
    BY <1>1, <1>4, <1>6
  <1>9. InsertAt(s, at, e) = u
    BY DEF InsertAt, u, both, left, right, one
  <1> HIDE DEF u
  <1>10. ASSUME NEW i \in 1..(n + 1)
         PROVE  u[i] = IF i < at THEN s[i] ELSE IF i = at THEN e ELSE s[i - 1]
    <2>1. CASE i <= at
      <3>1. i \in 1..at
        BY <1>1, <2>1
      <3>2. u[i] = both[i]
        BY <1>6, <1>7, <1>8, <2>1
      <3>3. i < at \/ i = at
        BY <1>1, <2>1
      <3> QED  BY <1>1, <1>6, <3>1, <3>2, <3>3
    <2>2. CASE ~ (i <= at)
      <3>1. /\ i - at \in 1..(n - at + 1) /\ at + (i - at) - 1 = i - 1
            /\ ~ (i < at) /\ i # at
        BY <1>1, <2>2
      <3>2. u[i] = right[i - at]
        BY <1>6, <1>7, <1>8, <2>2
      <3> QED  BY <1>4, <3>1, <3>2
    <2> QED  BY <2>1, <2>2
  <1> QED  BY <1>7, <1>8, <1>9, <1>10

(* The sequences of a sequence, joined.                                    *)
LEMMA Flattened ==
  ASSUME NEW A, NEW q \in Seq(Seq(A))
  PROVE  FlattenSeq(q) \in Seq(A)
  <1> DEFINE n == Len(q)
             V == Seq(A)
             IsFlat(f) == f = [i \in 1..n |-> IF i = 1 THEN q[i] ELSE f[i - 1] \o q[i]]
             flat == CHOOSE f : IsFlat(f)
  <1>1. n \in Nat /\ <<>> \in V
    OBVIOUS
  <1>2. \A i \in 1..n : q[i] \in V
    BY ElementOfSeq
  <1>3. \A v, w \in V : v \o w \in V
    BY ConcatProperties
  <1>4. CASE n = 0
    <2>1. FlattenSeq(q) = q
      BY <1>4 DEF FlattenSeq
    <2>2. q = <<>>
      BY <1>4, EmptySeq
    <2> QED  BY <2>1, <2>2
  <1>5. CASE n # 0
    <2> DEFINE step == [p \in Nat \X V |-> IF p[1] \in 1..n THEN p[2] \o q[p[1]] ELSE p[2]]
    <2>1. step \in [Nat \X V -> V]
      <3>1. ASSUME NEW p \in Nat \X V
            PROVE  (IF p[1] \in 1..n THEN p[2] \o q[p[1]] ELSE p[2]) \in V
        <4>1. p[2] \in V
          BY <3>1
        <4> HIDE DEF V, n
        <4> QED  BY <1>2, <1>3, <4>1
      <3> QED  BY <3>1
    <2>2. FlattenSeq(q) = flat[n]
      BY <1>5 DEF FlattenSeq
    <2> HIDE DEF V, n, step
    <2>3. PICK f : IsRun(f, n, V, <<>>, step)
      BY <1>1, <2>1, RunsExist
    <2>4. ASSUME NEW i \in 1..n  PROVE f[i] \in V /\ f[i] = f[i - 1] \o q[i]
      <3>1. i - 1 \in 0..n /\ i \in 0..n /\ i \in Nat
        BY <1>1
      <3>2. f[i - 1] \in V /\ f[i] \in V /\ f[i] = step[<<i, f[i - 1]>>]
        BY <2>3, <3>1 DEF IsRun
      <3>3. <<i, f[i - 1]>> \in Nat \X V
        BY <3>1, <3>2
      <3>4. step[<<i, f[i - 1]>>] = f[i - 1] \o q[i]
        BY <2>4, <3>3 DEF step
      <3> QED  BY <3>2, <3>4
    <2> DEFINE h == [i \in 1..n |-> f[i]]
    <2>5. IsFlat(h)
      <3>1. ASSUME NEW i \in 1..n
            PROVE  h[i] = IF i = 1 THEN q[i] ELSE h[i - 1] \o q[i]
        <4>1. CASE i = 1
          <5>1. f[i - 1] = <<>>
            BY <2>3, <4>1 DEF IsRun
          <5>2. <<>> \o q[i] = q[i]
            BY <1>2, ConcatEmptySeq DEF V
          <5> QED  BY <2>4, <4>1, <5>1, <5>2
        <4>2. CASE i # 1
          <5>1. i - 1 \in 1..n
            BY <1>1, <4>2
          <5> QED  BY <2>4, <4>2, <5>1
        <4> QED  BY <4>1, <4>2
      <3> QED  BY <3>1, Zenon
    <2>6. IsFlat(flat)
      BY <2>5
    <2> HIDE DEF h, flat
    <2>7. \A i \in 1..n : flat[i] = IF i = 1 THEN q[i] ELSE flat[i - 1] \o q[i]
      BY <2>6
    <2> DEFINE bad == {i \in 1..n : flat[i] \notin V}
    <2>8. bad = {}
      <3> SUFFICES ASSUME bad # {}  PROVE FALSE
        OBVIOUS
      <3>1. bad \in SUBSET Nat
        BY <1>1
      <3>2. PICK i \in bad : \A j \in bad : i <= j
        BY <3>1, LeastNumber
      <3>3. CASE i = 1
        BY <1>2, <2>7, <3>2, <3>3
      <3>4. CASE i # 1
        <4>1. i - 1 \in 1..n /\ ~ (i <= i - 1)
          BY <1>1, <3>2, <3>4
        <4>2. flat[i - 1] \in V
          BY <3>2, <4>1
        <4>3. flat[i] = flat[i - 1] \o q[i]
          BY <2>7, <3>2, <3>4
        <4> QED  BY <1>2, <1>3, <3>2, <4>2, <4>3
      <3> QED  BY <3>3, <3>4
    <2>9. n \in 1..n
      BY <1>1, <1>5
    <2> QED  BY <2>2, <2>8, <2>9 DEF V
  <1> QED  BY <1>4, <1>5
-----------------------------------------------------------------------------
(* Conversations.                                                          *)

Talks == Seq(Message)

(* What a model value of a batch stands for.                               *)
LEMMA CallsTyped ==
  ASSUME NEW m, m.kind = "assistant" => m.batch \in 0..Len(Batches)
  PROVE  /\ CallsOf(m) \in Seq(Calls)
         /\ m.kind = "assistant" /\ m.batch > 0 =>
              m.batch \in DOMAIN Batches /\ CallsOf(m) = Batches[m.batch]
         /\ ~(m.kind = "assistant" /\ m.batch > 0) => CallsOf(m) = <<>>
  <1>1. /\ Batches \in Seq(Seq(Calls)) /\ DOMAIN Batches = 1..Len(Batches)
        /\ Len(Batches) \in Nat
        /\ \A k \in 1..Len(Batches) : Batches[k] \in Seq(Calls)
    BY PublicationAssumption, ElementOfSeq
  <1>2. CASE m.kind = "assistant" /\ m.batch > 0
    <2>1. m.batch \in 1..Len(Batches)
      BY <1>1, <1>2
    <2> QED  BY <1>1, <1>2, <2>1 DEF CallsOf
  <1>3. CASE ~(m.kind = "assistant" /\ m.batch > 0)
    BY <1>3 DEF CallsOf
  <1> QED  BY <1>2, <1>3

(* The messages before message n that issue a call or answer it.           *)
LEMMA BeforeMessage ==
  ASSUME NEW s, NEW n, NEW c
  PROVE  /\ c \in IssuedBefore(s, n) <=> \E i \in 1..(n - 1) : c \in Elements(CallsOf(s[i]))
         /\ c \in AnsweredBefore(s, n) <=>
              \E i \in 1..(n - 1) : s[i].kind = "result" /\ s[i].call = c
  BY DEF IssuedBefore, AnsweredBefore

(* The same for a whole conversation.                                      *)
LEMMA InTalk ==
  ASSUME NEW A, NEW s \in Seq(A), NEW c
  PROVE  /\ c \in IssuedIn(s) <=> \E i \in 1..Len(s) : c \in Elements(CallsOf(s[i]))
         /\ c \in AnsweredIn(s) <=> \E i \in 1..Len(s) : s[i].kind = "result" /\ s[i].call = c
  <1>1. (Len(s) + 1) - 1 = Len(s)
    OBVIOUS
  <1> QED  BY <1>1, BeforeMessage DEF IssuedIn, AnsweredIn

(* An empty conversation.                                                  *)
LEMMA EmptyTalk == Unresolved(<<>>) = {} /\ \A n : BatchesBelow(<<>>, n)
  <1>1. Len(<<>>) = 0 /\ 1..0 = {} /\ <<>> \in Seq(Nat)
    OBVIOUS
  <1> QED  BY <1>1, InTalk DEF Unresolved, BatchesBelow

(* What a message adds to the conversation.                                *)
LEMMA Spoken ==
  ASSUME NEW s \in Talks, NEW m \in Message
  PROVE  LET t == Append(s, m) IN
         /\ t \in Talks
         /\ IssuedIn(t) = IssuedIn(s) \cup Elements(CallsOf(m))
         /\ AnsweredIn(t) = AnsweredIn(s) \cup {c \in {m.call} : m.kind = "result"}
         /\ Paired(s) /\ (m.kind = "result" => m.call \in Unresolved(s)) => Paired(t)
         /\ Single(s) /\ (m.kind = "result" => m.call \notin AnsweredIn(s)) => Single(t)
         /\ \A n : BatchesBelow(s, n) /\ (m.kind = "assistant" => m.batch < n) =>
                     BatchesBelow(t, n)
  <1> DEFINE t == Append(s, m)
             n == Len(s)
  <1>1. /\ t \in Talks
        /\ n \in Nat
        /\ Len(t) = n + 1
        /\ t[n + 1] = m
        /\ \A i \in 1..n : t[i] = s[i]
    BY AppendProperties DEF Talks
  <1>2. /\ \A c : c \in IssuedIn(t) <=> \E i \in 1..Len(t) : c \in Elements(CallsOf(t[i]))
        /\ \A c : c \in AnsweredIn(t) <=>
                    \E i \in 1..Len(t) : t[i].kind = "result" /\ t[i].call = c
    BY <1>1, InTalk DEF Talks
  <1>3. /\ \A c : c \in IssuedIn(s) <=> \E i \in 1..n : c \in Elements(CallsOf(s[i]))
        /\ \A c : c \in AnsweredIn(s) <=>
                    \E i \in 1..n : s[i].kind = "result" /\ s[i].call = c
    BY InTalk DEF Talks
  <1> HIDE DEF t, n
  <1>4. 1..Len(t) = 1..n \cup {n + 1}
    BY <1>1
  <1>5. IssuedIn(t) = IssuedIn(s) \cup Elements(CallsOf(m))
    <2>1. \A c : c \in IssuedIn(t) <=> c \in IssuedIn(s) \/ c \in Elements(CallsOf(m))
      BY <1>1, <1>2, <1>3, <1>4
    <2> QED  BY <2>1
  <1>6. AnsweredIn(t) = AnsweredIn(s) \cup {c \in {m.call} : m.kind = "result"}
    <2>1. \A c : c \in AnsweredIn(t) <=> c \in AnsweredIn(s) \/ (m.kind = "result" /\ c = m.call)
      BY <1>1, <1>2, <1>3, <1>4
    <2> QED  BY <2>1
  <1>7. \A i \in 1..n : /\ IssuedBefore(t, i) = IssuedBefore(s, i)
                        /\ AnsweredBefore(t, i) = AnsweredBefore(s, i)
    <2> SUFFICES ASSUME NEW i \in 1..n
                 PROVE  /\ IssuedBefore(t, i) = IssuedBefore(s, i)
                        /\ AnsweredBefore(t, i) = AnsweredBefore(s, i)
      OBVIOUS
    <2>1. \A j \in 1..(i - 1) : t[j] = s[j]
      <3>1. \A j \in 1..(i - 1) : j \in 1..n
        BY <1>1
      <3> QED  BY <1>1, <3>1
    <2> QED  BY <2>1 DEF IssuedBefore, AnsweredBefore
  <1>8. IssuedBefore(t, n + 1) = IssuedIn(s) /\ AnsweredBefore(t, n + 1) = AnsweredIn(s)
    <2>1. \A j \in 1..((n + 1) - 1) : t[j] = s[j]
      <3>1. (n + 1) - 1 = n
        BY <1>1
      <3> QED  BY <1>1, <3>1
    <2> QED  BY <2>1 DEF IssuedIn, AnsweredIn, IssuedBefore, AnsweredBefore, n
  <1>9. Paired(s) /\ (m.kind = "result" => m.call \in Unresolved(s)) => Paired(t)
    <2>1. Paired(s) => \A i \in 1..n : s[i].kind = "result" =>
                         s[i].call \in IssuedBefore(s, i) \ AnsweredBefore(s, i)
      BY DEF Paired, n
    <2> QED  BY <1>1, <1>4, <1>7, <1>8, <2>1 DEF Paired, Unresolved
  <1>10. Single(s) /\ (m.kind = "result" => m.call \notin AnsweredIn(s)) => Single(t)
    <2>1. Single(s) => \A i \in 1..n : s[i].kind = "result" =>
                         s[i].call \notin AnsweredBefore(s, i)
      BY DEF Single, n
    <2> QED  BY <1>1, <1>4, <1>7, <1>8, <2>1 DEF Single
  <1>11. ASSUME NEW k, BatchesBelow(s, k), m.kind = "assistant" => m.batch < k
         PROVE  BatchesBelow(t, k)
    <2>1. \A i \in 1..n : s[i].kind = "assistant" => s[i].batch < k
      BY <1>11 DEF BatchesBelow, n
    <2> QED  BY <1>1, <1>4, <1>11, <2>1 DEF BatchesBelow
  <1> QED  BY <1>1, <1>5, <1>6, <1>9, <1>10, <1>11 DEF t

(* A result that is sorted in behind its call pairs it; what follows stays *)
(* paired.                                                                 *)
LEMMA SortedIn ==
  ASSUME NEW s \in Talks, NEW c \in Calls, NEW a \in Answers, c \in Unresolved(s),
         NEW i \in 1..Len(s), c \in Elements(CallsOf(s[i])),
         NEW at \in (i + 1)..(Len(s) + 1)
  PROVE  LET t == InsertAt(s, at, Result(c, a)) IN
         /\ t \in Talks
         /\ Paired(s) => Paired(t)
         /\ \A n : BatchesBelow(s, n) => BatchesBelow(t, n)
  <1> DEFINE n == Len(s)
             m == Result(c, a)
             t == InsertAt(s, at, m)
  <1>1. /\ m \in Message /\ m.kind = "result" /\ m.call = c
    <2>1. Len(Batches) \in Nat
      BY PublicationAssumption
    <2> QED  BY <2>1 DEF Result, Message
  <1>2. n \in Nat /\ at \in 1..(n + 1) /\ at \in Nat /\ i < at /\ i \in Nat /\ s \in Seq(Message)
    BY DEF Talks
  <1> HIDE DEF m
  <1>3. /\ t \in Talks
        /\ Len(t) = n + 1
        /\ \A k \in 1..(n + 1) : t[k] = IF k < at THEN s[k] ELSE IF k = at THEN m ELSE s[k - 1]
    BY <1>1, <1>2, Inserted DEF Talks
  <1>4. /\ \A x : x \in IssuedIn(s) <=> \E k \in 1..n : x \in Elements(CallsOf(s[k]))
        /\ \A x : x \in AnsweredIn(s) <=>
                    \E k \in 1..n : s[k].kind = "result" /\ s[k].call = x
    BY <1>2, InTalk
  <1>5. \A k \in 1..n : ~(s[k].kind = "result" /\ s[k].call = c)
    BY <1>4 DEF Unresolved
  <1>6. i \in 1..n
    OBVIOUS
  <1> HIDE DEF t, n
  <1>7. ASSUME Paired(s)  PROVE Paired(t)
    <2>1. \A k \in 1..n : s[k].kind = "result" =>
            /\ \E j \in 1..(k - 1) : s[k].call \in Elements(CallsOf(s[j]))
            /\ \A j \in 1..(k - 1) : ~(s[j].kind = "result" /\ s[j].call = s[k].call)
      BY <1>7, BeforeMessage DEF Paired, n
    <2> DEFINE Good(k) == /\ \E j \in 1..(k - 1) : t[k].call \in Elements(CallsOf(t[j]))
                          /\ \A j \in 1..(k - 1) : ~(t[j].kind = "result" /\ t[j].call = t[k].call)
    <2>5. ASSUME NEW k, Good(k)
          PROVE  t[k].call \in IssuedBefore(t, k) \ AnsweredBefore(t, k)
      <3>1. t[k].call \in IssuedBefore(t, k)
        BY <2>5, BeforeMessage
      <3>2. t[k].call \notin AnsweredBefore(t, k)
        BY <2>5, BeforeMessage
      <3> QED  BY <3>1, <3>2
    <2>6. Len(t) = n + 1
      BY <1>3
    <2> SUFFICES ASSUME NEW k \in 1..(n + 1), t[k].kind = "result"  PROVE Good(k)
      BY <2>5, <2>6, Zenon DEF Paired
    <2>2. CASE k < at
      <3>1. k \in 1..n /\ t[k] = s[k]
        BY <1>2, <1>3, <2>2
      <3>2. \A j \in 1..(k - 1) : j \in 1..(n + 1) /\ j < at
        BY <1>2, <2>2, <3>1
      <3>3. \A j \in 1..(k - 1) : t[j] = s[j]
        BY <1>3, <3>2
      <3> QED  BY <2>1, <3>1, <3>3
    <2>3. CASE k = at
      <3>1. t[k] = m
        BY <1>2, <1>3, <2>3
      <3>2. \A j \in 1..(k - 1) : j \in 1..(n + 1) /\ j < at /\ j \in 1..n
        BY <1>2, <2>3
      <3>3. \A j \in 1..(k - 1) : t[j] = s[j]
        BY <1>3, <3>2
      <3>4. i \in 1..(k - 1)
        BY <1>2, <2>3
      <3> QED  BY <1>1, <1>5, <3>1, <3>2, <3>3, <3>4
    <2>4. CASE k > at
      <3>1. /\ k - 1 \in 1..n /\ ~(k < at) /\ k # at
            /\ \A j \in 1..(k - 1) : j \in 1..(n + 1)
        BY <1>2, <2>4
      <3>2. t[k] = s[k - 1]
        BY <1>3, <3>1
      <3>3. PICK j \in 1..((k - 1) - 1) : s[k - 1].call \in Elements(CallsOf(s[j]))
        BY <2>1, <3>1, <3>2
      <3>4. \E x \in 1..(k - 1) : t[k].call \in Elements(CallsOf(t[x]))
        <4>1. CASE j < at
          <5>1. j \in 1..(k - 1) /\ t[j] = s[j]
            BY <1>2, <1>3, <3>1, <3>3, <4>1
          <5> QED  BY <3>2, <3>3, <5>1
        <4>2. CASE ~(j < at)
          <5>1. j + 1 \in 1..(k - 1) /\ ~(j + 1 < at) /\ j + 1 # at /\ (j + 1) - 1 = j
            BY <1>2, <3>1, <3>3, <4>2
          <5>2. t[j + 1] = s[j]
            BY <1>3, <3>1, <5>1
          <5> QED  BY <3>2, <3>3, <5>1, <5>2
        <4> QED  BY <4>1, <4>2
      <3>5. ASSUME NEW x \in 1..(k - 1), t[x].kind = "result", t[x].call = t[k].call
            PROVE  FALSE
        <4>1. CASE x < at
          <5>1. x \in 1..((k - 1) - 1) /\ t[x] = s[x]
            BY <1>2, <1>3, <2>4, <3>1, <4>1
          <5> QED  BY <2>1, <2>4, <3>1, <3>2, <3>5, <5>1
        <4>2. CASE x = at
          <5>1. t[x] = m
            BY <1>2, <1>3, <3>1, <4>2
          <5> QED  BY <1>1, <1>5, <3>1, <3>2, <3>5, <5>1
        <4>3. CASE ~(x < at) /\ x # at
          <5>1. x - 1 \in 1..((k - 1) - 1) /\ t[x] = s[x - 1]
            BY <1>2, <1>3, <3>1, <4>3
          <5> QED  BY <2>1, <3>1, <3>2, <3>5, <5>1
        <4> QED  BY <4>1, <4>2, <4>3
      <3> QED  BY <3>4, <3>5
    <2> QED  BY <1>2, <2>2, <2>3, <2>4
  <1>8. ASSUME NEW b, BatchesBelow(s, b)  PROVE BatchesBelow(t, b)
    <2>1. \A k \in 1..n : s[k].kind = "assistant" => s[k].batch < b
      BY <1>8 DEF BatchesBelow, n
    <2> SUFFICES ASSUME NEW k \in 1..(n + 1), t[k].kind = "assistant"  PROVE t[k].batch < b
      BY <1>3 DEF BatchesBelow
    <2>2. t[k] = m \/ \E j \in 1..n : t[k] = s[j]
      <3>1. CASE k < at
        <4>1. k \in 1..n
          BY <1>2, <3>1
        <4> QED  BY <1>3, <3>1, <4>1
      <3>2. CASE k = at
        BY <1>2, <1>3, <3>2
      <3>3. CASE k > at
        <4>1. k - 1 \in 1..n /\ ~(k < at) /\ k # at
          BY <1>2, <3>3
        <4> QED  BY <1>3, <4>1
      <3> QED  BY <1>2, <3>1, <3>2, <3>3
    <2> QED  BY <1>1, <2>1, <2>2
  <1> QED  BY <1>3, <1>7, <1>8 DEF t, m

(* Of a conversation some messages are left.                               *)
LEMMA Shortened ==
  ASSUME NEW s \in Talks, NEW I
  PROVE  /\ Pick(s, I) \in Talks
         /\ \E g : Picks(g, Pick(s, I), s, I)
         /\ \A n : BatchesBelow(s, n) => BatchesBelow(Pick(s, I), n)
  <1> DEFINE t == Pick(s, I)
  <1>1. t \in Talks /\ \E g : Picks(g, t, s, I)
    BY PickPicks DEF Talks
  <1>2. PICK g : Picks(g, t, s, I)
    BY <1>1
  <1> HIDE DEF t
  <1>3. \A i \in 1..Len(t) : g[i] \in 1..Len(s) /\ t[i] = s[g[i]]
    BY <1>2 DEF Picks
  <1>4. ASSUME NEW n, BatchesBelow(s, n)  PROVE BatchesBelow(t, n)
    BY <1>3, <1>4 DEF BatchesBelow
  <1> QED  BY <1>1, <1>4 DEF t

(* Without the duplicates nothing is answered twice.                       *)
LEMMA Deduplicated ==
  ASSUME NEW s \in Talks
  PROVE  /\ DropDuplicates(s) \in Talks
         /\ Single(DropDuplicates(s))
         /\ \A n : BatchesBelow(s, n) => BatchesBelow(DropDuplicates(s), n)
  <1> DEFINE I == {i \in 1..Len(s) : s[i].kind = "result" => s[i].call \notin AnsweredBefore(s, i)}
             t == Pick(s, I)
  <1>1. DropDuplicates(s) = t
    BY DEF DropDuplicates
  <1>2. /\ t \in Talks
        /\ \A n : BatchesBelow(s, n) => BatchesBelow(t, n)
        /\ \E g : Picks(g, t, s, I)
    BY Shortened
  <1>3. PICK g : Picks(g, t, s, I)
    BY <1>2
  <1> HIDE DEF t
  <1>4. /\ \A i \in 1..Len(t) : g[i] \in 1..Len(s) /\ g[i] \in I /\ t[i] = s[g[i]]
        /\ \A i, j \in 1..Len(t) : i < j => g[i] < g[j]
    BY <1>3 DEF Picks
  <1>5. Len(t) \in Nat /\ Len(s) \in Nat
    BY <1>2 DEF Talks
  <1>6. ASSUME NEW k \in 1..Len(t), t[k].kind = "result", t[k].call \in AnsweredBefore(t, k)
        PROVE  FALSE
    <2>1. PICK i \in 1..(k - 1) : t[i].kind = "result" /\ t[i].call = t[k].call
      BY <1>6, BeforeMessage
    <2>2. i \in 1..Len(t) /\ i < k
      BY <1>5, <2>1
    <2>3. g[i] \in 1..(g[k] - 1)
      BY <1>4, <1>5, <2>2
    <2>4. s[g[k]].kind = "result" /\ s[g[i]].kind = "result" /\ s[g[i]].call = s[g[k]].call
      BY <1>4, <1>6, <2>1, <2>2
    <2>5. s[g[k]].call \in AnsweredBefore(s, g[k])
      BY <2>3, <2>4, BeforeMessage
    <2>6. g[k] \in I
      BY <1>4
    <2> QED  BY <2>4, <2>5, <2>6
  <1>7. Single(t)
    BY <1>6, Zenon DEF Single
  <1> QED  BY <1>1, <1>2, <1>7

(* Without the orphans every result has its call.                          *)
LEMMA Withheld ==
  ASSUME NEW s \in Talks
  PROVE  /\ Withhold(s) \in Talks
         /\ Single(s) => Paired(Withhold(s))
         /\ \A n : BatchesBelow(s, n) => BatchesBelow(Withhold(s), n)
  <1> DEFINE I == {i \in 1..Len(s) : s[i].kind = "result" => s[i].call \in IssuedBefore(s, i)}
             t == Pick(s, I)
  <1>1. Withhold(s) = t
    BY DEF Withhold
  <1>2. /\ t \in Talks
        /\ \A n : BatchesBelow(s, n) => BatchesBelow(t, n)
        /\ \E g : Picks(g, t, s, I)
    BY Shortened
  <1>3. PICK g : Picks(g, t, s, I)
    BY <1>2
  <1> HIDE DEF t
  <1>4. /\ \A i \in 1..Len(t) : g[i] \in 1..Len(s) /\ g[i] \in I /\ t[i] = s[g[i]]
        /\ \A i, j \in 1..Len(t) : i < j => g[i] < g[j]
        /\ \A x \in 1..Len(s) : x \in I => \E i \in 1..Len(t) : g[i] = x
    BY <1>3 DEF Picks
  <1>5. Len(t) \in Nat /\ Len(s) \in Nat
    BY <1>2 DEF Talks
  <1>6. ASSUME Single(s), NEW k \in 1..Len(t), t[k].kind = "result"
        PROVE  t[k].call \in IssuedBefore(t, k) \ AnsweredBefore(t, k)
    <2>1. g[k] \in 1..Len(s) /\ g[k] \in I /\ t[k] = s[g[k]]
      BY <1>4
    <2>2. s[g[k]].call \in IssuedBefore(s, g[k])
      BY <1>6, <2>1
    <2>3. PICK j \in 1..(g[k] - 1) : s[g[k]].call \in Elements(CallsOf(s[j]))
      BY <2>2, BeforeMessage
    <2>4. j \in 1..Len(s) /\ j < g[k]
      BY <1>5, <2>1, <2>3
    <2>5. s[j].kind = "assistant"
      <3>1. CASE s[j].kind # "assistant"
        <4>1. CallsOf(s[j]) = <<>>
          BY <3>1 DEF CallsOf
        <4> QED  BY <2>3, <4>1, EmptyQueue
      <3> QED  BY <3>1
    <2>6. j \in I
      BY <2>4, <2>5
    <2>7. PICK i \in 1..Len(t) : g[i] = j
      BY <1>4, <2>4, <2>6
    <2>8. i \in 1..(k - 1)
      <3>1. ~(k < i) /\ k # i
        BY <1>4, <2>1, <2>4, <2>7
      <3> QED  BY <1>5, <3>1
    <2>9. t[k].call \in IssuedBefore(t, k)
      <3>1. t[i] = s[j]
        BY <1>4, <2>7
      <3>2. t[k].call \in Elements(CallsOf(t[i]))
        BY <2>1, <2>3, <3>1
      <3> QED  BY <2>8, <3>2, BeforeMessage
    <2>10. ASSUME t[k].call \in AnsweredBefore(t, k)  PROVE FALSE
      <3>1. PICK x \in 1..(k - 1) : t[x].kind = "result" /\ t[x].call = t[k].call
        BY <2>10, BeforeMessage
      <3>2. x \in 1..Len(t) /\ x < k
        BY <1>5, <3>1
      <3>3. g[x] \in 1..(g[k] - 1) /\ t[x] = s[g[x]]
        BY <1>4, <1>5, <3>2
      <3>4. s[g[k]].call \in AnsweredBefore(s, g[k])
        BY <2>1, <3>1, <3>3, BeforeMessage
      <3> QED  BY <1>6, <2>1, <3>4 DEF Single
    <2> QED  BY <2>9, <2>10
  <1>7. Single(s) => Paired(t)
    BY <1>6, Zenon DEF Paired
  <1> QED  BY <1>1, <1>2, <1>7

(* In a paired conversation every result has its call.                     *)
LEMMA PairedTalk ==
  ASSUME NEW s \in Talks, Paired(s)
  PROVE  AnsweredIn(s) \subseteq IssuedIn(s)
  <1> SUFFICES ASSUME NEW c \in AnsweredIn(s)  PROVE c \in IssuedIn(s)
    OBVIOUS
  <1>1. PICK i \in 1..Len(s) : s[i].kind = "result" /\ s[i].call = c
    BY InTalk DEF Talks
  <1>2. PICK j \in 1..(i - 1) : c \in Elements(CallsOf(s[j]))
    BY <1>1, BeforeMessage DEF Paired
  <1>3. j \in 1..Len(s)
    <2>1. Len(s) \in Nat
      BY DEF Talks
    <2> QED  BY <1>2, <2>1
  <1> QED  BY <1>2, <1>3, InTalk DEF Talks

(* A conversation that stops is answered by its own end.                   *)
LEMMA StoppedTalk ==
  ASSUME NEW s \in Talks
  PROVE  /\ Stopped(s) \in Talks
         /\ \A n : BatchesBelow(s, n) => BatchesBelow(Stopped(s), n)
  <1> DEFINE open == [i \in 1..Len(s) |-> Keep(CallsOf(s[i]), Unresolved(s))]
             dangling == FlattenSeq(open)
             ends == [i \in 1..Len(dangling) |-> Result(dangling[i], "stopped")]
  <1>1. Len(s) \in Nat /\ \A i \in 1..Len(s) : s[i] \in Message
    BY ElementOfSeq DEF Talks
  <1>2. \A i \in 1..Len(s) : Keep(CallsOf(s[i]), Unresolved(s)) \in Seq(Calls)
    <2> SUFFICES ASSUME NEW i \in 1..Len(s)
                 PROVE  Keep(CallsOf(s[i]), Unresolved(s)) \in Seq(Calls)
      OBVIOUS
    <2>1. s[i].batch \in 0..Len(Batches)
      BY <1>1 DEF Message
    <2>2. CallsOf(s[i]) \in Seq(Calls)
      BY <2>1, CallsTyped
    <2> QED  BY <2>2, KeepSifts
  <1>3. open \in Seq(Seq(Calls))
    <2> DEFINE q(i) == Keep(CallsOf(s[i]), Unresolved(s))
    <2>1. \A i \in 1..Len(s) : q(i) \in Seq(Calls)
      BY <1>2
    <2> HIDE DEF q
    <2>2. [i \in 1..Len(s) |-> q(i)] \in Seq(Seq(Calls))
      BY <1>1, <2>1
    <2> QED  BY <2>2 DEF q
  <1> HIDE DEF open
  <1>4. dangling \in Seq(Calls)
    BY <1>3, Flattened
  <1> HIDE DEF dangling
  <1>5. \A i \in 1..Len(dangling) : dangling[i] \in Calls
    BY <1>4, ElementOfSeq
  <1>6. \A c \in Calls : Result(c, "stopped") \in Message
    <2>1. Len(Batches) \in Nat
      BY PublicationAssumption
    <2> QED  BY <2>1 DEF Result, Message, Answers
  <1>7. /\ ends \in Seq(Message) /\ Len(ends) = Len(dangling) /\ Len(dangling) \in Nat
        /\ \A i \in 1..Len(ends) : ends[i] = Result(dangling[i], "stopped")
    <2>1. Len(dangling) \in Nat
      BY <1>4
    <2>2. \A i \in 1..Len(dangling) : Result(dangling[i], "stopped") \in Message
      BY <1>5, <1>6
    <2> DEFINE k == Len(dangling)
    <2>3. ends = [i \in 1..k |-> Result(dangling[i], "stopped")]
      OBVIOUS
    <2> HIDE DEF k, ends
    <2>4. ends \in [1..k -> Message] /\ \A i \in 1..k : ends[i] = Result(dangling[i], "stopped")
      BY <2>2, <2>3 DEF k
    <2>5. k \in Nat
      BY <2>1 DEF k
    <2>6. ends \in Seq(Message) /\ Len(ends) = k
      BY <2>4, <2>5, SequenceOf
    <2> QED  BY <2>4, <2>5, <2>6 DEF k
  <1>8. \A i \in 1..Len(ends) : ends[i].kind = "result"
    BY <1>7 DEF Result
  <1>9. Stopped(s) = s \o ends
    BY DEF Stopped, ends, dangling, open
  <1> HIDE DEF ends
  <1> DEFINE t == s \o ends
  <1>10. /\ t \in Talks /\ Len(t) = Len(s) + Len(ends)
         /\ \A i \in 1..(Len(s) + Len(ends)) :
              t[i] = IF i <= Len(s) THEN s[i] ELSE ends[i - Len(s)]
    BY <1>7, ConcatProperties DEF Talks
  <1> HIDE DEF t
  <1>11. ASSUME NEW n, BatchesBelow(s, n)  PROVE BatchesBelow(t, n)
    <2>1. \A i \in 1..Len(s) : s[i].kind = "assistant" => s[i].batch < n
      BY <1>11 DEF BatchesBelow
    <2> SUFFICES ASSUME NEW i \in 1..(Len(s) + Len(ends)), t[i].kind = "assistant"
                 PROVE  t[i].batch < n
      BY <1>10 DEF BatchesBelow
    <2>2. CASE i <= Len(s)
      <3>1. i \in 1..Len(s) /\ t[i] = s[i]
        BY <1>1, <1>7, <1>10, <2>2
      <3> QED  BY <2>1, <3>1
    <2>3. CASE ~(i <= Len(s))
      <3>1. i - Len(s) \in 1..Len(ends) /\ t[i] = ends[i - Len(s)]
        BY <1>1, <1>7, <1>10, <2>3
      <3> QED  BY <1>8, <3>1
    <2> QED  BY <2>2, <2>3
  <1> QED  BY <1>9, <1>10, <1>11 DEF t
-----------------------------------------------------------------------------
(* The session.                                                            *)

(* The entries of a session hang below earlier ones.                       *)
Sessions == {f \in Seq(Entry) : \A i \in 1..Len(f) : f[i].parent < i}

(* The function that Lineage is defined by.                                *)
IsPath(p, n, f) == p = [k \in 0..n |-> IF k = 0 THEN <<>> ELSE Append(p[f[k].parent], k)]

(* Every session has it.                                                   *)
LEMMA PathExists ==
  ASSUME NEW f \in Sessions
  PROVE  \E p : IsPath(p, Len(f), f)
  <1> DEFINE n == Len(f)
             T == {m \in Nat : m <= n => \E p : IsPath(p, m, f)}
  <1>1. n \in Nat /\ \A i \in 1..n : f[i].parent \in Nat /\ f[i].parent < i
    <2>1. f \in Seq(Entry) /\ \A i \in 1..n : f[i].parent < i
      BY DEF Sessions
    <2>2. \A i \in 1..n : f[i] \in Entry
      BY <2>1, ElementOfSeq
    <2>3. \A i \in 1..n : f[i].parent \in Nat
      BY <2>2 DEF Entry
    <2> QED  BY <2>1, <2>3
  <1> HIDE DEF n
  <1>2. 0 \in T
    <2> DEFINE p == [k \in 0..0 |-> <<>>]
    <2>1. p = [k \in 0..0 |-> IF k = 0 THEN <<>> ELSE Append(p[f[k].parent], k)]
      OBVIOUS
    <2> QED  BY <2>1 DEF IsPath
  <1>3. ASSUME NEW m \in T  PROVE m + 1 \in T
    <2> SUFFICES ASSUME m + 1 <= n  PROVE \E p : IsPath(p, m + 1, f)
      BY <1>3
    <2>1. m \in Nat /\ m <= n
      BY <1>1, <1>3
    <2>2. PICK p : IsPath(p, m, f)
      BY <1>3, <2>1
    <2> DEFINE last == Append(p[f[m + 1].parent], m + 1)
               q == [k \in 0..(m + 1) |-> IF k = m + 1 THEN last ELSE p[k]]
    <2>3. \A k \in 0..m : p[k] = IF k = 0 THEN <<>> ELSE Append(p[f[k].parent], k)
      BY <2>2 DEF IsPath
    <2> HIDE DEF last
    <2>4. ASSUME NEW k \in 0..(m + 1)
          PROVE  q[k] = IF k = 0 THEN <<>> ELSE Append(q[f[k].parent], k)
      <3>1. CASE k = m + 1
        <4>1. f[m + 1].parent \in 0..m /\ f[m + 1].parent # m + 1 /\ k # 0
          <5>1. m + 1 \in 1..n
            BY <1>1, <2>1
          <5>2. f[m + 1].parent \in Nat /\ f[m + 1].parent < m + 1
            BY <1>1, <5>1
          <5> QED  BY <2>1, <3>1, <5>2
        <4>2. q[f[m + 1].parent] = p[f[m + 1].parent]
          BY <2>1, <4>1
        <4>3. q[m + 1] = last
          BY <2>1
        <4> QED  BY <3>1, <4>1, <4>2, <4>3 DEF last
      <3>2. CASE k # m + 1
        <4>1. k \in 0..m /\ q[k] = p[k]
          BY <2>1, <3>2
        <4>2. CASE k = 0
          BY <2>3, <4>1, <4>2
        <4>3. CASE k # 0
          <5>1. k \in 1..n
            BY <1>1, <2>1, <4>1, <4>3
          <5>2. f[k].parent \in 0..m /\ f[k].parent # m + 1
            BY <1>1, <2>1, <4>1, <5>1
          <5>3. q[f[k].parent] = p[f[k].parent]
            BY <2>1, <5>2
          <5> QED  BY <2>3, <4>1, <4>3, <5>3
        <4> QED  BY <4>2, <4>3
      <3> QED  BY <3>1, <3>2
    <2>5. q = [k \in 0..(m + 1) |-> IF k = 0 THEN <<>> ELSE Append(q[f[k].parent], k)]
      BY <2>4, Zenon
    <2> QED  BY <2>5 DEF IsPath
  <1> HIDE DEF T
  <1>4. \A m \in Nat : m \in T
    <2>1. T \in SUBSET Nat
      BY DEF T
    <2> QED  BY <1>2, <1>3, <2>1, SetInduction
  <1>5. n \in T /\ n <= n
    BY <1>1, <1>4
  <1> QED  BY <1>5 DEF T, n

(* A lineage is a sequence of entries of the session.                      *)
LEMMA LineageTyped ==
  ASSUME NEW f \in Sessions, NEW i \in 0..Len(f)
  PROVE  Lineage(f, i) \in Seq(1..Len(f))
  <1> DEFINE n == Len(f)
             path == CHOOSE p : IsPath(p, n, f)
             bad == {k \in 0..n : path[k] \notin Seq(1..n)}
  <1>1. n \in Nat /\ \A k \in 1..n : f[k].parent \in Nat /\ f[k].parent < k
    <2>1. f \in Seq(Entry) /\ \A k \in 1..n : f[k].parent < k
      BY DEF Sessions
    <2>2. \A k \in 1..n : f[k] \in Entry
      BY <2>1, ElementOfSeq
    <2>3. \A k \in 1..n : f[k].parent \in Nat
      BY <2>2 DEF Entry
    <2> QED  BY <2>1, <2>3
  <1>2. Lineage(f, i) = path[i]
    BY DEF Lineage, IsPath
  <1>3. IsPath(path, n, f)
    <2>1. \E p : IsPath(p, n, f)
      BY PathExists
    <2> QED  BY <2>1
  <1>4. i \in 0..n
    OBVIOUS
  <1> HIDE DEF path, n
  <1>5. \A k \in 0..n : path[k] = IF k = 0 THEN <<>> ELSE Append(path[f[k].parent], k)
    BY <1>3 DEF IsPath
  <1>6. bad = {}
    <2> SUFFICES ASSUME bad # {}  PROVE FALSE
      OBVIOUS
    <2>1. bad \in SUBSET Nat
      BY <1>1
    <2>2. PICK k \in bad : \A l \in bad : k <= l
      BY <2>1, LeastNumber
    <2>3. CASE k = 0
      <3>1. path[k] = <<>>
        BY <1>5, <2>2, <2>3
      <3> QED  BY <2>2, <3>1, EmptySeq
    <2>4. CASE k # 0
      <3>1. k \in 1..n /\ f[k].parent \in 0..n /\ ~(k <= f[k].parent)
        BY <1>1, <2>2, <2>4
      <3>2. path[f[k].parent] \in Seq(1..n)
        BY <2>2, <3>1
      <3>3. path[k] = Append(path[f[k].parent], k)
        BY <1>5, <2>2, <2>4
      <3>4. path[k] \in Seq(1..n)
        BY <3>1, <3>2, <3>3, AppendProperties
      <3> QED  BY <2>2, <3>4
    <2> QED  BY <2>3, <2>4
  <1>7. path[i] \in Seq(1..n)
    BY <1>4, <1>6
  <1> QED  BY <1>2, <1>7 DEF n

(* What is read back from a session is a conversation.                     *)
LEMMA HistoryTyped ==
  ASSUME NEW f \in Sessions, NEW i \in 0..Len(f)
  PROVE  /\ History(f, i) \in Talks
         /\ \A n : BatchesBelow(f, n) => BatchesBelow(History(f, i), n)
  <1> DEFINE said == {k \in 1..Len(f) : f[k].kind # "child"}
             path == Keep(Lineage(f, i), said)
             m(k) == [kind |-> f[k].kind, batch |-> f[k].batch,
                      call |-> f[k].call, answer |-> f[k].answer]
             t == [k \in 1..Len(path) |-> m(path[k])]
  <1>1. Lineage(f, i) \in Seq(1..Len(f))
    BY LineageTyped
  <1>2. path \in Seq(1..Len(f)) /\ Elements(path) = Elements(Lineage(f, i)) \cap said
    BY <1>1, KeepSifts, KeepElements
  <1>3. History(f, i) = t
    BY DEF History
  <1> HIDE DEF path
  <1>4. Len(path) \in Nat /\ \A k \in 1..Len(path) : path[k] \in said
    BY <1>2 DEF Elements
  <1>5. \A k \in said : m(k) \in Message
    <2> SUFFICES ASSUME NEW k \in said  PROVE m(k) \in Message
      OBVIOUS
    <2>1. f \in Seq(Entry) /\ k \in 1..Len(f)
      BY DEF Sessions
    <2>2. f[k] \in Entry
      BY <2>1, ElementOfSeq
    <2> QED  BY <2>2 DEF Entry, Message
  <1>6. /\ t \in Seq(Message) /\ Len(t) = Len(path)
        /\ \A k \in 1..Len(path) : t[k] = m(path[k])
    <2> DEFINE u(k) == m(path[k])
    <2>1. \A k \in 1..Len(path) : u(k) \in Message
      BY <1>4, <1>5
    <2> DEFINE l == Len(path)
    <2>2. t = [k \in 1..l |-> u(k)]
      BY DEF u
    <2> HIDE DEF u, m, l, t
    <2>3. t \in [1..l -> Message] /\ \A k \in 1..l : t[k] = u(k)
      BY <2>1, <2>2 DEF l
    <2>4. l \in Nat
      BY <1>4 DEF l
    <2>5. t \in Seq(Message) /\ Len(t) = l
      BY <2>3, <2>4, SequenceOf
    <2> QED  BY <2>3, <2>5 DEF u, l
  <1>7. ASSUME NEW n, BatchesBelow(f, n)  PROVE BatchesBelow(t, n)
    <2>1. \A k \in said : f[k].kind = "assistant" => f[k].batch < n
      BY <1>7 DEF BatchesBelow
    <2>2. \A k \in 1..Len(t) : t[k].kind = "assistant" => t[k].batch < n
      BY <1>4, <1>6, <2>1
    <2> QED  BY <2>2 DEF BatchesBelow
  <1> QED  BY <1>3, <1>6, <1>7 DEF Talks

(* What the type invariant says of the session and the conversation.       *)
LEMMA Typed ==
  ASSUME TypeOK
  PROVE  /\ file \in Sessions /\ Len(file) \in Nat /\ leaf \in 0..Len(file)
         /\ messages \in Talks
         /\ NextBatch \in Nat /\ NextBatch >= 1
         /\ \A c : Projected(c) \subseteq 1..Len(file)
  <1>1. /\ file \in Sessions /\ Len(file) \in Nat /\ leaf \in 0..Len(file)
        /\ messages \in Talks
    <2>1. file \in Seq(Entry) /\ messages \in Seq(Message) /\ leaf \in 0..Len(file)
          /\ \A i \in 1..Len(file) : file[i].parent < i
      BY DEF TypeOK
    <2>2. Len(file) \in Nat
      BY <2>1
    <2> QED  BY <2>1, <2>2 DEF Sessions, Talks
  <1>2. NextBatch \in Nat /\ NextBatch >= 1
    <2> DEFINE B == {i \in 1..Len(file) : file[i].kind = "assistant" /\ file[i].batch > 0}
    <2>1. IsFiniteSet(1..Len(file))
      BY <1>1, FS_Interval
    <2>2. B \in SUBSET (1..Len(file))
      OBVIOUS
    <2>3. Cardinality(B) \in Nat
      BY <2>1, <2>2, FS_Subset, FS_CardinalityType
    <2> HIDE DEF B
    <2>4. NextBatch = 1 + Cardinality(B)
      BY DEF NextBatch, B
    <2> QED  BY <2>3, <2>4
  <1>3. \A c : Projected(c) \subseteq 1..Len(file)
    BY DEF Projected
  <1> QED  BY <1>1, <1>2, <1>3

(* A result is a message.                                                  *)
LEMMA ResultTyped ==
  ASSUME NEW c \in Calls, NEW a \in Answers
  PROVE  /\ Result(c, a) \in Message
         /\ Result(c, a).kind = "result" /\ Result(c, a).call = c
         /\ Result(c, a).batch = 0 /\ Result(c, a).answer = a
         /\ CallsOf(Result(c, a)) = <<>>
  <1>1. Len(Batches) \in Nat
    BY PublicationAssumption
  <1> QED  BY <1>1 DEF Result, Message, CallsOf

(* An entry that is appended.                                              *)
LEMMA EntryAppended ==
  ASSUME TypeOK, NEW m \in Message, NEW kind \in {"prompt", "assistant", "result", "child"},
         NEW event \in BOOLEAN, AppendEntry(m, kind, event)
  PROVE  /\ file' \in Sessions
         /\ leaf' \in 0..Len(file')
         /\ \A c : Projected(c)' = Projected(c) \cup {i \in {Len(file) + 1} : event /\ m.call = c}
         /\ NextBatch' = IF kind = "assistant" /\ m.batch > 0 THEN NextBatch + 1 ELSE NextBatch
         /\ \A n : BatchesBelow(file, n) /\ (kind = "assistant" => m.batch < n) =>
                     BatchesBelow(file', n)
  <1> DEFINE e == [kind |-> kind, batch |-> m.batch, call |-> m.call,
                   answer |-> m.answer, event |-> event, parent |-> leaf]
             n == Len(file)
             f == file'
  <1>1. file \in Sessions /\ n \in Nat /\ leaf \in 0..n
    BY Typed
  <1>2. file' = Append(file, e) /\ leaf' = n + 1
    BY DEF AppendEntry
  <1>3. e \in Entry /\ e.kind = kind /\ e.batch = m.batch /\ e.call = m.call
        /\ e.event = event /\ e.parent = leaf
    BY <1>1 DEF Entry, Message
  <1> HIDE DEF e
  <1>4. file \in Seq(Entry) /\ \A i \in 1..n : file[i].parent < i
    BY <1>1 DEF Sessions
  <1>5. f \in Seq(Entry) /\ Len(f) = n + 1 /\ f[n + 1] = e /\ \A i \in 1..n : f[i] = file[i]
    BY <1>2, <1>3, <1>4, AppendProperties
  <1> HIDE DEF n, f
  <1>6. 1..Len(f) = 1..n \cup {n + 1} /\ n + 1 \notin 1..n
    BY <1>1, <1>5
  <1>7. f \in Sessions
    <2>1. ASSUME NEW i \in 1..Len(f)  PROVE f[i].parent < i
      <3>1. CASE i = n + 1
        BY <1>1, <1>3, <1>5, <3>1
      <3>2. CASE i \in 1..n
        BY <1>4, <1>5, <3>2
      <3> QED  BY <1>6, <3>1, <3>2
    <2> QED  BY <1>5, <2>1 DEF Sessions
  <1>8. leaf' \in 0..Len(f)
    BY <1>1, <1>2, <1>5
  <1>9. ASSUME NEW c
        PROVE  Projected(c)' = Projected(c) \cup {i \in {n + 1} : event /\ m.call = c}
    <2>1. Projected(c)' = {i \in 1..Len(f) : f[i].event /\ f[i].call = c}
      BY DEF Projected, f
    <2>2. Projected(c) = {i \in 1..n : file[i].event /\ file[i].call = c}
      BY DEF Projected, n
    <2>3. \A i \in 1..Len(f) :
            f[i].event /\ f[i].call = c <=>
              i \in Projected(c) \/ (i = n + 1 /\ event /\ m.call = c)
      BY <1>3, <1>5, <1>6, <2>2
    <2>4. \A i \in Projected(c) : i \in 1..Len(f)
      BY <1>6, <2>2
    <2>5. n + 1 \in 1..Len(f)
      BY <1>6
    <2> QED  BY <2>1, <2>3, <2>4, <2>5
  <1>10. NextBatch' = IF kind = "assistant" /\ m.batch > 0 THEN NextBatch + 1 ELSE NextBatch
    <2> DEFINE B == {i \in 1..n : file[i].kind = "assistant" /\ file[i].batch > 0}
               C == {i \in 1..Len(f) : f[i].kind = "assistant" /\ f[i].batch > 0}
    <2>1. IsFiniteSet(B)
      <3>1. IsFiniteSet(1..n)
        BY <1>1, FS_Interval
      <3> QED  BY <3>1, FS_Subset
    <2>2. NextBatch = 1 + Cardinality(B) /\ NextBatch' = 1 + Cardinality(C)
      BY DEF NextBatch, n, f
    <2>3. Cardinality(B) \in Nat /\ n + 1 \notin B
      BY <1>6, <2>1, FS_CardinalityType
    <2>4. CASE kind = "assistant" /\ m.batch > 0
      <3>1. C = B \cup {n + 1}
        BY <1>3, <1>5, <1>6, <2>4
      <3> HIDE DEF B, C
      <3>2. Cardinality(C) = Cardinality(B) + 1
        BY <2>1, <2>3, <3>1, FS_AddElement
      <3> QED  BY <2>2, <2>3, <2>4, <3>2
    <2>5. CASE ~(kind = "assistant" /\ m.batch > 0)
      <3>1. C = B
        BY <1>3, <1>5, <1>6, <2>5
      <3> QED  BY <2>2, <2>5, <3>1
    <2> QED  BY <2>4, <2>5
  <1>11. ASSUME NEW k, BatchesBelow(file, k), kind = "assistant" => m.batch < k
         PROVE  BatchesBelow(f, k)
    <2>1. \A i \in 1..n : file[i].kind = "assistant" => file[i].batch < k
      BY <1>11 DEF BatchesBelow, n
    <2> QED  BY <1>3, <1>5, <1>6, <1>11, <2>1 DEF BatchesBelow
  <1> QED  BY <1>7, <1>8, <1>9, <1>10, <1>11 DEF f, n

(* A session that stays as it is.                                          *)
LEMMA SameFile ==
  ASSUME file' = file
  PROVE  NextBatch' = NextBatch /\ \A c : Projected(c)' = Projected(c)
  BY DEF NextBatch, Projected

(* An entry without an event id that issues no call.                       *)
LEMMA PlainEntry ==
  ASSUME TypeOK, NEW m \in Message, NEW kind \in {"prompt", "assistant", "result", "child"},
         kind = "assistant" => m.batch = 0, AppendEntry(m, kind, FALSE),
         BatchesBelow(file, NextBatch)
  PROVE  /\ file' \in Sessions
         /\ leaf' \in 0..Len(file')
         /\ \A c : Projected(c)' = Projected(c)
         /\ NextBatch' = NextBatch
         /\ BatchesBelow(file', NextBatch)
  <1>1. FALSE \in BOOLEAN
    OBVIOUS
  <1>2. /\ file' \in Sessions
        /\ leaf' \in 0..Len(file')
        /\ \A c : Projected(c)' = Projected(c) \cup {i \in {Len(file) + 1} : FALSE /\ m.call = c}
        /\ NextBatch' = IF kind = "assistant" /\ m.batch > 0 THEN NextBatch + 1 ELSE NextBatch
        /\ \A n : BatchesBelow(file, n) /\ (kind = "assistant" => m.batch < n) =>
                    BatchesBelow(file', n)
    BY <1>1, EntryAppended
  <1>3. NextBatch \in Nat /\ NextBatch >= 1
    BY Typed
  <1>4. NextBatch' = NextBatch
    BY <1>2
  <1>5. BatchesBelow(file', NextBatch)
    BY <1>2, <1>3
  <1>6. \A c : Projected(c)' = Projected(c)
    BY <1>2
  <1> QED  BY <1>2, <1>4, <1>5, <1>6

(* Calls of the batches, and those of them that were issued.               *)
LEMMA BatchesAreApart ==
  ASSUME NEW n \in DOMAIN Batches
  PROVE  /\ n \in Nat /\ Batches[n] \in Seq(Calls) /\ Distinct(Batches[n])
         /\ \A c \in Elements(Batches[n]) :
              /\ c \in Calls /\ Parent[c] = NoCall /\ Root(c) = c
              /\ c \notin IssuedBelow(n)
              /\ \A k \in Nat : n < k => c \in IssuedBelow(k)
  <1>1. /\ Batches \in Seq(Seq(Calls)) /\ DOMAIN Batches = 1..Len(Batches)
        /\ n \in 1..Len(Batches) /\ n \in Nat
    BY PublicationAssumption
  <1>2. Batches[n] \in Seq(Calls) /\ \A k \in DOMAIN Batches : Batches[k] \in Seq(Calls)
    BY <1>1, ElementOfSeq
  <1>3. \A k \in DOMAIN Batches : DOMAIN Batches[k] = 1..Len(Batches[k])
    BY <1>2
  <1>4. \A k, l \in DOMAIN Batches : \A i \in 1..Len(Batches[k]), j \in 1..Len(Batches[l]) :
          Batches[k][i] = Batches[l][j] => k = l /\ i = j
    BY <1>3, PublicationAssumption
  <1>5. Distinct(Batches[n])
    BY <1>4 DEF Distinct
  <1>6. ASSUME NEW c \in Elements(Batches[n])
        PROVE  /\ c \in Calls /\ Parent[c] = NoCall /\ Root(c) = c
               /\ c \notin IssuedBelow(n)
               /\ \A k \in Nat : n < k => c \in IssuedBelow(k)
    <2>1. c \in Issued
      BY DEF Issued
    <2>2. c \in Calls /\ Parent[c] = NoCall
      BY <2>1, PublicationAssumption
    <2>3. c \notin IssuedBelow(n)
      <3>1. PICK i \in 1..Len(Batches[n]) : Batches[n][i] = c
        BY DEF Elements
      <3>2. ASSUME NEW k \in DOMAIN Batches, k < n, c \in Elements(Batches[k])  PROVE FALSE
        <4>1. PICK j \in 1..Len(Batches[k]) : Batches[k][j] = c
          BY <3>2 DEF Elements
        <4>2. k = n
          BY <1>4, <3>1, <4>1
        <4> QED  BY <1>1, <3>2, <4>2
      <3> QED  BY <3>2 DEF IssuedBelow
    <2>4. ASSUME NEW k \in Nat, n < k  PROVE c \in IssuedBelow(k)
      BY <2>4 DEF IssuedBelow
    <2> QED  BY <2>2, <2>3, <2>4 DEF Root
  <1> QED  BY <1>1, <1>2, <1>5, <1>6

(* What a conversation issued are calls of the batches it holds.           *)
LEMMA IssuedTalk ==
  ASSUME NEW s \in Talks, NEW n \in Nat, BatchesBelow(s, n)
  PROVE  IssuedIn(s) \subseteq IssuedBelow(n)
  <1> SUFFICES ASSUME NEW c \in IssuedIn(s)  PROVE c \in IssuedBelow(n)
    OBVIOUS
  <1>1. PICK i \in 1..Len(s) : c \in Elements(CallsOf(s[i]))
    BY InTalk DEF Talks
  <1>2. s[i].batch \in 0..Len(Batches)
    <2>1. s[i] \in Message
      BY ElementOfSeq DEF Talks
    <2> QED  BY <2>1 DEF Message
  <1>3. CASE s[i].kind = "assistant" /\ s[i].batch > 0
    <2>1. s[i].batch \in DOMAIN Batches /\ CallsOf(s[i]) = Batches[s[i].batch]
      BY <1>2, <1>3, CallsTyped
    <2>2. s[i].batch < n
      BY <1>3 DEF BatchesBelow
    <2> QED  BY <1>1, <2>1, <2>2 DEF IssuedBelow
  <1>4. CASE ~(s[i].kind = "assistant" /\ s[i].batch > 0)
    <2>1. CallsOf(s[i]) = <<>>
      BY <1>2, <1>4, CallsTyped
    <2> QED  BY <1>1, <2>1, EmptyQueue
  <1> QED  BY <1>3, <1>4

(* A call that runs inside another one runs inside one that was issued.    *)
LEMMA Nested ==
  ASSUME NEW c \in Calls, Parent[c] # NoCall
  PROVE  /\ Parent[c] \in Calls /\ Parent[Parent[c]] = NoCall /\ Parent[c] # c
         /\ Root(c) = Parent[c] /\ Root(Parent[c]) = Parent[c]
  <1>1. Parent[c] \in Issued
    BY PublicationAssumption
  <1>2. Parent[c] \in Calls /\ Parent[Parent[c]] = NoCall
    BY <1>1, PublicationAssumption
  <1> QED  BY <1>2 DEF Root
-----------------------------------------------------------------------------
(* What a step leaves alone.                                               *)

(* No entry carries an event id that did not.                              *)
LEMMA RowsFrame ==
  ASSUME SessionIsSound, ProjectedOnce, AcknowledgedIsInSession, ChildrenFirst,
         outbox' = outbox, acked' = acked, \A c \in Calls : Projected(c)' = Projected(c),
         BatchesBelow(file', NextBatch'), BatchesBelow(messages', NextBatch'),
         \A c \in Elements(outbox) : c \in Calls /\ (Parent[c] # NoCall => Parent[c] \in Calls),
         acked \subseteq Calls
  PROVE  (SessionIsSound /\ ProjectedOnce /\ AcknowledgedIsInSession /\ ChildrenFirst)'
  <1>1. SessionIsSound'
    BY DEF SessionIsSound
  <1>2. ProjectedOnce'
    BY DEF ProjectedOnce
  <1>3. AcknowledgedIsInSession'
    BY DEF AcknowledgedIsInSession
  <1>4. ChildrenFirst'
    BY DEF ChildrenFirst
  <1> QED  BY <1>1, <1>2, <1>3, <1>4

(* The outbox stays, and no batch is taken back.                           *)
LEMMA OutboxFrame ==
  ASSUME OutboxIsSound, outbox' = outbox, NextBatch \in Nat, NextBatch' \in Nat,
         NextBatch <= NextBatch'
  PROVE  OutboxIsSound'
  <1>1. IssuedBelow(NextBatch) \subseteq IssuedBelow(NextBatch')
    <2>1. DOMAIN Batches \subseteq Nat
      <3>1. DOMAIN Batches = 1..Len(Batches) /\ Len(Batches) \in Nat
        BY PublicationAssumption
      <3> QED  BY <3>1
    <2>2. {j \in DOMAIN Batches : j < NextBatch} \subseteq {j \in DOMAIN Batches : j < NextBatch'}
      BY <2>1
    <2> QED  BY <2>2 DEF IssuedBelow
  <1>2. IssuedBelow(NextBatch)' = IssuedBelow(NextBatch')
    BY DEF IssuedBelow
  <1> QED  BY <1>1, <1>2 DEF OutboxIsSound

(* Nothing is in hand.                                                     *)
LEMMA HandsEmpty ==
  ASSUME phase' \notin {"tools", "projecting"}, queue' = <<>>,
         \A c \in Calls : got'[c] # "running"
  PROVE  HandIsSound'
  <1>1. Elements(queue') = {}
    BY EmptyQueue
  <1> QED  BY <1>1 DEF HandIsSound

(* Before the batch and after it nobody runs.                              *)
LEMMA NobodyRuns ==
  ASSUME HandIsSound, phase # "tools" \/ Deliverable
  PROVE  \A c \in Calls : got[c] # "running"
  BY DEF HandIsSound, Deliverable, InHand

(* No row is being projected.                                              *)
LEMMA NoRows ==
  ASSUME todo' = <<>>
  PROVE  RowsAreInOrder'
  <1>1. Elements(todo') = {} /\ Distinct(todo')
    BY EmptyQueue
  <1> QED  BY <1>1 DEF RowsAreInOrder

(* The rows that are being projected stay as they are.                     *)
LEMMA SameRows ==
  ASSUME RowsAreInOrder, todo' = todo, outbox' = outbox, phase' = phase,
         \A c \in Elements(outbox) : Projected(c) \subseteq Projected(c)'
  PROVE  RowsAreInOrder'
  BY DEF RowsAreInOrder

(* The batch in hand stays as it is.                                       *)
LEMMA SameHand ==
  ASSUME HandIsSound, queue' = queue, got' = got, phase' = phase, outbox' = outbox,
         NextBatch' = NextBatch
  PROVE  HandIsSound'
  BY DEF HandIsSound, InHand

(* The conversation stays as it is.                                        *)
LEMMA SameTalk ==
  ASSUME TalkIsSound, messages' = messages, phase' = phase, queue' = queue,
         todo' = todo, outbox' = outbox, acked' = acked
  PROVE  TalkIsSound'
  BY DEF TalkIsSound, Pending

(* What is in hand in the phases of the agent.                             *)
LEMMA PhaseHands ==
  ASSUME HandIsSound, RowsAreInOrder
  PROVE  /\ phase \notin {"tools", "projecting"} => queue = <<>>
         /\ phase \notin Replaying \cup {"projecting"} => todo = <<>>
  BY DEF HandIsSound, RowsAreInOrder
-----------------------------------------------------------------------------
(* The outbox.                                                             *)

(* The first n of a line are in its order.                                 *)
LEMMA FirstOfLine ==
  ASSUME NEW A, NEW s \in Seq(A), NEW n \in 0..Len(s)
  PROVE  LET t == SubSeq(s, 1, n) IN
         /\ t \in Seq(A) /\ Len(t) = n
         /\ Elements(t) \subseteq Elements(s)
         /\ Distinct(s) => Distinct(t)
         /\ \A x, y : Distinct(s) /\ Precedes(s, x, y) /\ y \in Elements(t) => Precedes(t, x, y)
  <1> DEFINE t == SubSeq(s, 1, n)
  <1>1. Len(s) \in Nat /\ n \in Nat /\ n <= Len(s) /\ \A i \in 1..n : i \in 1..Len(s) /\ s[i] \in A
    BY ElementOfSeq
  <1>2. /\ t \in Seq(A) /\ Len(t) = IF 1 <= n THEN n - 1 + 1 ELSE 0
        /\ \A i \in 1..(n - 1 + 1) : t[i] = s[1 + i - 1]
    BY <1>1, SubSeqProperties
  <1>3. Len(t) = n /\ \A i \in 1..n : t[i] = s[i]
    BY <1>1, <1>2
  <1> HIDE DEF t
  <1>4. Elements(t) \subseteq Elements(s)
    BY <1>1, <1>3 DEF Elements
  <1>5. Distinct(s) => Distinct(t)
    BY <1>1, <1>3 DEF Distinct
  <1>6. ASSUME NEW x, NEW y, Distinct(s), Precedes(s, x, y), y \in Elements(t)
        PROVE  Precedes(t, x, y)
    <2>1. PICK k, l \in 1..Len(s) : k < l /\ s[k] = x /\ s[l] = y
      BY <1>6 DEF Precedes
    <2>2. PICK j \in 1..n : s[j] = y
      BY <1>3, <1>6 DEF Elements
    <2>3. l = j
      BY <1>1, <1>6, <2>1, <2>2 DEF Distinct
    <2>4. k \in 1..n /\ l \in 1..n
      BY <1>1, <2>1, <2>2, <2>3
    <2>5. t[k] = x /\ t[l] = y
      BY <1>3, <2>1, <2>4
    <2> QED  BY <1>3, <2>1, <2>4, <2>5 DEF Precedes
  <1> QED  BY <1>2, <1>3, <1>4, <1>5, <1>6 DEF t

(* The rows that one read returns.                                         *)
LEMMA RowsRead ==
  ASSUME TypeOK, OutboxIsSound
  PROVE  /\ Pending \in Seq(Calls) /\ PendingRows \in Seq(Calls)
         /\ PendingRows = <<>> => Pending = <<>>
         /\ Distinct(PendingRows)
         /\ Elements(PendingRows) \subseteq Elements(outbox) \ acked
         /\ \A c \in Elements(outbox) \ acked : Parent[c] \in Elements(PendingRows) =>
              Precedes(PendingRows, c, Parent[c])
  <1> DEFINE P == Pending
             R == PendingRows
  <1>1. outbox \in Seq(Calls) /\ Window \in Nat /\ Window # 0
    BY PublicationAssumption DEF TypeOK
  <1>2. P \in Seq(Calls) /\ Elements(P) = Elements(outbox) \cap (Calls \ acked)
    BY <1>1, KeepSifts, KeepElements DEF Pending
  <1>3. Distinct(P) /\ \A x, y \in Calls \ acked : Precedes(outbox, x, y) => Precedes(P, x, y)
    BY <1>1, KeptQueue DEF Pending, OutboxIsSound
  <1>4. PendingRows = IF Len(P) <= Window THEN P ELSE SubSeq(P, 1, Window)
    BY DEF PendingRows
  <1> HIDE DEF P
  <1>5. /\ R \in Seq(Calls) /\ Distinct(R) /\ Elements(R) \subseteq Elements(P)
        /\ R = <<>> => P = <<>>
        /\ \A x, y : Precedes(P, x, y) /\ y \in Elements(R) => Precedes(R, x, y)
    <2>1. CASE Len(P) <= Window
      BY <1>2, <1>3, <1>4, <2>1
    <2>2. CASE ~(Len(P) <= Window)
      <3>1. Len(P) \in Nat
        BY <1>2
      <3>2. Window \in 0..Len(P)
        BY <1>1, <2>2, <3>1
      <3> DEFINE t == SubSeq(P, 1, Window)
      <3>3. /\ t \in Seq(Calls) /\ Len(t) = Window
            /\ Elements(t) \subseteq Elements(P)
            /\ Distinct(P) => Distinct(t)
            /\ \A x, y : Distinct(P) /\ Precedes(P, x, y) /\ y \in Elements(t) => Precedes(t, x, y)
        BY <1>2, <3>2, FirstOfLine
      <3>4. R = t
        BY <1>4, <2>2
      <3> HIDE DEF t
      <3>5. t # <<>>
        BY <1>1, <3>3, EmptySeq
      <3> QED  BY <1>3, <3>3, <3>4, <3>5
    <2> QED  BY <2>1, <2>2
  <1>6. Elements(outbox) \subseteq Calls
    BY <1>1, ElementsTyped
  <1> HIDE DEF R
  <1>7. Elements(R) \subseteq Elements(outbox) \ acked
    BY <1>2, <1>5
  <1>8. ASSUME NEW c \in Elements(outbox) \ acked, Parent[c] \in Elements(R)
        PROVE  Precedes(R, c, Parent[c])
    <2>1. Parent[c] \in Elements(outbox) /\ Parent[c] \in Calls \ acked /\ c \in Calls \ acked
      BY <1>6, <1>7, <1>8
    <2>2. Precedes(outbox, c, Parent[c])
      BY <2>1 DEF OutboxIsSound
    <2> QED  BY <1>3, <1>5, <1>8, <2>1, <2>2
  <1> QED  BY <1>2, <1>5, <1>7, <1>8 DEF P, R

(* The rows that are projected with a result that is delivered.            *)
LEMMA RowsDelivered ==
  ASSUME TypeOK, OutboxIsSound, NEW c \in Elements(PendingRows), Parent[c] = NoCall
  PROVE  /\ RowsOf(c) \in Seq(Calls) /\ Distinct(RowsOf(c)) /\ RowsOf(c) # <<>>
         /\ Elements(RowsOf(c)) \subseteq Elements(outbox)
         /\ \A d \in Elements(outbox) \ acked : Parent[d] \in Elements(RowsOf(c)) =>
              Precedes(RowsOf(c), d, Parent[d])
  <1> DEFINE D == {d \in Calls : Parent[d] = c}
             K == Keep(PendingRows, D)
             R == Append(K, c)
  <1>1. /\ PendingRows \in Seq(Calls) /\ Distinct(PendingRows)
        /\ Elements(PendingRows) \subseteq Elements(outbox) \ acked
        /\ \A d \in Elements(outbox) \ acked : Parent[d] \in Elements(PendingRows) =>
             Precedes(PendingRows, d, Parent[d])
    BY RowsRead
  <1>2. outbox \in Seq(Calls) /\ Elements(outbox) \subseteq Calls
    BY ElementsTyped DEF TypeOK
  <1>3. /\ K \in Seq(Calls) /\ Elements(K) = Elements(PendingRows) \cap D /\ Distinct(K)
    BY <1>1, KeepSifts, KeepElements, KeptQueue
  <1> HIDE DEF K
  <1>4. c \in Calls /\ c # NoCall /\ c \notin D
    BY <1>1, <1>2, PublicationAssumption
  <1>5. /\ R \in Seq(Calls) /\ Elements(R) = Elements(K) \cup {c} /\ Distinct(R)
        /\ \A x, y : Precedes(R, x, y) <=> Precedes(K, x, y) \/ (x \in Elements(K) /\ y = c)
    BY <1>3, <1>4, AppendedQueue, AppendedLine
  <1>6. RowsOf(c) = R
    BY DEF RowsOf, K
  <1>7. R # <<>>
    BY <1>5, EmptyQueue
  <1> HIDE DEF R
  <1>8. ASSUME NEW d \in Elements(outbox) \ acked, Parent[d] \in Elements(R)
        PROVE  Precedes(R, d, Parent[d])
    <2>1. d \in Calls
      BY <1>2
    <2>2. Parent[d] = c
      <3>1. CASE Parent[d] \in Elements(K)
        <4>1. Parent[d] \in Calls /\ Parent[Parent[d]] = c
          BY <1>3, <3>1
        <4>2. Parent[d] # NoCall
          BY <4>1, PublicationAssumption
        <4>3. Parent[Parent[d]] = NoCall
          BY <2>1, <4>2, Nested
        <4> QED  BY <1>4, <4>1, <4>3
      <3> QED  BY <1>5, <1>8, <3>1
    <2>3. Precedes(PendingRows, d, c)
      BY <1>1, <2>2
    <2>4. d \in Elements(K)
      BY <1>3, <2>1, <2>2, <2>3, PrecedesElements
    <2> QED  BY <1>5, <2>2, <2>4
  <1> QED  BY <1>1, <1>3, <1>5, <1>6, <1>7, <1>8
-----------------------------------------------------------------------------
(* The steps.                                                              *)

(* The invariant of the parts that most steps leave alone.                 *)
LEMMA Conjuncts ==
  ASSUME IInv
  PROVE  /\ TypeOK /\ SessionIsSound /\ OutboxIsSound /\ HandIsSound /\ RowsAreInOrder
         /\ TalkIsSound /\ ProjectedOnce /\ AcknowledgedIsInSession /\ ChildrenFirst
         /\ BatchesBelow(file, NextBatch) /\ BatchesBelow(messages, NextBatch)
         /\ outbox \in Seq(Calls) /\ acked \subseteq Calls
         /\ \A c \in Elements(outbox) : c \in Calls /\ (Parent[c] # NoCall => Parent[c] \in Calls)
  <1>1. outbox \in Seq(Calls) /\ acked \subseteq Elements(outbox)
    BY DEF IInv, TypeOK
  <1>2. Elements(outbox) \subseteq Calls
    BY <1>1, ElementsTyped
  <1>3. \A c \in Calls : Parent[c] # NoCall => Parent[c] \in Calls
    BY PublicationAssumption
  <1> QED  BY <1>1, <1>2, <1>3 DEF IInv, SessionIsSound

(* The program starts with nothing.                                        *)
LEMMA InitSound == Init => IInv
  <1> SUFFICES ASSUME Init  PROVE IInv
    OBVIOUS
  <1>1. /\ Elements(<<>>) = {} /\ Distinct(<<>>) /\ Len(<<>>) = 0 /\ 1..0 = {}
        /\ \A A : <<>> \in Seq(A)
    BY EmptyQueue, EmptySeq
  <1>2. TypeOK
    BY <1>1, PublicationAssumption DEF Init, TypeOK, NotStarted, Replaying
  <1>3. \A c \in Calls : Projected(c) = {}
    BY <1>1 DEF Init, Projected
  <1>4. SessionIsSound
    BY <1>3, EmptyTalk DEF Init, SessionIsSound
  <1>5. OutboxIsSound /\ RowsAreInOrder /\ HandIsSound
    BY <1>1 DEF Init, OutboxIsSound, RowsAreInOrder, HandIsSound, NotStarted
  <1>6. TalkIsSound
    BY DEF Init, TalkIsSound
  <1>7. ProjectedOnce
    BY <1>3, FS_EmptySet DEF ProjectedOnce
  <1>8. AcknowledgedIsInSession /\ ChildrenFirst
    BY <1>1 DEF Init, AcknowledgedIsInSession, ChildrenFirst
  <1> QED  BY <1>2, <1>4, <1>5, <1>6, <1>7, <1>8 DEF IInv

(* Nothing happens.                                                        *)
LEMMA StutterSound ==
  ASSUME IInv, UNCHANGED vars
  PROVE  IInv'
  <1> USE DEF vars
  <1>1. NextBatch' = NextBatch /\ \A c : Projected(c)' = Projected(c)
    BY SameFile
  <1>2. TypeOK'
    BY DEF IInv, TypeOK
  <1>3. NextBatch \in Nat
    BY Typed DEF IInv
  <1>4. (SessionIsSound /\ ProjectedOnce /\ AcknowledgedIsInSession /\ ChildrenFirst)'
    BY <1>1, Conjuncts, RowsFrame
  <1>5. OutboxIsSound'
    BY <1>1, <1>3, Conjuncts, OutboxFrame
  <1>6. HandIsSound' /\ RowsAreInOrder' /\ TalkIsSound'
    BY <1>1, Conjuncts, SameHand, SameRows, SameTalk
  <1> QED  BY <1>2, <1>4, <1>5, <1>6 DEF IInv

(* A prompt.                                                               *)
LEMMA PromptSound ==
  ASSUME IInv, Prompt
  PROVE  IInv'
  <1> USE DEF journal, session
  <1>1. /\ phase = "idle" /\ phase' \in {"asking", "closing"}
        /\ prompts < MaxPrompts /\ prompts' = prompts + 1
        /\ UNCHANGED <<effect, outbox, acked, file, leaf, messages, queue, got, todo, fresh>>
    BY DEF Prompt
  <1>2. TypeOK'
    BY <1>1, PublicationAssumption DEF IInv, TypeOK, Replaying
  <1>3. NextBatch' = NextBatch /\ NextBatch \in Nat /\ \A c : Projected(c)' = Projected(c)
    BY <1>1, SameFile, Typed DEF IInv
  <1>4. (SessionIsSound /\ ProjectedOnce /\ AcknowledgedIsInSession /\ ChildrenFirst)'
    BY <1>1, <1>3, Conjuncts, RowsFrame
  <1>5. OutboxIsSound'
    BY <1>1, <1>3, Conjuncts, OutboxFrame
  <1>6. queue = <<>> /\ todo = <<>> /\ \A c \in Calls : got[c] # "running"
    BY <1>1, Conjuncts, PhaseHands, NobodyRuns DEF Replaying
  <1>7. HandIsSound' /\ RowsAreInOrder'
    BY <1>1, <1>6, HandsEmpty, NoRows
  <1>8. TalkIsSound'
    BY <1>1 DEF TalkIsSound
  <1> QED  BY <1>2, <1>4, <1>5, <1>7, <1>8 DEF IInv

(* The prompt is appended and the conversation repaired.                   *)
LEMMA AskSound ==
  ASSUME IInv, Ask
  PROVE  IInv'
  <1> USE DEF journal, turn
  <1> DEFINE t == Append(messages, Prompted)
             u == DropDuplicates(t)
  <1>1. /\ phase = "asking" /\ phase' = "replaying"
        /\ AppendEntry(Prompted, "prompt", FALSE)
        /\ messages' = Withhold(u)
        /\ UNCHANGED <<effect, outbox, acked, queue, got, prompts, todo, fresh>>
    BY DEF Ask
  <1>2. Prompted \in Message /\ Prompted.kind = "prompt" /\ Prompted.batch = 0
    <2>1. Len(Batches) \in Nat
      BY PublicationAssumption
    <2> QED  BY <2>1 DEF Prompted, Message, Answers
  <1>3. /\ file \in Sessions /\ messages \in Talks /\ NextBatch \in Nat
    BY Typed DEF IInv
  <1>4. /\ file' \in Sessions /\ leaf' \in 0..Len(file')
        /\ \A c : Projected(c)' = Projected(c)
        /\ NextBatch' = NextBatch
        /\ BatchesBelow(file', NextBatch)
    <2>1. TypeOK /\ BatchesBelow(file, NextBatch)
      BY Conjuncts
    <2>2. "prompt" \in {"prompt", "assistant", "result", "child"} /\ "prompt" # "assistant"
      OBVIOUS
    <2> QED  BY <1>1, <1>2, <2>1, <2>2, PlainEntry
  <1>5. /\ messages' \in Talks /\ Single(messages') /\ BatchesBelow(messages', NextBatch)
    <2>1. t \in Talks /\ BatchesBelow(t, NextBatch)
      BY <1>2, <1>3, Conjuncts, Spoken
    <2> HIDE DEF t
    <2>2. u \in Talks /\ Single(u) /\ BatchesBelow(u, NextBatch)
      BY <2>1, Deduplicated
    <2> HIDE DEF u
    <2>3. messages' \in Talks /\ Paired(messages') /\ BatchesBelow(messages', NextBatch)
      BY <1>1, <2>2, Withheld
    <2> QED  BY <2>3 DEF Paired, Single
  <1> HIDE DEF u
  <1>6. TypeOK'
    BY <1>1, <1>4, <1>5 DEF IInv, TypeOK, Replaying, Sessions, Talks
  <1>7. (SessionIsSound /\ ProjectedOnce /\ AcknowledgedIsInSession /\ ChildrenFirst)'
    BY <1>1, <1>4, <1>5, Conjuncts, RowsFrame
  <1>8. OutboxIsSound'
    BY <1>1, <1>3, <1>4, Conjuncts, OutboxFrame
  <1>9. queue = <<>> /\ todo = <<>> /\ \A c \in Calls : got[c] # "running"
    BY <1>1, Conjuncts, PhaseHands, NobodyRuns DEF Replaying
  <1>10. HandIsSound' /\ RowsAreInOrder'
    BY <1>1, <1>9, HandsEmpty, NoRows
  <1>11. TalkIsSound'
    BY <1>1, <1>5 DEF TalkIsSound
  <1> QED  BY <1>6, <1>7, <1>8, <1>10, <1>11 DEF IInv

(* A window of the outbox is read, or there is none any more.              *)
LEMMA ReadOutboxSound ==
  ASSUME IInv, ReadOutbox
  PROVE  IInv'
  <1> USE DEF journal, session, turn
  <1>1. /\ phase \in Replaying /\ todo = <<>>
        /\ UNCHANGED <<effect, outbox, acked, file, leaf, queue, got, prompts, fresh>>
        /\ \/ /\ PendingRows # <<>>
              /\ todo' = PendingRows
              /\ UNCHANGED <<messages, phase>>
           \/ /\ PendingRows = <<>>
              /\ messages' = IF phase = "replaying" THEN Withhold(messages) ELSE messages
              /\ phase' = CASE phase = "closing" -> "closed"
                            [] phase = "reconciling" -> "reconciled"
                            [] OTHER -> IF Unresolved(messages') = {}
                                        THEN "provider" ELSE "reconciling"
              /\ UNCHANGED todo
    BY DEF ReadOutbox
  <1>2. /\ PendingRows \in Seq(Calls)
        /\ PendingRows = <<>> => Pending = <<>>
        /\ Distinct(PendingRows)
        /\ Elements(PendingRows) \subseteq Elements(outbox) \ acked
        /\ \A c \in Elements(outbox) \ acked : Parent[c] \in Elements(PendingRows) =>
             Precedes(PendingRows, c, Parent[c])
    BY Conjuncts, RowsRead
  <1>3. /\ NextBatch' = NextBatch /\ \A c : Projected(c)' = Projected(c)
        /\ NextBatch \in Nat /\ messages \in Talks /\ BatchesBelow(messages, NextBatch)
        /\ BatchesBelow(file, NextBatch)
    BY <1>1, SameFile, Typed, Conjuncts
  <1>4. OutboxIsSound'
    BY <1>1, <1>3, Conjuncts, OutboxFrame
  <1>5. queue = <<>> /\ \A c \in Calls : got[c] # "running"
    BY <1>1, Conjuncts, PhaseHands, NobodyRuns DEF Replaying
  <1>6. CASE /\ PendingRows # <<>>
             /\ todo' = PendingRows
             /\ UNCHANGED <<messages, phase>>
    <2>1. TypeOK'
      BY <1>1, <1>2, <1>6 DEF IInv, TypeOK
    <2>2. (SessionIsSound /\ ProjectedOnce /\ AcknowledgedIsInSession /\ ChildrenFirst)'
      BY <1>1, <1>3, <1>6, Conjuncts, RowsFrame
    <2>3. HandIsSound'
      BY <1>1, <1>3, <1>6, Conjuncts, SameHand
    <2>4. RowsAreInOrder'
      <3>1. ASSUME NEW c \in Elements(outbox), Parent[c] \in Elements(PendingRows)
            PROVE  Projected(c) # {} \/ Precedes(PendingRows, c, Parent[c])
        BY <1>2, <3>1, Conjuncts DEF AcknowledgedIsInSession
      <3> QED  BY <1>1, <1>2, <1>3, <1>6, <3>1 DEF RowsAreInOrder
    <2>5. TalkIsSound'
      <3>1. phase # "reconciling" \/ Pending = <<>>
        BY Conjuncts DEF TalkIsSound
      <3>2. phase # "reconciling"
        <4>1. Pending = <<>> => PendingRows = <<>>
          <5>1. Len(<<>>) = 0 /\ 0 <= Window
            BY PublicationAssumption
          <5> QED  BY <5>1 DEF PendingRows
        <4> QED  BY <1>6, <3>1, <4>1
      <3> QED  BY <1>1, <1>6, <3>2, Conjuncts DEF TalkIsSound, Replaying
    <2> QED  BY <1>4, <2>1, <2>2, <2>3, <2>4, <2>5 DEF IInv
  <1>7. CASE /\ PendingRows = <<>>
             /\ messages' = IF phase = "replaying" THEN Withhold(messages) ELSE messages
             /\ phase' = CASE phase = "closing" -> "closed"
                           [] phase = "reconciling" -> "reconciled"
                           [] OTHER -> IF Unresolved(messages') = {}
                                       THEN "provider" ELSE "reconciling"
             /\ UNCHANGED todo
    <2>1. messages' \in Talks /\ BatchesBelow(messages', NextBatch)
      BY <1>3, <1>7, Withheld
    <2>2. /\ phase = "closing" => phase' = "closed"
          /\ phase = "reconciling" => phase' = "reconciled"
          /\ phase = "replaying" => phase' = IF Unresolved(messages') = {}
                                             THEN "provider" ELSE "reconciling"
      BY <1>7
    <2>3. phase' \in {"closed", "reconciled", "provider", "reconciling"}
      BY <1>1, <2>2 DEF Replaying
    <2>4. TypeOK'
      BY <1>1, <1>7, <2>1, <2>3 DEF IInv, TypeOK, Replaying, Talks
    <2>5. (SessionIsSound /\ ProjectedOnce /\ AcknowledgedIsInSession /\ ChildrenFirst)'
      BY <1>1, <1>3, <2>1, Conjuncts, RowsFrame
    <2>6. HandIsSound' /\ RowsAreInOrder'
      BY <1>1, <1>5, <1>7, <2>3, HandsEmpty, NoRows
    <2>7. TalkIsSound'
      <3>1. Pending' = Pending /\ Pending = <<>>
        BY <1>1, <1>2, <1>7 DEF Pending
      <3>2. CASE phase = "closing"
        BY <2>2, <3>2 DEF TalkIsSound
      <3>3. CASE phase = "reconciling"
        <4>1. Paired(messages)
          BY <3>3, Conjuncts DEF TalkIsSound
        <4>2. messages' = messages
          BY <1>7, <3>3
        <4> QED  BY <2>2, <3>3, <4>1, <4>2 DEF TalkIsSound
      <3>4. CASE phase = "replaying"
        <4>1. Single(messages)
          BY <3>4, Conjuncts DEF TalkIsSound
        <4>2. messages' = Withhold(messages)
          BY <1>7, <3>4
        <4>3. Paired(messages')
          BY <1>3, <4>1, <4>2, Withheld
        <4>4. Unresolved(messages)' = Unresolved(messages')
          BY DEF Unresolved, IssuedIn, AnsweredIn, IssuedBefore, AnsweredBefore, CallsOf
        <4> QED  BY <1>1, <1>7, <2>2, <3>1, <3>4, <4>3, <4>4 DEF TalkIsSound
      <3> QED  BY <1>1, <3>2, <3>3, <3>4 DEF Replaying
    <2> QED  BY <1>4, <2>4, <2>5, <2>6, <2>7 DEF IInv
  <1> QED  BY <1>1, <1>6, <1>7

(* A call without a result is answered, or there is none any more.         *)
LEMMA RepairSound ==
  ASSUME IInv, Repair
  PROVE  IInv'
  <1> USE DEF journal, session, turn
  <1> DEFINE assistants == {i \in 1..Len(messages) : messages[i].kind = "assistant"}
             open == {i \in assistants : Elements(CallsOf(messages[i])) \cap Unresolved(messages) # {}}
             c(i) == Head(Keep(CallsOf(messages[i]), Unresolved(messages)))
             ends(i) == {j \in i + 1..Len(messages) : messages[j].kind # "result"}
             at(i) == IF ends(i) = {} THEN Len(messages) + 1
                      ELSE CHOOSE j \in ends(i) : \A k \in ends(i) : j <= k
             m(i) == Result(c(i), RepairAnswer(c(i)))
             durable(i) == at(i) = Len(messages) + 1 /\ \A j \in assistants : j <= i
  <1>1. /\ phase \in {"closed", "reconciled"}
        /\ UNCHANGED <<effect, outbox, acked, queue, got, prompts, todo, fresh>>
    BY DEF Repair
  <1>2. \/ \E i \in open : /\ messages' = InsertAt(messages, at(i), m(i))
                           /\ IF durable(i) THEN AppendEntry(m(i), "result", FALSE)
                              ELSE UNCHANGED <<file, leaf>>
                           /\ phase' = phase
        \/ /\ Unresolved(messages) = {}
           /\ phase' = IF phase = "closed" THEN "asking" ELSE "provider"
           /\ UNCHANGED <<file, leaf, messages>>
    BY DEF Repair
  <1>3. /\ file \in Sessions /\ leaf \in 0..Len(file) /\ messages \in Talks
        /\ NextBatch \in Nat /\ BatchesBelow(messages, NextBatch) /\ BatchesBelow(file, NextBatch)
    BY Typed, Conjuncts
  <1>4. queue = <<>> /\ todo = <<>> /\ \A d \in Calls : got[d] # "running"
    BY <1>1, Conjuncts, PhaseHands, NobodyRuns DEF Replaying
  <1>5. CASE \E i \in open : /\ messages' = InsertAt(messages, at(i), m(i))
                             /\ IF durable(i) THEN AppendEntry(m(i), "result", FALSE)
                                ELSE UNCHANGED <<file, leaf>>
                             /\ phase' = phase
    <2>1. PICK i \in open : /\ messages' = InsertAt(messages, at(i), m(i))
                            /\ IF durable(i) THEN AppendEntry(m(i), "result", FALSE)
                               ELSE UNCHANGED <<file, leaf>>
                            /\ phase' = phase
      BY <1>5
    <2>2. /\ i \in 1..Len(messages) /\ Len(messages) \in Nat
          /\ Elements(CallsOf(messages[i])) \cap Unresolved(messages) # {}
      BY <1>3 DEF Talks
    <2>3. CallsOf(messages[i]) \in Seq(Calls)
      <3>1. messages[i] \in Message
        BY <1>3, <2>2, ElementOfSeq DEF Talks
      <3>2. messages[i].batch \in 0..Len(Batches)
        BY <3>1 DEF Message
      <3> QED  BY <3>2, CallsTyped
    <2>4. c(i) \in Calls /\ c(i) \in Elements(CallsOf(messages[i])) /\ c(i) \in Unresolved(messages)
      <3> DEFINE K == Keep(CallsOf(messages[i]), Unresolved(messages))
      <3>1. K \in Seq(Calls)
            /\ Elements(K) = Elements(CallsOf(messages[i])) \cap Unresolved(messages)
        BY <2>3, KeepSifts, KeepElements
      <3> HIDE DEF K
      <3>2. K # <<>>
        BY <2>2, <3>1, EmptyQueue
      <3>3. Head(K) \in Calls /\ Head(K) \in Elements(K)
        BY <3>1, <3>2, TakenQueue
      <3> QED  BY <3>1, <3>3 DEF K
    <2>5. RepairAnswer(c(i)) \in Answers
      BY DEF RepairAnswer, Answers
    <2>6. at(i) \in (i + 1)..(Len(messages) + 1)
      <3> DEFINE E == ends(i)
      <3>1. E \subseteq (i + 1)..Len(messages)
        OBVIOUS
      <3>2. CASE E = {}
        BY <2>2, <3>2
      <3>3. CASE E # {}
        <4>1. E \in SUBSET Nat
          BY <2>2, <3>1
        <4>2. at(i) = CHOOSE j \in E : \A k \in E : j <= k
          BY <3>3
        <4> HIDE DEF E, at
        <4>3. \E j \in E : \A k \in E : j <= k
          BY <3>3, <4>1, LeastNumber
        <4>4. at(i) \in E
          BY <4>2, <4>3
        <4>5. at(i) \in (i + 1)..Len(messages)
          BY <3>1, <4>4
        <4>6. (i + 1)..Len(messages) \subseteq (i + 1)..(Len(messages) + 1)
          BY <2>2
        <4> QED  BY <4>5, <4>6
      <3> QED  BY <3>2, <3>3
    <2> HIDE DEF open, c, at, m, durable
    <2>7. m(i) \in Message /\ m(i) = Result(c(i), RepairAnswer(c(i)))
      BY <2>4, <2>5, ResultTyped DEF m
    <2>8. /\ messages' \in Talks
          /\ Paired(messages) => Paired(messages')
          /\ BatchesBelow(messages', NextBatch)
      BY <1>3, <2>1, <2>2, <2>4, <2>5, <2>6, <2>7, SortedIn
    <2>9. /\ file' \in Sessions /\ leaf' \in 0..Len(file')
          /\ \A d : Projected(d)' = Projected(d)
          /\ NextBatch' = NextBatch
          /\ BatchesBelow(file', NextBatch)
      <3>1. CASE durable(i)
        <4>1. AppendEntry(m(i), "result", FALSE)
          BY <2>1, <3>1
        <4>2. "result" \in {"prompt", "assistant", "result", "child"} /\ "result" # "assistant"
          OBVIOUS
        <4>3. TypeOK
          BY Conjuncts
        <4> QED  BY <1>3, <2>7, <4>1, <4>2, <4>3, PlainEntry
      <3>2. CASE ~durable(i)
        <4>1. file' = file /\ leaf' = leaf
          BY <2>1, <3>2
        <4> QED  BY <1>3, <4>1, SameFile
      <3> QED  BY <3>1, <3>2
    <2>10. TypeOK'
      BY <1>1, <2>1, <2>8, <2>9 DEF IInv, TypeOK, Sessions, Talks
    <2>11. (SessionIsSound /\ ProjectedOnce /\ AcknowledgedIsInSession /\ ChildrenFirst)'
      BY <1>1, <2>8, <2>9, Conjuncts, RowsFrame
    <2>12. OutboxIsSound'
      BY <1>1, <1>3, <2>9, Conjuncts, OutboxFrame
    <2>13. HandIsSound' /\ RowsAreInOrder'
      BY <1>1, <1>4, <2>1, HandsEmpty, NoRows
    <2>14. TalkIsSound'
      <3>1. phase = "reconciled" => Paired(messages)
        BY Conjuncts DEF TalkIsSound
      <3> QED  BY <1>1, <2>1, <2>8, <3>1 DEF TalkIsSound
    <2> QED  BY <2>10, <2>11, <2>12, <2>13, <2>14 DEF IInv
  <1>6. CASE /\ Unresolved(messages) = {}
             /\ phase' = IF phase = "closed" THEN "asking" ELSE "provider"
             /\ UNCHANGED <<file, leaf, messages>>
    <2>1. NextBatch' = NextBatch /\ \A d : Projected(d)' = Projected(d)
      BY <1>6, SameFile
    <2>2. phase' \in {"asking", "provider"}
      BY <1>6
    <2>3. TypeOK'
      BY <1>1, <1>6, <2>2 DEF IInv, TypeOK, Replaying
    <2>4. (SessionIsSound /\ ProjectedOnce /\ AcknowledgedIsInSession /\ ChildrenFirst)'
      BY <1>1, <1>3, <1>6, <2>1, Conjuncts, RowsFrame
    <2>5. OutboxIsSound'
      BY <1>1, <1>3, <2>1, Conjuncts, OutboxFrame
    <2>6. HandIsSound' /\ RowsAreInOrder'
      BY <1>1, <1>4, <2>2, HandsEmpty, NoRows
    <2>7. TalkIsSound'
      <3>1. phase = "reconciled" => Paired(messages)
        BY Conjuncts DEF TalkIsSound
      <3>2. Unresolved(messages)' = {}
        BY <1>6 DEF Unresolved, IssuedIn, AnsweredIn, IssuedBefore, AnsweredBefore, CallsOf
      <3> QED  BY <1>1, <1>6, <3>1, <3>2 DEF TalkIsSound
    <2> QED  BY <2>3, <2>4, <2>5, <2>6, <2>7 DEF IInv
  <1> QED  BY <1>2, <1>5, <1>6

(* A row becomes an entry of the session.                                  *)
LEMMA AppendProjectionSound ==
  ASSUME IInv, AppendProjection
  PROVE  IInv'
  <1> USE DEF journal, turn
  <1>0. PICK c : c = Head(todo)
    OBVIOUS
  <1> DEFINE L == Len(file)
             kind == IF Parent[c] = NoCall THEN "result" ELSE "child"
             m == Result(c, "actual")
  <1>1. /\ phase \in Replaying \cup {"projecting"} /\ todo # <<>> /\ Projected(c) = {}
        /\ AppendEntry(m, kind, TRUE)
        /\ fresh' = c
        /\ UNCHANGED <<effect, outbox, acked, messages, phase, queue, got, prompts, todo>>
    BY <1>0 DEF AppendProjection, Projecting, Unprojected
  <1>2. /\ file \in Sessions /\ L \in Nat /\ messages \in Talks /\ NextBatch \in Nat
        /\ \A d : Projected(d) \subseteq 1..L
        /\ BatchesBelow(messages, NextBatch) /\ BatchesBelow(file, NextBatch)
    BY Typed, Conjuncts
  <1>3. todo \in Seq(Calls) /\ Distinct(todo) /\ Elements(todo) \subseteq Elements(outbox)
    BY DEF IInv, TypeOK, RowsAreInOrder
  <1>4. c \in Calls /\ c \in Elements(outbox)
    BY <1>0, <1>1, <1>3, TakenQueue
  <1>5. m \in Message /\ m.call = c
    <2>1. "actual" \in Answers
      BY DEF Answers
    <2> QED  BY <1>4, <2>1, ResultTyped
  <1> HIDE DEF m, L
  <1>6. /\ kind \in {"prompt", "assistant", "result", "child"} /\ kind # "assistant"
        /\ TRUE \in BOOLEAN
    OBVIOUS
  <1> HIDE DEF kind
  <1>7. /\ file' \in Sessions /\ leaf' \in 0..Len(file')
        /\ \A d : Projected(d)' = Projected(d) \cup {i \in {L + 1} : TRUE /\ m.call = d}
        /\ NextBatch' = IF kind = "assistant" /\ m.batch > 0 THEN NextBatch + 1 ELSE NextBatch
        /\ \A n : BatchesBelow(file, n) /\ (kind = "assistant" => m.batch < n) =>
                    BatchesBelow(file', n)
    <2>1. TypeOK
      BY Conjuncts
    <2> QED  BY <1>1, <1>5, <1>6, <2>1, EntryAppended DEF L
  <1>8. NextBatch' = NextBatch /\ BatchesBelow(file', NextBatch)
    BY <1>2, <1>6, <1>7
  <1>9. Projected(c)' = {L + 1} /\ \A d \in Calls : d # c => Projected(d)' = Projected(d)
    BY <1>1, <1>5, <1>7
  <1>10. \A d \in Calls : Projected(d) \subseteq Projected(d)'
    BY <1>7
  <1>11. TypeOK'
    BY <1>1, <1>4, <1>7 DEF IInv, TypeOK, Sessions
  <1>12. SessionIsSound'
    <2>1. ASSUME NEW d \in Calls, Projected(d)' # {}  PROVE d \in Elements(outbox)
      BY <1>4, <1>9, <2>1, Conjuncts DEF SessionIsSound
    <2> QED  BY <1>1, <1>2, <1>8, <2>1 DEF SessionIsSound
  <1>13. OutboxIsSound'
    BY <1>1, <1>2, <1>8, Conjuncts, OutboxFrame
  <1>14. HandIsSound' /\ RowsAreInOrder' /\ TalkIsSound'
    <2>1. \A d \in Elements(outbox) : Projected(d) \subseteq Projected(d)'
      BY <1>10, Conjuncts
    <2> QED  BY <1>1, <1>8, <2>1, Conjuncts, SameHand, SameRows, SameTalk
  <1>15. ProjectedOnce'
    <2>1. ASSUME NEW d \in Calls  PROVE Cardinality(Projected(d)') <= 1
      <3>1. CASE d = c
        <4>1. Cardinality({L + 1}) = 1
          BY FS_Singleton
        <4> QED  BY <1>9, <3>1, <4>1
      <3>2. CASE d # c
        BY <1>9, <3>2, Conjuncts DEF ProjectedOnce
      <3> QED  BY <3>1, <3>2
    <2> QED  BY <2>1 DEF ProjectedOnce
  <1>16. AcknowledgedIsInSession'
    BY <1>1, <1>10, Conjuncts DEF AcknowledgedIsInSession
  <1>17. ChildrenFirst'
    <2> SUFFICES ASSUME NEW d \in Elements(outbox), Parent[d] # NoCall,
                        Projected(Parent[d])' # {}
                 PROVE  \E i \in Projected(d)' : \A j \in Projected(Parent[d])' : i < j
      BY <1>1 DEF ChildrenFirst
    <2>1. d \in Calls /\ Parent[d] \in Calls
      BY Conjuncts
    <2>2. CASE Parent[d] = c
      <3>1. Parent[d] \in Elements(todo)
        BY <1>0, <1>1, <1>3, <2>2, TakenQueue
      <3>2. Projected(d) # {} \/ Precedes(todo, d, Parent[d])
        BY <3>1, Conjuncts DEF RowsAreInOrder
      <3>3. ~Precedes(todo, d, Parent[d])
        BY <1>0, <1>1, <1>3, <2>2, FirstInLine
      <3>4. PICK i \in Projected(d) : i \in 1..L
        BY <1>2, <3>2, <3>3
      <3>5. i \in Projected(d)' /\ i < L + 1
        BY <1>2, <1>10, <2>1, <3>4
      <3> QED  BY <1>9, <2>2, <3>5
    <2>3. CASE Parent[d] # c
      <3>1. Projected(Parent[d])' = Projected(Parent[d])
        BY <1>9, <2>1, <2>3
      <3>2. PICK i \in Projected(d) : \A j \in Projected(Parent[d]) : i < j
        BY <3>1, Conjuncts DEF ChildrenFirst
      <3> QED  BY <1>10, <2>1, <3>1, <3>2
    <2> QED  BY <2>2, <2>3
  <1> QED  BY <1>11, <1>12, <1>13, <1>14, <1>15, <1>16, <1>17 DEF IInv

(* The entry of a row is there, and the row acknowledged.                  *)
LEMMA AcknowledgeSound ==
  ASSUME IInv, Acknowledge
  PROVE  IInv'
  <1> USE DEF journal, session, turn
  <1> DEFINE c == Head(todo)
             joins == /\ phase \in Replaying /\ fresh = c /\ Parent[c] = NoCall
                      /\ c \notin AnsweredIn(messages)
             last == phase = "projecting" /\ Len(todo) = 1
  <1>1. /\ phase \in Replaying \cup {"projecting"} /\ todo # <<>> /\ Projected(c) # {}
        /\ acked' = acked \cup {c}
        /\ messages' = IF joins THEN Append(messages, Result(c, "actual")) ELSE messages
        /\ todo' = Tail(todo) /\ fresh' = NoCall
        /\ last => phase' = "tools" /\ queue' = Tail(queue)
        /\ ~last => UNCHANGED <<phase, queue>>
        /\ UNCHANGED <<effect, outbox, file, leaf, got, prompts>>
    BY DEF Acknowledge, Projecting, OnLineage, Join, Advance
  <1>2. /\ NextBatch' = NextBatch /\ \A d : Projected(d)' = Projected(d)
        /\ NextBatch \in Nat /\ messages \in Talks /\ BatchesBelow(messages, NextBatch)
        /\ BatchesBelow(file, NextBatch)
    BY <1>1, SameFile, Typed, Conjuncts
  <1>3. todo \in Seq(Calls) /\ Distinct(todo) /\ Elements(todo) \subseteq Elements(outbox)
    BY DEF IInv, TypeOK, RowsAreInOrder
  <1>4. /\ c \in Calls /\ Tail(todo) \in Seq(Calls) /\ Distinct(Tail(todo))
        /\ Elements(todo) = {c} \cup Elements(Tail(todo))
    BY <1>1, <1>3, TakenQueue
  <1>5. queue \in Seq(Calls) /\ (phase = "projecting" => queue # <<>> /\ Distinct(queue))
    BY Conjuncts DEF TypeOK, HandIsSound
  <1>6. phase = "projecting" =>
          /\ Tail(queue) \in Seq(Calls) /\ Distinct(Tail(queue))
          /\ Elements(Tail(queue)) \subseteq Elements(queue)
    BY <1>5, TakenQueue
  <1>7. /\ messages' \in Talks /\ BatchesBelow(messages', NextBatch)
        /\ Single(messages) => Single(messages')
    <2>1. CASE joins
      <3> DEFINE m == Result(c, "actual")
      <3>1. "actual" \in Answers
        BY DEF Answers
      <3>2. m \in Message /\ m.kind = "result" /\ m.call = c
        BY <1>4, <3>1, ResultTyped
      <3>3. messages' = Append(messages, m) /\ c \notin AnsweredIn(messages)
        BY <1>1, <2>1
      <3> HIDE DEF m, c
      <3> QED  BY <1>2, <3>2, <3>3, Spoken
    <2>2. CASE ~joins
      <3>1. messages' = messages
        BY <1>1, <2>2
      <3> QED  BY <1>2, <3>1
    <2> QED  BY <2>1, <2>2
  <1>8. TypeOK'
    <2>1. acked' \subseteq Elements(outbox')
      BY <1>1, <1>3, <1>4 DEF IInv, TypeOK
    <2>2. queue' \in Seq(Calls) /\ phase' \in {phase, "tools"}
      BY <1>1, <1>5, <1>6
    <2> HIDE DEF c, joins, last
    <2> QED  BY <1>1, <1>4, <1>7, <2>1, <2>2 DEF IInv, TypeOK, Talks
  <1>9. SessionIsSound' /\ ProjectedOnce' /\ ChildrenFirst'
    <2>1. SessionIsSound'
      BY <1>1, <1>2, <1>7, Conjuncts DEF SessionIsSound
    <2>2. ProjectedOnce'
      BY <1>2, Conjuncts DEF ProjectedOnce
    <2>3. ChildrenFirst'
      BY <1>1, <1>2, Conjuncts DEF ChildrenFirst
    <2> QED  BY <2>1, <2>2, <2>3
  <1>10. AcknowledgedIsInSession'
    BY <1>1, <1>2, Conjuncts DEF AcknowledgedIsInSession
  <1>11. OutboxIsSound'
    BY <1>1, <1>2, Conjuncts, OutboxFrame
  <1>12. HandIsSound'
    <2>1. CASE last
      <3>1. \A d \in Calls : got[d] # "running"
        BY <2>1, Conjuncts, NobodyRuns
      <3>2. HandIsSound
        BY Conjuncts
      <3>3. phase = "projecting" /\ phase' = "tools" /\ queue' = Tail(queue)
        BY <1>1, <2>1
      <3> HIDE DEF c, joins, last
      <3> QED  BY <1>1, <1>2, <1>6, <3>1, <3>2, <3>3 DEF HandIsSound
    <2>2. CASE ~last
      BY <1>1, <1>2, <2>2, Conjuncts, SameHand
    <2> QED  BY <2>1, <2>2
  <1>13. RowsAreInOrder'
    <2>1. todo' # <<>> => phase' = phase
      <3>1. CASE last
        <4>1. Len(todo) = 1
          BY <3>1
        <4>2. Len(Tail(todo)) = 0
          BY <1>1, <1>3, <4>1, HeadTailProperties
        <4>3. Tail(todo) = <<>>
          BY <1>4, <4>2, EmptySeq
        <4> QED  BY <1>1, <4>3
      <3>2. CASE ~last
        BY <1>1, <3>2
      <3> QED  BY <3>1, <3>2
    <2>2. ASSUME NEW d \in Elements(outbox), Parent[d] \in Elements(Tail(todo))
          PROVE  Projected(d) # {} \/ Precedes(Tail(todo), d, Parent[d])
      <3>1. Projected(d) # {} \/ Precedes(todo, d, Parent[d])
        BY <1>4, <2>2, Conjuncts DEF RowsAreInOrder
      <3>2. Precedes(todo, d, Parent[d]) => d = c \/ Precedes(Tail(todo), d, Parent[d])
        BY <1>1, <1>3, TakenLine
      <3> QED  BY <1>1, <3>1, <3>2
    <2> HIDE DEF c, joins, last
    <2> QED  BY <1>1, <1>2, <1>3, <1>4, <2>1, <2>2 DEF RowsAreInOrder
  <1>14. TalkIsSound'
    <2>1. CASE phase = "projecting"
      <3>1. messages' = messages
        BY <1>1, <2>1 DEF Replaying
      <3>2. Paired(messages) /\ Unresolved(messages) = Elements(Tail(queue))
        BY <2>1, Conjuncts DEF TalkIsSound
      <3>3. Unresolved(messages)' = Unresolved(messages)
        BY <3>1 DEF Unresolved, IssuedIn, AnsweredIn, IssuedBefore, AnsweredBefore, CallsOf
      <3>4. \/ phase' = "tools" /\ queue' = Tail(queue)
            \/ phase' = "projecting" /\ queue' = queue
        BY <1>1, <2>1
      <3> HIDE DEF c, joins, last
      <3> QED  BY <3>1, <3>2, <3>3, <3>4 DEF TalkIsSound
    <2>2. CASE phase \in Replaying
      <3>1. phase' = phase
        BY <1>1, <2>2 DEF Replaying
      <3>2. phase # "reconciling"
        BY <1>1, Conjuncts DEF TalkIsSound
      <3>3. phase = "replaying" => Single(messages)
        BY Conjuncts DEF TalkIsSound
      <3> QED  BY <1>7, <2>2, <3>1, <3>2, <3>3 DEF TalkIsSound, Replaying
    <2> QED  BY <1>1, <2>1, <2>2
  <1> QED  BY <1>8, <1>9, <1>10, <1>11, <1>12, <1>13, <1>14 DEF IInv

(* The turn or the replay ends with an error.                              *)
LEMMA GiveUpSound ==
  ASSUME IInv, NEW s \in Talks, BatchesBelow(s, NextBatch), GiveUp(s),
         UNCHANGED <<effect, outbox, acked, file, leaf, prompts>>
  PROVE  IInv'
  <1>1. /\ phase' \in {"asking", "idle"}
        /\ messages' = IF phase \in Replaying THEN s ELSE Stopped(s)
        /\ todo' = <<>> /\ fresh' = NoCall /\ queue' = <<>> /\ got' = NotStarted
    BY DEF GiveUp
  <1>2. messages' \in Talks /\ BatchesBelow(messages', NextBatch)
    <2>1. Stopped(s) \in Talks /\ BatchesBelow(Stopped(s), NextBatch)
      BY StoppedTalk
    <2> QED  BY <1>1, <2>1
  <1>3. /\ NextBatch' = NextBatch /\ \A c : Projected(c)' = Projected(c)
        /\ NextBatch \in Nat /\ BatchesBelow(file, NextBatch)
    BY SameFile, Typed, Conjuncts
  <1>4. TypeOK'
    <2>1. <<>> \in Seq(Calls) /\ NotStarted \in [Calls -> {"none", "running", "actual", "denied", "lost"}]
      BY DEF NotStarted
    <2> QED  BY <1>1, <1>2, <2>1 DEF IInv, TypeOK, Talks, Replaying
  <1>5. (SessionIsSound /\ ProjectedOnce /\ AcknowledgedIsInSession /\ ChildrenFirst)'
    BY <1>2, <1>3, Conjuncts, RowsFrame
  <1>6. OutboxIsSound'
    BY <1>3, Conjuncts, OutboxFrame
  <1>7. HandIsSound' /\ RowsAreInOrder'
    <2>1. \A c \in Calls : got'[c] # "running"
      BY <1>1 DEF NotStarted
    <2> QED  BY <1>1, <2>1, HandsEmpty, NoRows
  <1>8. TalkIsSound'
    BY <1>1 DEF TalkIsSound
  <1> QED  BY <1>4, <1>5, <1>6, <1>7, <1>8 DEF IInv

(* The next result, as the conversation gets it.                           *)
LEMMA SaidTyped ==
  ASSUME IInv, Deliverable, queue # <<>>
  PROVE  /\ got[Head(queue)] \in {"actual", "denied", "lost"} /\ Head(queue) \in Calls
         /\ Head(queue) \in Elements(queue) /\ Parent[Head(queue)] = NoCall
         /\ Tail(queue) \in Seq(Calls) /\ Distinct(Tail(queue))
         /\ Elements(Tail(queue)) \subseteq Elements(queue)
         /\ Result(Head(queue), got[Head(queue)]) \in Message
         /\ Said \in Talks /\ BatchesBelow(Said, NextBatch) /\ Paired(Said)
         /\ Unresolved(Said) = Elements(Tail(queue))
  <1> DEFINE c == Head(queue)
             m == Result(c, got[c])
  <1>1. /\ phase = "tools" /\ queue \in Seq(Calls) /\ Distinct(queue)
        /\ NextBatch - 1 \in DOMAIN Batches
        /\ Elements(queue) \subseteq Elements(Batches[NextBatch - 1])
        /\ \A d \in Elements(queue) : got[d] \notin {"none", "running"}
        /\ Paired(messages) /\ Unresolved(messages) = Elements(queue)
    BY DEF Deliverable, IInv, TypeOK, HandIsSound, TalkIsSound
  <1>2. /\ c \in Calls /\ Tail(queue) \in Seq(Calls) /\ Distinct(Tail(queue))
        /\ Elements(queue) = {c} \cup Elements(Tail(queue)) /\ c \notin Elements(Tail(queue))
    BY <1>1, TakenQueue
  <1>3. Parent[c] = NoCall
    BY <1>1, <1>2, BatchesAreApart
  <1>4. got[c] \in {"actual", "denied", "lost"}
    BY <1>1, <1>2 DEF IInv, TypeOK
  <1>5. m \in Message /\ m.kind = "result" /\ m.call = c /\ CallsOf(m) = <<>>
    <2>1. got[c] \in Answers
      BY <1>4 DEF Answers
    <2> QED  BY <1>2, <2>1, ResultTyped
  <1>6. messages \in Talks /\ BatchesBelow(messages, NextBatch)
    BY Typed, Conjuncts
  <1>7. Said = Append(messages, m)
    BY DEF Said
  <1>8. c \in Unresolved(messages)
    BY <1>1, <1>2
  <1> HIDE DEF c, m
  <1>9. /\ Said \in Talks /\ BatchesBelow(Said, NextBatch) /\ Paired(Said)
        /\ IssuedIn(Said) = IssuedIn(messages) \cup Elements(CallsOf(m))
        /\ AnsweredIn(Said) = AnsweredIn(messages) \cup {d \in {m.call} : m.kind = "result"}
    BY <1>1, <1>5, <1>6, <1>7, <1>8, Spoken
  <1>10. Unresolved(Said) = Elements(Tail(queue))
    <2>1. IssuedIn(Said) = IssuedIn(messages) /\ AnsweredIn(Said) = AnsweredIn(messages) \cup {c}
      BY <1>5, <1>9, EmptyQueue
    <2>2. IssuedIn(messages) \ AnsweredIn(messages) = {c} \cup Elements(Tail(queue))
      BY <1>1, <1>2 DEF Unresolved
    <2> QED  BY <1>2, <2>1, <2>2 DEF Unresolved
  <1> QED  BY <1>2, <1>3, <1>4, <1>5, <1>9, <1>10 DEF c, m

(* An entry of the event is on another branch.                             *)
LEMMA RejectProjectionSound ==
  ASSUME IInv, RejectProjection
  PROVE  IInv'
  <1>1. messages \in Talks /\ BatchesBelow(messages, NextBatch)
    BY Typed, Conjuncts
  <1> QED  BY <1>1, GiveUpSound DEF RejectProjection, journal, session

(* The journal refuses.                                                    *)
LEMMA JournalRefusesSound ==
  ASSUME IInv, JournalRefuses
  PROVE  IInv'
  <1>1. messages \in Talks /\ BatchesBelow(messages, NextBatch)
    BY Typed, Conjuncts
  <1>2. UNCHANGED <<effect, outbox, acked, file, leaf, prompts>>
    BY DEF JournalRefuses, journal, session
  <1>3. CASE GiveUp(messages)
    BY <1>1, <1>2, <1>3, GiveUpSound
  <1>4. CASE Deliverable /\ queue # <<>> /\ GiveUp(Said)
    BY <1>2, <1>4, SaidTyped, GiveUpSound
  <1> QED  BY <1>3, <1>4 DEF JournalRefuses

(* The provider answers, with calls or without.                            *)
LEMMA RespondSound ==
  ASSUME IInv, Respond
  PROVE  IInv'
  <1> USE DEF journal
  <1>0. PICK n : n = NextBatch
    OBVIOUS
  <1>1. /\ phase = "provider" /\ got' = NotStarted
        /\ UNCHANGED <<effect, outbox, acked, todo, fresh, prompts>>
        /\ \/ /\ n <= Len(Batches)
              /\ AppendEntry(Reply(n), "assistant", FALSE)
              /\ messages' = Append(messages, Reply(n))
              /\ phase' = "tools"
              /\ queue' = Batches[n]
           \/ /\ AppendEntry(Reply(0), "assistant", FALSE)
              /\ messages' = Append(messages, Reply(0))
              /\ phase' = "idle"
              /\ UNCHANGED queue
    BY <1>0 DEF Respond
  <1>2. /\ file \in Sessions /\ messages \in Talks /\ n \in Nat /\ n >= 1
        /\ BatchesBelow(messages, n) /\ BatchesBelow(file, n)
    BY <1>0, Typed, Conjuncts
  <1>3. \A k \in 0..Len(Batches) : Reply(k) \in Message /\ Reply(k).kind = "assistant"
                                   /\ Reply(k).batch = k
    BY DEF Reply, Message, Answers
  <1>4. Len(Batches) \in Nat
    BY PublicationAssumption
  <1>5. queue = <<>> /\ todo = <<>>
    BY <1>1, Conjuncts, PhaseHands DEF Replaying
  <1>6. \A c \in Calls : got'[c] = "none"
    BY <1>1 DEF NotStarted
  <1>7. /\ "assistant" \in {"prompt", "assistant", "result", "child"} /\ FALSE \in BOOLEAN
    OBVIOUS
  <1>8. Paired(messages) /\ Unresolved(messages) = {}
    BY <1>1, Conjuncts DEF TalkIsSound
  <1>9. got' \in [Calls -> {"none", "running", "actual", "denied", "lost"}]
    BY <1>1 DEF NotStarted
  <1>10. CASE /\ n <= Len(Batches)
              /\ AppendEntry(Reply(n), "assistant", FALSE)
              /\ messages' = Append(messages, Reply(n))
              /\ phase' = "tools"
              /\ queue' = Batches[n]
    <2> DEFINE m == Reply(n)
    <2>1. m \in Message /\ m.kind = "assistant" /\ m.batch = n /\ n \in DOMAIN Batches
      <3>1. n \in 0..Len(Batches) /\ n \in 1..Len(Batches)
        BY <1>2, <1>4, <1>10
      <3>2. DOMAIN Batches = 1..Len(Batches)
        BY PublicationAssumption
      <3> QED  BY <1>3, <3>1, <3>2
    <2> HIDE DEF m
    <2>2. /\ file' \in Sessions /\ leaf' \in 0..Len(file')
          /\ \A c : Projected(c)' = Projected(c) \cup {i \in {Len(file) + 1} : FALSE /\ m.call = c}
          /\ NextBatch' = IF "assistant" = "assistant" /\ m.batch > 0 THEN NextBatch + 1
                                                                     ELSE NextBatch
          /\ \A k : BatchesBelow(file, k) /\ ("assistant" = "assistant" => m.batch < k) =>
                      BatchesBelow(file', k)
      <3>1. TypeOK /\ AppendEntry(m, "assistant", FALSE)
        BY <1>10, Conjuncts DEF m
      <3> QED  BY <1>7, <2>1, <3>1, EntryAppended
    <2>3. NextBatch' = n + 1 /\ \A c : Projected(c)' = Projected(c)
      <3>1. m.batch > 0
        BY <1>2, <2>1
      <3>2. NextBatch' = NextBatch + 1
        BY <2>2, <3>1
      <3>3. \A c : Projected(c)' = Projected(c)
        BY <2>2
      <3> QED  BY <1>0, <3>2, <3>3
    <2>4. BatchesBelow(file', n + 1)
      <3>1. BatchesBelow(file, n + 1)
        <4>1. file \in Seq(Entry)
          BY <1>2 DEF Sessions
        <4>2. \A i \in 1..Len(file) : file[i] \in Entry
          BY <4>1, ElementOfSeq
        <4>3. \A i \in 1..Len(file) : file[i].batch \in Nat
          BY <1>4, <4>2 DEF Entry
        <4> QED  BY <1>2, <4>3 DEF BatchesBelow
      <3>2. m.batch < n + 1
        BY <1>2, <2>1
      <3> QED  BY <2>2, <3>1, <3>2
    <2>5. /\ messages' \in Talks /\ Paired(messages') /\ BatchesBelow(messages', n + 1)
          /\ IssuedIn(messages') = IssuedIn(messages) \cup Elements(CallsOf(m))
          /\ AnsweredIn(messages') = AnsweredIn(messages) \cup {c \in {m.call} : m.kind = "result"}
      <3>1. BatchesBelow(messages, n + 1)
        <4>1. \A i \in 1..Len(messages) : messages[i] \in Message
          BY <1>2, ElementOfSeq DEF Talks
        <4>2. \A i \in 1..Len(messages) : messages[i].batch \in Nat
          BY <1>4, <4>1 DEF Message
        <4> QED  BY <1>2, <4>2 DEF BatchesBelow
      <3>2. messages' = Append(messages, m) /\ m.batch < n + 1 /\ m.kind # "result"
        BY <1>2, <1>10, <2>1 DEF m
      <3> QED  BY <1>2, <1>8, <2>1, <3>1, <3>2, Spoken
    <2>6. /\ Batches[n] \in Seq(Calls) /\ Distinct(Batches[n])
          /\ \A c \in Elements(Batches[n]) : c \notin IssuedBelow(n)
      BY <2>1, BatchesAreApart
    <2>7. TypeOK'
      BY <1>1, <1>9, <1>10, <2>2, <2>5, <2>6 DEF IInv, TypeOK, Sessions, Talks
    <2>8. (SessionIsSound /\ ProjectedOnce /\ AcknowledgedIsInSession /\ ChildrenFirst)'
      <3>1. BatchesBelow(file', NextBatch') /\ BatchesBelow(messages', NextBatch')
        BY <2>3, <2>4, <2>5
      <3> QED  BY <1>1, <2>3, <3>1, Conjuncts, RowsFrame
    <2>9. OutboxIsSound'
      <3>1. NextBatch \in Nat /\ NextBatch' \in Nat /\ NextBatch <= NextBatch'
        BY <1>0, <1>2, <2>3
      <3> QED  BY <1>1, <3>1, Conjuncts, OutboxFrame
    <2>10. HandIsSound'
      <3>1. queue' = Batches[n] /\ phase' = "tools" /\ outbox' = outbox /\ NextBatch' - 1 = n
        BY <1>1, <1>2, <1>10, <2>3
      <3>2. \A c \in Calls : Root(c) \in Elements(Batches[n]) => c \notin Elements(outbox)
        BY <1>0, <2>6, Conjuncts DEF OutboxIsSound
      <3> QED  BY <1>6, <2>1, <2>6, <3>1, <3>2 DEF HandIsSound
    <2>11. RowsAreInOrder'
      BY <1>1, <1>5, NoRows
    <2>12. TalkIsSound'
      <3>1. CallsOf(m) = Batches[n]
        BY <1>2, <2>1 DEF CallsOf
      <3>2. AnsweredIn(messages') = AnsweredIn(messages)
        BY <2>1, <2>5
      <3>3. IssuedIn(messages) \subseteq AnsweredIn(messages)
        BY <1>8 DEF Unresolved
      <3>4. AnsweredIn(messages) \subseteq IssuedIn(messages)
        BY <1>2, <1>8, PairedTalk
      <3>5. IssuedIn(messages) \subseteq IssuedBelow(n)
        BY <1>2, IssuedTalk
      <3>6. Unresolved(messages') = Elements(Batches[n])
        BY <2>5, <2>6, <3>1, <3>2, <3>3, <3>4, <3>5 DEF Unresolved
      <3>7. Unresolved(messages)' = Unresolved(messages')
        BY DEF Unresolved, IssuedIn, AnsweredIn, IssuedBefore, AnsweredBefore, CallsOf
      <3> QED  BY <1>10, <2>5, <3>6, <3>7 DEF TalkIsSound
    <2> QED  BY <2>7, <2>8, <2>9, <2>10, <2>11, <2>12 DEF IInv
  <1>11. CASE /\ AppendEntry(Reply(0), "assistant", FALSE)
              /\ messages' = Append(messages, Reply(0))
              /\ phase' = "idle"
              /\ UNCHANGED queue
    <2> DEFINE m == Reply(0)
    <2>1. m \in Message /\ m.kind = "assistant" /\ m.batch = 0
      <3>1. 0 \in 0..Len(Batches)
        BY <1>4
      <3> QED  BY <1>3, <3>1
    <2> HIDE DEF m
    <2>2. /\ file' \in Sessions /\ leaf' \in 0..Len(file')
          /\ \A c : Projected(c)' = Projected(c)
          /\ NextBatch' = NextBatch /\ BatchesBelow(file', NextBatch)
      <3>1. TypeOK /\ AppendEntry(m, "assistant", FALSE) /\ BatchesBelow(file, NextBatch)
        BY <1>11, Conjuncts DEF m
      <3> QED  BY <1>7, <2>1, <3>1, PlainEntry
    <2>3. messages' \in Talks /\ BatchesBelow(messages', NextBatch)
      <3>1. messages' = Append(messages, m) /\ m.batch < n
        BY <1>2, <1>11, <2>1 DEF m
      <3> QED  BY <1>0, <1>2, <2>1, <3>1, Spoken
    <2>4. TypeOK'
      BY <1>1, <1>9, <1>11, <2>2, <2>3 DEF IInv, TypeOK, Sessions, Talks, Replaying
    <2>5. (SessionIsSound /\ ProjectedOnce /\ AcknowledgedIsInSession /\ ChildrenFirst)'
      BY <1>1, <2>2, <2>3, Conjuncts, RowsFrame
    <2>6. OutboxIsSound'
      BY <1>0, <1>1, <1>2, <2>2, Conjuncts, OutboxFrame
    <2>7. HandIsSound' /\ RowsAreInOrder'
      BY <1>1, <1>5, <1>6, <1>11, HandsEmpty, NoRows
    <2>8. TalkIsSound'
      BY <1>11 DEF TalkIsSound
    <2> QED  BY <2>4, <2>5, <2>6, <2>7, <2>8 DEF IInv
  <1> QED  BY <1>1, <1>10, <1>11

(* Steps of calls leave the session and the agent where they are.          *)
LEMMA CallFrame ==
  ASSUME IInv, phase = "tools",
         UNCHANGED <<acked, file, leaf, messages, phase, queue, todo, fresh, prompts>>
  PROVE  /\ NextBatch' = NextBatch /\ NextBatch \in Nat
         /\ \A c : Projected(c)' = Projected(c)
         /\ BatchesBelow(file', NextBatch') /\ BatchesBelow(messages', NextBatch')
         /\ RowsAreInOrder' /\ TalkIsSound'
  <1>1. /\ NextBatch' = NextBatch /\ NextBatch \in Nat
        /\ \A c : Projected(c)' = Projected(c)
    BY SameFile, Typed, Conjuncts
  <1>2. BatchesBelow(file', NextBatch') /\ BatchesBelow(messages', NextBatch')
    BY <1>1, Conjuncts
  <1>3. RowsAreInOrder'
    <2>1. todo = <<>>
      BY Conjuncts, PhaseHands DEF Replaying
    <2> QED  BY <2>1, NoRows
  <1>4. TalkIsSound'
    <2>1. Unresolved(messages)' = Unresolved(messages)
      BY DEF Unresolved, IssuedIn, AnsweredIn, IssuedBefore, AnsweredBefore, CallsOf
    <2> QED  BY <2>1, Conjuncts DEF TalkIsSound
  <1> QED  BY <1>1, <1>2, <1>3, <1>4

(* A call starts, is denied, or ends without an outcome.                   *)
LEMMA CallSound ==
  ASSUME IInv, NEW c \in Calls, phase = "tools",
         \/ got[c] = "none" /\ InHand(c)
         \/ got[c] = "running" /\ Ended(c),
         NEW g \in {"running", "denied", "lost"}, g = "running" => got[c] = "none",
         got' = [got EXCEPT ![c] = g],
         effect' \in [Calls -> {"none", "NotStarted", "Possible", "KnownNoEffect"}],
         UNCHANGED <<outbox, acked, file, leaf, messages, phase, queue, todo, fresh, prompts>>
  PROVE  IInv'
  <1>1. /\ NextBatch' = NextBatch /\ NextBatch \in Nat
        /\ \A d : Projected(d)' = Projected(d)
        /\ BatchesBelow(file', NextBatch') /\ BatchesBelow(messages', NextBatch')
        /\ RowsAreInOrder' /\ TalkIsSound'
    BY CallFrame
  <1>2. got \in [Calls -> {"none", "running", "actual", "denied", "lost"}]
    BY DEF IInv, TypeOK
  <1>3. got'[c] = g /\ \A d \in Calls : d # c => got'[d] = got[d]
    BY <1>2
  <1>4. TypeOK'
    <2>1. got' \in [Calls -> {"none", "running", "actual", "denied", "lost"}]
      BY <1>2
    <2> QED  BY <2>1 DEF IInv, TypeOK
  <1>5. (SessionIsSound /\ ProjectedOnce /\ AcknowledgedIsInSession /\ ChildrenFirst)'
    BY <1>1, Conjuncts, RowsFrame
  <1>6. OutboxIsSound'
    BY <1>1, Conjuncts, OutboxFrame
  <1>7. HandIsSound'
    <2>1. HandIsSound
      BY Conjuncts
    <2>2. ASSUME NEW d \in Calls, got'[d] = "running"
          PROVE  \/ d \in Elements(queue)
                 \/ Parent[d] \in Elements(queue) /\ got'[Parent[d]] = "running"
      <3>1. InHand(d)
        <4>1. CASE d = c
          BY <1>3, <2>2, <4>1
        <4>2. CASE d # c
          BY <1>3, <2>1, <2>2, <4>2 DEF HandIsSound
        <4> QED  BY <4>1, <4>2
      <3>2. CASE d \in Elements(queue)
        BY <3>2
      <3>3. CASE Parent[d] \in Elements(queue) /\ got[Parent[d]] = "running"
        <4>1. Parent[d] \in Calls
          BY <3>3, ElementsTyped DEF IInv, TypeOK
        <4>2. Parent[d] # c
          <5>1. CASE got[c] = "none"
            BY <3>3, <5>1
          <5>2. CASE got[c] # "none"
            <6>1. Ended(c) /\ d # c
              BY <1>3, <2>2, <5>2
            <6>2. got[d] = "running"
              BY <1>3, <2>2, <6>1
            <6> QED  BY <6>1, <6>2 DEF Ended
          <5> QED  BY <5>1, <5>2
        <4> QED  BY <1>3, <3>3, <4>1, <4>2
      <3> QED  BY <3>1, <3>2, <3>3 DEF InHand
    <2>3. ASSUME NEW d \in Calls, Root(d) \in Elements(queue), d \in Elements(outbox)
          PROVE  got'[d] = "actual"
      <3>1. got[d] = "actual"
        BY <2>1, <2>3 DEF HandIsSound
      <3> QED  BY <1>3, <3>1
    <2> QED  BY <1>1, <2>1, <2>2, <2>3 DEF HandIsSound, InHand
  <1> QED  BY <1>1, <1>4, <1>5, <1>6, <1>7 DEF IInv

(* The steps of the calls that commit nothing.                             *)
LEMMA InvokeSound ==
  ASSUME IInv, NEW c \in Calls, Invoke(c) \/ Deny(c) \/ LoseCommit(c)
  PROVE  IInv'
  <1> USE DEF journal, session
  <1>1. effect \in [Calls -> {"none", "NotStarted", "Possible", "KnownNoEffect"}]
    BY DEF IInv, TypeOK
  <1>2. CASE Invoke(c)
    <2>1. effect' \in [Calls -> {"none", "NotStarted", "Possible", "KnownNoEffect"}]
      BY <1>1, <1>2 DEF Invoke
    <2> QED  BY <1>2, <2>1, CallSound DEF Invoke
  <1>3. CASE Deny(c)
    <2>1. effect' \in [Calls -> {"none", "NotStarted", "Possible", "KnownNoEffect"}]
      BY <1>1, <1>3 DEF Deny
    <2> QED  BY <1>3, <2>1, CallSound DEF Deny
  <1>4. CASE LoseCommit(c)
    <2>1. effect' \in [Calls -> {"none", "NotStarted", "Possible", "KnownNoEffect"}]
      BY <1>1, <1>4 DEF LoseCommit
    <2> QED  BY <1>4, <2>1, CallSound DEF LoseCommit
  <1> QED  BY <1>2, <1>3, <1>4

(* Outcome and row are committed.                                          *)
LEMMA CommitSound ==
  ASSUME IInv, NEW c \in Calls, Commit(c)
  PROVE  IInv'
  <1> USE DEF session
  <1>1. /\ phase = "tools" /\ got[c] = "running" /\ Ended(c)
        /\ got' = [got EXCEPT ![c] = "actual"]
        /\ effect' = [effect EXCEPT ![c] = IF c \in ReadOnly THEN "KnownNoEffect" ELSE "Possible"]
        /\ outbox' = Append(outbox, c)
        /\ UNCHANGED <<acked, file, leaf, messages, phase, queue, todo, fresh, prompts>>
    BY DEF Commit
  <1>2. /\ NextBatch' = NextBatch /\ NextBatch \in Nat
        /\ \A d : Projected(d)' = Projected(d)
        /\ BatchesBelow(file', NextBatch') /\ BatchesBelow(messages', NextBatch')
        /\ RowsAreInOrder' /\ TalkIsSound'
    BY <1>1, CallFrame
  <1>3. /\ got \in [Calls -> {"none", "running", "actual", "denied", "lost"}]
        /\ effect \in [Calls -> {"none", "NotStarted", "Possible", "KnownNoEffect"}]
        /\ outbox \in Seq(Calls) /\ queue \in Seq(Calls)
    BY DEF IInv, TypeOK
  <1>4. got'[c] = "actual" /\ \A d \in Calls : d # c => got'[d] = got[d]
    BY <1>1, <1>3
  <1>5. /\ outbox' \in Seq(Calls) /\ Elements(outbox') = Elements(outbox) \cup {c}
        /\ Distinct(outbox) /\ c \notin Elements(outbox) => Distinct(outbox')
        /\ \A x, y : Precedes(outbox', x, y) <=>
                       Precedes(outbox, x, y) \/ (x \in Elements(outbox) /\ y = c)
    BY <1>1, <1>3, AppendedQueue, AppendedLine
  <1>6. /\ HandIsSound /\ OutboxIsSound /\ SessionIsSound
        /\ \A d \in Elements(queue) : d \in Calls /\ Parent[d] = NoCall /\ Root(d) = d
                                      /\ d \in IssuedBelow(NextBatch)
        /\ \A d \in Calls : Root(d) \in Elements(queue) /\ d \in Elements(outbox) =>
                              got[d] = "actual"
    <2>1. /\ NextBatch - 1 \in DOMAIN Batches
          /\ Elements(queue) \subseteq Elements(Batches[NextBatch - 1])
      BY <1>1, Conjuncts DEF HandIsSound
    <2>2. NextBatch - 1 < NextBatch
      BY <1>2
    <2> QED  BY <1>2, <2>1, <2>2, BatchesAreApart, Conjuncts DEF HandIsSound
  <1>7. InHand(c)
    BY <1>1, <1>6 DEF HandIsSound
  <1>8. Root(c) \in Elements(queue)
    <2>1. CASE c \in Elements(queue)
      BY <1>6, <2>1
    <2>2. CASE Parent[c] \in Elements(queue)
      <3>1. Parent[c] # NoCall
        BY <1>6, <2>2, PublicationAssumption
      <3> QED  BY <2>2, <3>1 DEF Root
    <2> QED  BY <1>7, <2>1, <2>2 DEF InHand
  <1>9. c \notin Elements(outbox)
    BY <1>1, <1>6, <1>8
  <1>10. Parent[c] # NoCall => Parent[c] \in Calls /\ Parent[c] # c /\ Parent[c] \notin Elements(outbox)
    <2> SUFFICES ASSUME Parent[c] # NoCall
                 PROVE  Parent[c] \in Calls /\ Parent[c] # c /\ Parent[c] \notin Elements(outbox)
      OBVIOUS
    <2>1. Parent[c] \in Calls /\ Parent[c] # c /\ Root(Parent[c]) = Parent[c]
      BY Nested
    <2>2. c \notin Elements(queue)
      BY <1>6
    <2>3. Parent[c] \in Elements(queue) /\ got[Parent[c]] = "running"
      BY <1>7, <2>2 DEF InHand
    <2> QED  BY <1>6, <2>1, <2>3
  <1>11. TypeOK'
    <2>1. acked' \subseteq Elements(outbox')
      BY <1>1, <1>5 DEF IInv, TypeOK
    <2>2. /\ got' \in [Calls -> {"none", "running", "actual", "denied", "lost"}]
          /\ effect' \in [Calls -> {"none", "NotStarted", "Possible", "KnownNoEffect"}]
      BY <1>1, <1>3
    <2> QED  BY <1>1, <1>5, <2>1, <2>2 DEF IInv, TypeOK
  <1>12. SessionIsSound'
    BY <1>2, <1>5, <1>6 DEF SessionIsSound
  <1>13. OutboxIsSound'
    <2>1. Distinct(outbox')
      BY <1>5, <1>6, <1>9 DEF OutboxIsSound
    <2>2. ASSUME NEW d \in Elements(outbox')
          PROVE  Root(d) \in IssuedBelow(NextBatch)
      BY <1>5, <1>6, <1>8, <2>2 DEF OutboxIsSound
    <2>3. ASSUME NEW d \in Elements(outbox'), Parent[d] \in Elements(outbox')
          PROVE  Precedes(outbox', d, Parent[d])
      <3>1. CASE d = c
        <4>1. Parent[c] # NoCall
          <5>1. outbox' \in Seq(Calls)
            BY <1>5
          <5>2. Parent[c] \in Calls
            BY <2>3, <3>1, <5>1, ElementsTyped
          <5> QED  BY <5>2, PublicationAssumption
        <4> QED  BY <1>5, <1>10, <2>3, <3>1, <4>1
      <3>2. CASE d # c /\ Parent[d] = c
        BY <1>5, <2>3, <3>2
      <3>3. CASE d # c /\ Parent[d] # c
        BY <1>5, <1>6, <2>3, <3>3 DEF OutboxIsSound
      <3> QED  BY <3>1, <3>2, <3>3
    <2>4. IssuedBelow(NextBatch)' = IssuedBelow(NextBatch)
      BY <1>2 DEF IssuedBelow
    <2> QED  BY <2>1, <2>2, <2>3, <2>4 DEF OutboxIsSound
  <1>14. HandIsSound'
    <2>1. ASSUME NEW d \in Calls, got'[d] = "running"
          PROVE  \/ d \in Elements(queue)
                 \/ Parent[d] \in Elements(queue) /\ got'[Parent[d]] = "running"
      <3>1. d # c /\ got[d] = "running"
        BY <1>4, <2>1
      <3>2. InHand(d)
        BY <1>6, <3>1 DEF HandIsSound
      <3>3. Parent[d] # c
        BY <1>1, <3>1 DEF Ended
      <3> QED  BY <1>4, <1>6, <3>2, <3>3 DEF InHand
    <2>2. ASSUME NEW d \in Calls, Root(d) \in Elements(queue), d \in Elements(outbox')
          PROVE  got'[d] = "actual"
      BY <1>4, <1>5, <1>6, <2>2
    <2> QED  BY <1>1, <1>2, <1>6, <2>1, <2>2 DEF HandIsSound, InHand
  <1>15. ProjectedOnce' /\ AcknowledgedIsInSession'
    BY <1>1, <1>2, Conjuncts DEF ProjectedOnce, AcknowledgedIsInSession
  <1>16. ChildrenFirst'
    <2> SUFFICES ASSUME NEW d \in Elements(outbox'), Parent[d] # NoCall,
                        Projected(Parent[d])' # {}
                 PROVE  \E i \in Projected(d)' : \A j \in Projected(Parent[d])' : i < j
      BY DEF ChildrenFirst
    <2>1. CASE d = c
      BY <1>2, <1>6, <1>10, <2>1 DEF SessionIsSound
    <2>2. CASE d # c
      BY <1>2, <1>5, <2>2, Conjuncts DEF ChildrenFirst
    <2> QED  BY <2>1, <2>2
  <1> QED  BY <1>2, <1>11, <1>12, <1>13, <1>14, <1>15, <1>16 DEF IInv

(* The next result is delivered.                                           *)
LEMMA DeliverSound ==
  ASSUME IInv, Deliver
  PROVE  IInv'
  <1> USE DEF journal, session
  <1>0. PICK c : c = Head(queue)
    OBVIOUS
  <1>1. /\ Deliverable /\ phase = "tools"
        /\ UNCHANGED <<effect, outbox, acked, prompts>>
        /\ \/ /\ queue = <<>>
              /\ phase' = "provider"
              /\ UNCHANGED <<file, leaf, messages, queue, got, todo, fresh>>
           \/ queue # <<>> /\ GiveUp(Said) /\ UNCHANGED <<file, leaf>>
           \/ /\ queue # <<>> /\ c \in Elements(PendingRows)
              /\ todo' = RowsOf(c)
              /\ messages' = Said
              /\ phase' = "projecting"
              /\ UNCHANGED <<file, leaf, queue, got, fresh>>
           \/ /\ queue # <<>>
              /\ AppendEntry(Result(c, got[c]), "result", FALSE)
              /\ messages' = Said
              /\ queue' = Tail(queue)
              /\ UNCHANGED <<phase, got, todo, fresh>>
    <2>1. /\ Deliverable /\ UNCHANGED <<effect, outbox, acked, prompts>>
          /\ \/ /\ queue = <<>>
                /\ phase' = "provider"
                /\ UNCHANGED <<file, leaf, messages, queue, got, todo, fresh>>
             \/ /\ queue # <<>>
                /\ CASE got[c] = "lost" -> GiveUp(Said) /\ UNCHANGED <<file, leaf>>
                     [] got[c] # "lost" /\ c \in Elements(PendingRows) ->
                          /\ todo' = RowsOf(c)
                          /\ messages' = Said
                          /\ phase' = "projecting"
                          /\ UNCHANGED <<file, leaf, queue, got, fresh>>
                     [] OTHER ->
                          /\ AppendEntry(Result(c, got[c]), "result", FALSE)
                          /\ messages' = Said
                          /\ queue' = Tail(queue)
                          /\ UNCHANGED <<phase, got, todo, fresh>>
      BY <1>0 DEF Deliver
    <2> QED  BY <2>1 DEF Deliverable
  <1>2. /\ file \in Sessions /\ messages \in Talks /\ NextBatch \in Nat
        /\ BatchesBelow(messages, NextBatch) /\ BatchesBelow(file, NextBatch)
        /\ leaf \in 0..Len(file)
    BY Typed, Conjuncts
  <1>3. todo = <<>> /\ \A d \in Calls : got[d] # "running"
    BY <1>1, Conjuncts, PhaseHands, NobodyRuns DEF Replaying
  <1>4. queue # <<>> =>
          /\ got[c] \in {"actual", "denied", "lost"} /\ c \in Calls
          /\ c \in Elements(queue) /\ Parent[c] = NoCall
          /\ Tail(queue) \in Seq(Calls) /\ Distinct(Tail(queue))
          /\ Elements(Tail(queue)) \subseteq Elements(queue)
          /\ Result(c, got[c]) \in Message
          /\ Said \in Talks /\ BatchesBelow(Said, NextBatch) /\ Paired(Said)
          /\ Unresolved(Said) = Elements(Tail(queue))
    BY <1>0, <1>1, SaidTyped
  <1>5. CASE /\ queue = <<>>
             /\ phase' = "provider"
             /\ UNCHANGED <<file, leaf, messages, queue, got, todo, fresh>>
    <2>1. NextBatch' = NextBatch /\ \A d : Projected(d)' = Projected(d)
      BY <1>5, SameFile
    <2>2. TypeOK'
      BY <1>1, <1>5 DEF IInv, TypeOK
    <2>3. (SessionIsSound /\ ProjectedOnce /\ AcknowledgedIsInSession /\ ChildrenFirst)'
      BY <1>1, <1>2, <1>5, <2>1, Conjuncts, RowsFrame
    <2>4. OutboxIsSound'
      BY <1>1, <1>2, <2>1, Conjuncts, OutboxFrame
    <2>5. HandIsSound' /\ RowsAreInOrder'
      BY <1>3, <1>5, HandsEmpty, NoRows
    <2>6. TalkIsSound'
      <3>1. Paired(messages) /\ Unresolved(messages) = {}
        BY <1>1, <1>5, Conjuncts, EmptyQueue DEF TalkIsSound
      <3>2. Unresolved(messages)' = Unresolved(messages)
        BY <1>5 DEF Unresolved, IssuedIn, AnsweredIn, IssuedBefore, AnsweredBefore, CallsOf
      <3> QED  BY <1>5, <3>1, <3>2 DEF TalkIsSound
    <2> QED  BY <2>2, <2>3, <2>4, <2>5, <2>6 DEF IInv
  <1>6. CASE queue # <<>> /\ GiveUp(Said) /\ UNCHANGED <<file, leaf>>
    BY <1>1, <1>4, <1>6, GiveUpSound
  <1>7. CASE /\ queue # <<>> /\ c \in Elements(PendingRows)
             /\ todo' = RowsOf(c)
             /\ messages' = Said
             /\ phase' = "projecting"
             /\ UNCHANGED <<file, leaf, queue, got, fresh>>
    <2>1. NextBatch' = NextBatch /\ \A d : Projected(d)' = Projected(d)
      BY <1>7, SameFile
    <2>2. /\ RowsOf(c) \in Seq(Calls) /\ Distinct(RowsOf(c)) /\ RowsOf(c) # <<>>
          /\ Elements(RowsOf(c)) \subseteq Elements(outbox)
          /\ \A d \in Elements(outbox) \ acked : Parent[d] \in Elements(RowsOf(c)) =>
               Precedes(RowsOf(c), d, Parent[d])
      BY <1>4, <1>7, Conjuncts, RowsDelivered
    <2>3. TypeOK'
      BY <1>1, <1>4, <1>7, <2>2 DEF IInv, TypeOK, Talks
    <2>4. (SessionIsSound /\ ProjectedOnce /\ AcknowledgedIsInSession /\ ChildrenFirst)'
      BY <1>1, <1>2, <1>4, <1>7, <2>1, Conjuncts, RowsFrame
    <2>5. OutboxIsSound'
      BY <1>1, <1>2, <2>1, Conjuncts, OutboxFrame
    <2>6. HandIsSound'
      BY <1>1, <1>3, <1>7, <2>1, Conjuncts DEF HandIsSound
    <2>7. RowsAreInOrder'
      <3>1. ASSUME NEW d \in Elements(outbox), Parent[d] \in Elements(RowsOf(c))
            PROVE  Projected(d) # {} \/ Precedes(RowsOf(c), d, Parent[d])
        BY <2>2, <3>1, Conjuncts DEF AcknowledgedIsInSession
      <3> QED  BY <1>1, <1>7, <2>1, <2>2, <3>1 DEF RowsAreInOrder
    <2>8. TalkIsSound'
      <3>1. Unresolved(messages)' = Unresolved(Said)
        BY <1>7 DEF Unresolved, IssuedIn, AnsweredIn, IssuedBefore, AnsweredBefore, CallsOf
      <3> QED  BY <1>4, <1>7, <3>1 DEF TalkIsSound
    <2> QED  BY <2>3, <2>4, <2>5, <2>6, <2>7, <2>8 DEF IInv
  <1>8. CASE /\ queue # <<>>
             /\ AppendEntry(Result(c, got[c]), "result", FALSE)
             /\ messages' = Said
             /\ queue' = Tail(queue)
             /\ UNCHANGED <<phase, got, todo, fresh>>
    <2>1. /\ file' \in Sessions /\ leaf' \in 0..Len(file')
          /\ \A d : Projected(d)' = Projected(d)
          /\ NextBatch' = NextBatch /\ BatchesBelow(file', NextBatch)
      <3>1. /\ "result" \in {"prompt", "assistant", "result", "child"} /\ "result" # "assistant"
            /\ TypeOK /\ Result(c, got[c]) \in Message
            /\ AppendEntry(Result(c, got[c]), "result", FALSE)
        BY <1>4, <1>8, Conjuncts
      <3> QED  BY <1>2, <3>1, PlainEntry
    <2>2. TypeOK'
      BY <1>1, <1>4, <1>8, <2>1 DEF IInv, TypeOK, Sessions, Talks
    <2>3. (SessionIsSound /\ ProjectedOnce /\ AcknowledgedIsInSession /\ ChildrenFirst)'
      BY <1>1, <1>4, <1>8, <2>1, Conjuncts, RowsFrame
    <2>4. OutboxIsSound'
      BY <1>1, <1>2, <2>1, Conjuncts, OutboxFrame
    <2>5. HandIsSound'
      BY <1>1, <1>3, <1>4, <1>8, <2>1, Conjuncts DEF HandIsSound
    <2>6. RowsAreInOrder'
      BY <1>3, <1>8, NoRows
    <2>7. TalkIsSound'
      <3>1. Unresolved(messages)' = Unresolved(Said)
        BY <1>8 DEF Unresolved, IssuedIn, AnsweredIn, IssuedBefore, AnsweredBefore, CallsOf
      <3> QED  BY <1>1, <1>4, <1>8, <3>1 DEF TalkIsSound
    <2> QED  BY <2>2, <2>3, <2>4, <2>5, <2>6, <2>7 DEF IInv
  <1> QED  BY <1>1, <1>5, <1>6, <1>7, <1>8

(* What is read back from the session replaces the conversation.           *)
LEMMA ReopenedSound ==
  ASSUME IInv, NEW i \in 0..Len(file), leaf' = i, messages' = History(file, i),
         phase' = "idle", queue' = <<>>, todo' = <<>>, fresh' \in Calls \cup {NoCall},
         got' \in [Calls -> {"none", "actual", "denied", "lost"}],
         UNCHANGED <<effect, outbox, acked, file, prompts>>
  PROVE  IInv'
  <1>1. /\ NextBatch' = NextBatch /\ \A c : Projected(c)' = Projected(c)
        /\ NextBatch \in Nat /\ file \in Sessions /\ BatchesBelow(file, NextBatch)
    BY SameFile, Typed, Conjuncts
  <1>2. messages' \in Talks /\ BatchesBelow(messages', NextBatch)
    BY <1>1, HistoryTyped
  <1>3. TypeOK'
    <2>1. /\ <<>> \in Seq(Calls)
          /\ got' \in [Calls -> {"none", "running", "actual", "denied", "lost"}]
      OBVIOUS
    <2> QED  BY <1>2, <2>1 DEF IInv, TypeOK, Talks
  <1>4. (SessionIsSound /\ ProjectedOnce /\ AcknowledgedIsInSession /\ ChildrenFirst)'
    BY <1>1, <1>2, Conjuncts, RowsFrame
  <1>5. OutboxIsSound'
    BY <1>1, Conjuncts, OutboxFrame
  <1>6. HandIsSound' /\ RowsAreInOrder'
    <2>1. \A c \in Calls : got'[c] # "running"
      OBVIOUS
    <2> QED  BY <2>1, HandsEmpty, NoRows
  <1>7. TalkIsSound'
    BY DEF TalkIsSound
  <1> QED  BY <1>3, <1>4, <1>5, <1>6, <1>7 DEF IInv

(* The process dies.                                                       *)
LEMMA CrashSound ==
  ASSUME IInv, Crash
  PROVE  IInv'
  <1>1. Len(file) \in 0..Len(file)
    <2>1. Len(file) \in Nat
      BY Typed, Conjuncts
    <2> QED  BY <2>1
  <1>2. NotStarted \in [Calls -> {"none", "actual", "denied", "lost"}]
    BY DEF NotStarted
  <1> QED  BY <1>1, <1>2, ReopenedSound DEF Crash, journal

(* The user moves to another entry.                                        *)
LEMMA NavigateSound ==
  ASSUME IInv, NEW k \in 1..Len(file), Navigate(k)
  PROVE  IInv'
  <1> USE DEF journal, turn
  <1>1. /\ phase = "idle"
        /\ leaf' = IF file[k].kind = "prompt" THEN file[k].parent ELSE k
        /\ messages' = History(file, leaf')
        /\ UNCHANGED <<effect, outbox, acked, file, phase, queue, got, prompts, todo, fresh>>
    BY DEF Navigate
  <1>2. queue = <<>> /\ todo = <<>> /\ \A d \in Calls : got[d] # "running"
    BY <1>1, Conjuncts, PhaseHands, NobodyRuns DEF Replaying
  <1>3. /\ got \in [Calls -> {"none", "running", "actual", "denied", "lost"}]
        /\ fresh \in Calls \cup {NoCall}
    BY DEF IInv, TypeOK
  <1>4. got \in [Calls -> {"none", "actual", "denied", "lost"}]
    <2>1. \A d \in Calls : got[d] \in {"none", "actual", "denied", "lost"}
      BY <1>2, <1>3
    <2> QED  BY <1>3, <2>1
  <1>5. leaf' \in 0..Len(file)
    <2>1. file \in Sessions /\ Len(file) \in Nat
      BY Typed, Conjuncts
    <2>2. file[k] \in Entry /\ file[k].parent < k
      BY <2>1, ElementOfSeq DEF Sessions
    <2>3. file[k].parent \in Nat
      BY <2>2 DEF Entry
    <2>4. k \in Nat /\ k <= Len(file)
      BY <2>1
    <2> QED  BY <1>1, <2>1, <2>2, <2>3, <2>4
  <1>6. PICK i \in 0..Len(file) : i = leaf'
    BY <1>5
  <1> QED  BY <1>1, <1>2, <1>3, <1>4, <1>6, ReopenedSound
-----------------------------------------------------------------------------
(* Every step preserves the invariant.                                     *)
LEMMA Inductive == IInv /\ [Next]_vars => IInv'
  <1> SUFFICES ASSUME IInv, [Next]_vars  PROVE IInv'
    OBVIOUS
  <1>1. CASE Prompt
    BY <1>1, PromptSound
  <1>2. CASE AgentStep
    <2>1. CASE Ask
      BY <2>1, AskSound
    <2>2. CASE ReadOutbox
      BY <2>2, ReadOutboxSound
    <2>3. CASE Repair
      BY <2>3, RepairSound
    <2>4. CASE AppendProjection
      BY <2>4, AppendProjectionSound
    <2>5. CASE Acknowledge
      BY <2>5, AcknowledgeSound
    <2>6. CASE RejectProjection
      BY <2>6, RejectProjectionSound
    <2> QED  BY <1>2, <2>1, <2>2, <2>3, <2>4, <2>5, <2>6 DEF AgentStep
  <1>3. CASE JournalRefuses
    BY <1>3, JournalRefusesSound
  <1>4. CASE Respond
    BY <1>4, RespondSound
  <1>5. CASE Deliver
    BY <1>5, DeliverSound
  <1>6. CASE Crash
    BY <1>6, CrashSound
  <1>7. CASE \E c \in Calls : Invoke(c) \/ Deny(c) \/ Commit(c) \/ LoseCommit(c)
    <2>1. PICK c \in Calls : Invoke(c) \/ Deny(c) \/ Commit(c) \/ LoseCommit(c)
      BY <1>7
    <2>2. CASE Commit(c)
      BY <2>2, CommitSound
    <2>3. CASE Invoke(c) \/ Deny(c) \/ LoseCommit(c)
      BY <2>3, InvokeSound
    <2> QED  BY <2>1, <2>2, <2>3
  <1>8. CASE \E i \in 1..Len(file) : Navigate(i)
    BY <1>8, NavigateSound
  <1>9. CASE UNCHANGED vars
    BY <1>9, StutterSound
  <1> QED  BY <1>1, <1>2, <1>3, <1>4, <1>5, <1>6, <1>7, <1>8, <1>9 DEF Next

(* The inductive invariant holds in every reachable state.                 *)
THEOREM Invariance == Spec => []IInv
  <1> QED  BY InitSound, Inductive, PTL DEF Spec

(* The types, for every set of calls and every window.                     *)
THEOREM TypeCorrect == Spec => []TypeOK
  <1>1. IInv => TypeOK
    BY DEF IInv
  <1> QED  BY <1>1, Invariance, PTL

(* What goes to the provider is paired, whatever crashed, was replayed,    *)
(* refused by the journal or left on another branch: run_loop_inner sends  *)
(* no call without a result, no result without its call, none twice.       *)
THEOREM ProviderAlwaysSeesPairs == Spec => []ProviderSeesPairs
  <1>1. IInv => ProviderSeesPairs
    <2> SUFFICES ASSUME IInv, phase = "provider"
                 PROVE  /\ IssuedIn(messages) \subseteq AnsweredIn(messages)
                        /\ \A i \in 1..Len(messages) : messages[i].kind = "result" =>
                             messages[i].call \in IssuedBefore(messages, i)
                                                  \ AnsweredBefore(messages, i)
      BY DEF ProviderSeesPairs
    <2>1. Paired(messages) /\ Unresolved(messages) = {}
      BY DEF IInv, TalkIsSound
    <2> QED  BY <2>1 DEF Paired, Unresolved
  <1> QED  BY <1>1, Invariance, PTL

(* append_entry_once: the result of an operation is one entry at most, over *)
(* any number of crashes and replays, however many branches there are.     *)
THEOREM ProjectedAtMostOnce == Spec => []ProjectedOnce
  <1>1. IInv => ProjectedOnce
    BY DEF IInv
  <1> QED  BY <1>1, Invariance, PTL

(* A row is acknowledged only when its entry is in the session, so that a  *)
(* crash between the two stores loses no result.                           *)
THEOREM AcknowledgedStaysInSession == Spec => []AcknowledgedIsInSession
  <1>1. IInv => AcknowledgedIsInSession
    BY DEF IInv
  <1> QED  BY <1>1, Invariance, PTL

(* The results of the calls that ran inside a call are in the session      *)
(* before its own, whether the turn projects them or a replay does.        *)
THEOREM ChildrenAlwaysFirst == Spec => []ChildrenFirst
  <1>1. IInv => ChildrenFirst
    BY DEF IInv
  <1> QED  BY <1>1, Invariance, PTL
-----------------------------------------------------------------------------
(***************************************************************************)
(* A session without branches and a journal that answers, whose window     *)
(* holds all rows of a message: what a call is answered with.              *)
(***************************************************************************)

-----------------------------------------------------------------------------
(* What a session without branches reads back.                             *)

Unbranched(f) == f \in Sessions /\ \A i \in 1..Len(f) : f[i].parent = i - 1

(* The message of an entry.                                                *)
Spelled(e) == [kind |-> e.kind, batch |-> e.batch, call |-> e.call, answer |-> e.answer]

(* A lineage without branches is all that was filed before.                *)
LEMMA UnbranchedLineage ==
  ASSUME NEW f, Unbranched(f), NEW i \in 0..Len(f)
  PROVE  Lineage(f, i) = Upto(i)
  <1> DEFINE n == Len(f)
             path == CHOOSE p : IsPath(p, n, f)
             T == {m \in Nat : m <= n => path[m] = Upto(m)}
  <1>1. n \in Nat /\ f \in Sessions /\ \A k \in 1..n : f[k].parent = k - 1
    BY DEF Unbranched, Sessions
  <1>2. Lineage(f, i) = path[i]
    BY DEF Lineage, IsPath
  <1>3. IsPath(path, n, f)
    <2>1. \E p : IsPath(p, n, f)
      BY <1>1, PathExists
    <2> QED  BY <2>1
  <1>4. i \in 0..n
    OBVIOUS
  <1> HIDE DEF path, n
  <1>5. \A k \in 0..n : path[k] = IF k = 0 THEN <<>> ELSE Append(path[f[k].parent], k)
    BY <1>3 DEF IsPath
  <1>6. 0 \in T
    <2>1. 0 \in Nat /\ 0 \in 0..n
      BY <1>1
    <2>2. path[0] = <<>> /\ Upto(0) = <<>>
      BY <1>5, <2>1, UptoNext
    <2> QED  BY <2>1, <2>2
  <1>7. ASSUME NEW m \in T  PROVE m + 1 \in T
    <2> SUFFICES ASSUME m + 1 <= n  PROVE path[m + 1] = Upto(m + 1)
      OBVIOUS
    <2>1. m \in Nat /\ m + 1 \in 1..n /\ m + 1 \in 0..n /\ m + 1 # 0 /\ (m + 1) - 1 = m
      BY <1>1
    <2>2. path[m] = Upto(m)
      BY <1>1, <2>1
    <2>3. f[m + 1].parent = m
      BY <1>1, <2>1
    <2>4. path[m + 1] = Append(path[m], m + 1)
      BY <1>5, <2>1, <2>3
    <2> QED  BY <2>1, <2>2, <2>4, UptoNext
  <1> HIDE DEF T
  <1>8. i \in T
    <2>1. T \in SUBSET Nat
      BY DEF T
    <2>2. \A m \in T : m + 1 \in T
      BY <1>7
    <2>3. \A k \in Nat : k \in T
      BY <1>6, <2>1, <2>2, SetInduction
    <2>4. i \in Nat
      BY <1>1, <1>4
    <2> QED  BY <2>3, <2>4
  <1>9. path[i] = Upto(i)
    BY <1>1, <1>4, <1>8 DEF T
  <1> QED  BY <1>2, <1>9

(* What the history says is spelled by the entries that are messages.      *)
LEMMA UnbranchedHistory ==
  ASSUME NEW f, Unbranched(f), NEW i \in 0..Len(f)
  PROVE  LET path == Keep(Upto(i), {k \in 1..Len(f) : f[k].kind # "child"}) IN
         /\ History(f, i) = [k \in 1..Len(path) |-> Spelled(f[path[k]])]
         /\ path \in Seq(1..i)
         /\ Len(path) \in Nat
         /\ \A k \in 1..Len(path) : path[k] \in 1..i
  <1> DEFINE said == {k \in 1..Len(f) : f[k].kind # "child"}
             path == Keep(Upto(i), said)
  <1>1. Lineage(f, i) = Upto(i)
    BY UnbranchedLineage
  <1>2. History(f, i) = [k \in 1..Len(path) |-> Spelled(f[path[k]])]
    BY <1>1 DEF History, Spelled
  <1>3. Upto(i) \in Seq(1..i)
    <2>1. i \in Nat /\ i <= i
      BY DEF Unbranched, Sessions
    <2> QED  BY <2>1, UptoNext
  <1>4. path \in Seq(1..i)
    BY <1>3, KeepSifts
  <1> HIDE DEF path
  <1>5. Len(path) \in Nat /\ \A k \in 1..Len(path) : path[k] \in 1..i
    BY <1>4, ElementOfSeq
  <1> QED  BY <1>2, <1>4, <1>5 DEF path

(* An entry at the end adds its message to what is read back, and leaves   *)
(* what was read back before.                                              *)
LEMMA HistoryGrows ==
  ASSUME NEW f, Unbranched(f), NEW e \in Entry, e.parent = Len(f)
  PROVE  LET g == Append(f, e)
             n == Len(f)
         IN
         /\ Unbranched(g) /\ Len(g) = n + 1 /\ n \in Nat
         /\ g[n + 1] = e /\ \A i \in 1..n : g[i] = f[i]
         /\ \A i \in 0..n : History(g, i) = History(f, i)
         /\ History(g, n + 1) = IF e.kind = "child" THEN History(f, n)
                                ELSE Append(History(f, n), Spelled(e))
  <1> DEFINE g == Append(f, e)
             n == Len(f)
             saidF == {k \in 1..Len(f) : f[k].kind # "child"}
             saidG == {k \in 1..Len(g) : g[k].kind # "child"}
  <1>1. f \in Seq(Entry) /\ \A i \in 1..Len(f) : f[i].parent < i /\ f[i].parent = i - 1
    BY DEF Unbranched, Sessions
  <1>2. /\ n \in Nat /\ g \in Seq(Entry) /\ Len(g) = n + 1 /\ g[n + 1] = e
        /\ \A i \in 1..n : g[i] = f[i]
    BY <1>1, AppendProperties
  <1>3. Unbranched(g)
    <2>1. ASSUME NEW i \in 1..(n + 1)  PROVE g[i].parent < i /\ g[i].parent = i - 1
      <3>1. CASE i = n + 1
        BY <1>2, <3>1
      <3>2. CASE i # n + 1
        <4>1. i \in 1..n
          BY <1>2, <3>2
        <4> QED  BY <1>1, <1>2, <4>1
      <3> QED  BY <3>1, <3>2
    <2> QED  BY <1>2, <2>1 DEF Unbranched, Sessions
  <1> HIDE DEF g
  <1>4. \A k \in 1..n : k \in saidF <=> k \in saidG
    <2>1. \A k \in 1..n : k \in 1..Len(g)
      BY <1>2
    <2> QED  BY <1>2, <2>1
  <1>5. n + 1 \in saidG <=> e.kind # "child"
    <2>1. n + 1 \in 1..Len(g)
      BY <1>2
    <2> QED  BY <1>2, <2>1
  <1>6. \A k \in 1..n : Spelled(g[k]) = Spelled(f[k])
    BY <1>2
  <1> HIDE DEF saidF, saidG
  <1>7. ASSUME NEW i \in 0..n
        PROVE  Keep(Upto(i), saidG) = Keep(Upto(i), saidF)
    <2>1. i \in Nat /\ i <= n
      BY <1>2
    <2>2. Upto(i) \in Seq(1..n)
      BY <1>2, <2>1, UptoNext
    <2>3. Elements(Upto(i)) \subseteq 1..n
      BY <2>2, ElementsTyped
    <2> QED  BY <1>4, <2>2, <2>3, KeepSame
  <1>8. ASSUME NEW i \in 0..n
        PROVE  History(g, i) = History(f, i)
    <2> DEFINE path == Keep(Upto(i), saidF)
    <2>1. i \in 0..Len(f) /\ i \in 0..Len(g)
      BY <1>2
    <2>2. /\ History(f, i) = [k \in 1..Len(path) |-> Spelled(f[path[k]])]
          /\ \A k \in 1..Len(path) : path[k] \in 1..i
      BY <2>1, UnbranchedHistory DEF saidF
    <2>3. History(g, i) = [k \in 1..Len(path) |-> Spelled(g[path[k]])]
      <3> DEFINE other == Keep(Upto(i), saidG)
      <3>1. History(g, i) = [k \in 1..Len(other) |-> Spelled(g[other[k]])]
        BY <1>3, <2>1, UnbranchedHistory DEF saidG
      <3>2. other = path
        BY <1>7
      <3> HIDE DEF other, path
      <3> QED  BY <3>1, <3>2
    <2> HIDE DEF path
    <2>4. \A k \in 1..Len(path) : path[k] \in 1..n
      BY <1>2, <2>2
    <2>5. \A k \in 1..Len(path) : Spelled(g[path[k]]) = Spelled(f[path[k]])
      BY <1>6, <2>4
    <2> HIDE DEF n
    <2> QED  BY <2>2, <2>3, <2>5, Zenon
  <1>9. History(g, n + 1) = IF e.kind = "child" THEN History(f, n)
                            ELSE Append(History(f, n), Spelled(e))
    <2> DEFINE path == Keep(Upto(n), saidF)
               long == Keep(Upto(n + 1), saidG)
    <2>1. n \in 0..Len(f) /\ n + 1 \in 0..Len(g)
      BY <1>2
    <2>2. /\ History(f, n) = [k \in 1..Len(path) |-> Spelled(f[path[k]])]
          /\ path \in Seq(1..n) /\ Len(path) \in Nat
          /\ \A k \in 1..Len(path) : path[k] \in 1..n
      BY <2>1, UnbranchedHistory DEF saidF
    <2>3. History(g, n + 1) = [k \in 1..Len(long) |-> Spelled(g[long[k]])]
      BY <1>3, <2>1, UnbranchedHistory DEF saidG
    <2>4. long = IF n + 1 \in saidG THEN Append(path, n + 1) ELSE path
      <3>1. Upto(n) \in Seq(Nat) /\ Append(Upto(n), n + 1) = Upto(n + 1) /\ n + 1 \in Nat
        <4>1. n \in Nat
          BY <1>2
        <4>2. Upto(n) \in Seq(Nat) /\ Append(Upto(n), n + 1) = Upto(n + 1)
          BY <4>1, UptoNext, Zenon
        <4> QED  BY <4>1, <4>2
      <3>2. Keep(Upto(n), saidG) = path
        <4>1. n \in 0..n
          BY <1>2
        <4> QED  BY <1>7, <4>1
      <3>3. Keep(Append(Upto(n), n + 1), saidG) =
              IF n + 1 \in saidG THEN Append(Keep(Upto(n), saidG), n + 1)
              ELSE Keep(Upto(n), saidG)
        BY <3>1, KeepAppend
      <3>4. long = Keep(Append(Upto(n), n + 1), saidG)
        BY <3>1
      <3> HIDE DEF path, long
      <3> QED  BY <3>2, <3>3, <3>4
    <2> HIDE DEF path, long
    <2>5. \A k \in 1..Len(path) : Spelled(g[path[k]]) = Spelled(f[path[k]])
      BY <1>6, <2>2
    <2>6. CASE e.kind = "child"
      <3>1. long = path
        BY <1>5, <2>4, <2>6
      <3>2. [k \in 1..Len(path) |-> Spelled(g[path[k]])] = [k \in 1..Len(path) |-> Spelled(f[path[k]])]
        BY <2>5, Zenon
      <3> QED  BY <2>2, <2>3, <2>6, <3>1, <3>2
    <2>7. CASE e.kind # "child"
      <3> DEFINE h == History(f, n)
                 l == Len(path)
                 t == Append(h, Spelled(e))
                 u == History(g, n + 1)
      <3>1. h \in Seq(Message) /\ u \in Seq(Message)
        BY <1>3, <2>1, HistoryTyped DEF Unbranched, Talks
      <3>2. Spelled(e) \in Message
        BY <2>7 DEF Entry, Message, Spelled
      <3>3. long = Append(path, n + 1)
        BY <1>5, <2>4, <2>7
      <3>4. l \in Nat
        BY <2>2
      <3>5. Len(long) = l + 1 /\ long[l + 1] = n + 1 /\ \A k \in 1..l : long[k] = path[k]
        <4>1. path \in Seq(Nat) /\ n + 1 \in Nat
          BY <1>2, <2>2
        <4> QED  BY <3>3, <4>1, AppendProperties
      <3>6. h = [k \in 1..l |-> Spelled(f[path[k]])]
        BY <2>2
      <3>7. u = [k \in 1..(l + 1) |-> Spelled(g[long[k]])]
        BY <2>3, <3>5
      <3> HIDE DEF h, u, l
      <3>8. Len(h) = l
        <4>1. h \in [1..Len(h) -> Message]
          BY <3>1
        <4>2. h \in [1..l -> Message]
          BY <3>6, <4>1
        <4> QED  BY <3>4, <4>2, SequenceOf
      <3>9. Len(u) = l + 1
        <4>1. u \in [1..Len(u) -> Message]
          BY <3>1
        <4>2. u \in [1..(l + 1) -> Message] /\ l + 1 \in Nat
          BY <3>4, <3>7, <4>1
        <4> QED  BY <4>2, SequenceOf
      <3>10. t \in Seq(Message) /\ Len(t) = l + 1 /\ t[l + 1] = Spelled(e)
             /\ \A k \in 1..l : t[k] = h[k]
        BY <3>1, <3>2, <3>4, <3>8, AppendProperties
      <3> HIDE DEF t
      <3>11. ASSUME NEW k \in 1..(l + 1)  PROVE t[k] = u[k]
        <4>1. CASE k = l + 1
          <5>1. u[k] = Spelled(g[long[l + 1]])
            BY <3>7, <4>1
          <5>2. g[long[l + 1]] = e
            BY <1>2, <3>5
          <5> QED  BY <3>10, <4>1, <5>1, <5>2
        <4>2. CASE k # l + 1
          <5>1. k \in 1..l
            BY <3>4, <4>2
          <5>2. u[k] = Spelled(g[long[k]])
            BY <3>7
          <5>3. u[k] = Spelled(g[path[k]])
            BY <3>5, <5>1, <5>2
          <5>4. Spelled(g[path[k]]) = Spelled(f[path[k]])
            BY <2>5, <5>1 DEF l
          <5>5. h[k] = Spelled(f[path[k]])
            BY <3>6, <5>1
          <5> QED  BY <3>10, <5>1, <5>3, <5>4, <5>5
        <4> QED  BY <4>1, <4>2
      <3>12. t = u
        BY <3>1, <3>9, <3>10, <3>11, SeqEqual
      <3> QED  BY <2>7, <3>12 DEF t, u, h
    <2> QED  BY <2>6, <2>7
  <1> QED  BY <1>2, <1>3, <1>8, <1>9 DEF g

(***************************************************************************)
(* A session without branches and a journal that answers, whose window     *)
(* holds all rows of a message: what a call is answered with.              *)
(***************************************************************************)
RowsOfBatch(k) == {c \in Calls : Root(c) \in Elements(Batches[k])}

Steady ==
  /\ ~MayNavigate /\ ~JournalMayFail
  /\ \A k \in DOMAIN Batches :
       IsFiniteSet(RowsOfBatch(k)) /\ Cardinality(RowsOfBatch(k)) <= Window

(* The conversation as the file has it.                                    *)
Filed == History(file, Len(file))

(* One branch, whose tail is the leaf; what carries an event id is of the  *)
(* kind of its call, no call is answered twice, none is open at a prompt,  *)
(* and a call with a row is answered by its row.                           *)
EventsAreResults(f) ==
  \A i \in 1..Len(f) :
    f[i].event => f[i].kind = IF Parent[f[i].call] = NoCall THEN "result" ELSE "child"

FileIsStraight ==
  /\ leaf = Len(file) /\ Unbranched(file)
  /\ EventsAreResults(file) /\ Single(file)
  /\ \A c \in Elements(outbox) : Projected(c) = {} => c \notin AnsweredIn(file)
  /\ AnsweredBeforePrompt

(* Calls are open only in the last assistant message, with nothing but     *)
(* results behind it.                                                      *)
OpenIsLast(s) ==
  \A i, j \in 1..Len(s) :
    i < j /\ Elements(CallsOf(s[i])) \cap Unresolved(s) # {} => s[j].kind = "result"

(* The harness answers with results only, and none of these calls.         *)
Honest(s, rows) ==
  \A i \in 1..Len(s) : s[i].answer \in {"unknown", "notExecuted"} =>
    s[i].kind = "result" /\ s[i].call \notin rows

(* What the file holds of the conversation.                                *)
FiledIsSound ==
  /\ Paired(Filed) /\ OpenIsLast(Filed)
  /\ IssuedIn(Filed) = IssuedBelow(NextBatch)
  /\ AnsweredIn(Filed) = AnsweredIn(file)
  /\ Honest(Filed, Elements(outbox))

(* The conversation is what the file holds, but for a result between its   *)
(* two writes: a replay files it first, the turn says it first.            *)
HeardIsFiled ==
  IF phase = "projecting" /\ Head(queue) \notin AnsweredIn(file)
  THEN messages = Append(Filed, Result(Head(queue), "actual"))
  ELSE IF phase \in Replaying /\ fresh \in Issued
       THEN Filed = Append(messages, Result(fresh, "actual"))
       ELSE messages = Filed

(* Nothing is open when the prompt is appended, and no row is pending when *)
(* the provider answers; then only rows of the calls in hand are.          *)
NothingIsLeft ==
  /\ phase \notin {"reconciling", "reconciled"}
  /\ phase \in {"asking", "replaying", "provider"} => Unresolved(Filed) = {}
  /\ phase \in {"closed", "provider"} => Elements(outbox) \subseteq acked
  /\ phase = "tools" => \A c \in Elements(outbox) \ acked : Root(c) \in Elements(queue)
  /\ phase = "projecting" =>
       /\ todo # <<>> /\ todo[Len(todo)] = Head(queue)
       /\ \A c \in Elements(todo) : Root(c) = Head(queue)
       /\ \A c \in Elements(outbox) \ acked :
            c \in Elements(todo) \/ Root(c) \in Elements(Tail(queue))
  /\ fresh # NoCall => todo # <<>> /\ fresh = Head(todo) /\ Projected(fresh) # {}

(* A call in hand that ended well has a row, and one that has not started  *)
(* has no row of a call inside it.                                         *)
HandIsCommitted ==
  /\ \A c \in Calls : got[c] # "lost"
  /\ \A c \in Elements(queue) : got[c] = "actual" => c \in Elements(outbox)
  /\ \A c \in Elements(outbox) : Parent[c] \in Elements(queue) =>
       got[Parent[c]] \in {"running", "actual"}

SteadyInv ==
  FileIsStraight /\ FiledIsSound /\ HeardIsFiled /\ NothingIsLeft /\ HandIsCommitted

-----------------------------------------------------------------------------
(* What an entry does to the file and to what is read back.                *)

(* What an entry at the end answers.                                       *)
LEMMA EntryAnswers ==
  ASSUME NEW A, NEW s \in Seq(A), NEW e \in A
  PROVE  LET t == Append(s, e) IN
         /\ AnsweredIn(t) = AnsweredIn(s) \cup {c \in {e.call} : e.kind = "result"}
         /\ Single(s) /\ (e.kind = "result" => e.call \notin AnsweredIn(s)) => Single(t)
  <1> DEFINE t == Append(s, e)
             n == Len(s)
  <1>1. n \in Nat /\ t \in Seq(A) /\ Len(t) = n + 1 /\ t[n + 1] = e /\ \A i \in 1..n : t[i] = s[i]
    BY AppendProperties
  <1>2. \A c : c \in AnsweredIn(t) <=> \E i \in 1..Len(t) : t[i].kind = "result" /\ t[i].call = c
    BY <1>1, InTalk
  <1>3. \A c : c \in AnsweredIn(s) <=> \E i \in 1..n : s[i].kind = "result" /\ s[i].call = c
    BY InTalk
  <1>4. Single(s) => \A i \in 1..n : s[i].kind = "result" => s[i].call \notin AnsweredBefore(s, i)
    BY DEF Single
  <1> HIDE DEF t, n
  <1>5. 1..Len(t) = 1..n \cup {n + 1}
    BY <1>1
  <1>6. AnsweredIn(t) = AnsweredIn(s) \cup {c \in {e.call} : e.kind = "result"}
    <2>1. \A c : c \in AnsweredIn(t) <=> c \in AnsweredIn(s) \/ (e.kind = "result" /\ c = e.call)
      BY <1>1, <1>2, <1>3, <1>5
    <2> QED  BY <2>1
  <1>7. \A i \in 1..n : AnsweredBefore(t, i) = AnsweredBefore(s, i)
    <2> SUFFICES ASSUME NEW i \in 1..n  PROVE AnsweredBefore(t, i) = AnsweredBefore(s, i)
      OBVIOUS
    <2>1. \A j \in 1..(i - 1) : j \in 1..n
      BY <1>1
    <2> QED  BY <1>1, <2>1 DEF AnsweredBefore
  <1>8. AnsweredBefore(t, n + 1) = AnsweredIn(s)
    <2>1. (n + 1) - 1 = n
      BY <1>1
    <2> QED  BY <1>1, <2>1 DEF AnsweredIn, AnsweredBefore, n
  <1>9. Single(s) /\ (e.kind = "result" => e.call \notin AnsweredIn(s)) => Single(t)
    BY <1>1, <1>4, <1>5, <1>7, <1>8 DEF Single
  <1> QED  BY <1>6, <1>9 DEF t

(* A result at the end, or a message where nothing is open, leaves only    *)
(* the last calls open.                                                    *)
LEMMA OpenGrows ==
  ASSUME NEW s \in Talks, NEW m \in Message, OpenIsLast(s),
         m.kind = "result" \/ Unresolved(s) = {}
  PROVE  OpenIsLast(Append(s, m))
  <1> DEFINE t == Append(s, m)
             n == Len(s)
  <1>1. /\ n \in Nat /\ Len(t) = n + 1 /\ t[n + 1] = m /\ \A i \in 1..n : t[i] = s[i]
        /\ t \in Seq(Message)
    BY AppendProperties DEF Talks
  <1>2. /\ IssuedIn(t) = IssuedIn(s) \cup Elements(CallsOf(m))
        /\ AnsweredIn(t) = AnsweredIn(s) \cup {c \in {m.call} : m.kind = "result"}
    BY Spoken
  <1>3. m.kind = "result" => CallsOf(m) = <<>>
    BY DEF CallsOf
  <1>4. \A i \in 1..n : Elements(CallsOf(s[i])) \subseteq IssuedIn(s)
    BY InTalk DEF Talks
  <1>5. \A i, j \in 1..n : i < j /\ Elements(CallsOf(s[i])) \cap Unresolved(s) # {} =>
          s[j].kind = "result"
    BY DEF OpenIsLast
  <1> HIDE DEF t, n
  <1>6. ASSUME NEW i \in 1..(n + 1), NEW j \in 1..(n + 1), i < j,
               Elements(CallsOf(t[i])) \cap Unresolved(t) # {}
        PROVE  t[j].kind = "result"
    <2>1. i \in 1..n /\ t[i] = s[i]
      BY <1>1, <1>6
    <2>2. PICK c \in Elements(CallsOf(s[i])) : c \in Unresolved(t)
      BY <1>6, <2>1
    <2>3. c \in IssuedIn(s) /\ c \notin AnsweredIn(s)
      BY <1>2, <1>4, <2>1, <2>2 DEF Unresolved
    <2>4. c \in Unresolved(s)
      BY <2>3 DEF Unresolved
    <2>5. CASE j = n + 1
      BY <1>1, <2>4, <2>5
    <2>6. CASE j # n + 1
      <3>1. j \in 1..n
        BY <1>1, <2>6
      <3> QED  BY <1>1, <1>5, <1>6, <2>1, <2>2, <2>4, <3>1
    <2> QED  BY <2>5, <2>6
  <1>7. OpenIsLast(t)
    BY <1>1, <1>6 DEF OpenIsLast
  <1> QED  BY <1>7 DEF t

(* The harness answers a call that has no row.                             *)
LEMMA HonestGrows ==
  ASSUME NEW s \in Talks, NEW m \in Message, NEW rows, Honest(s, rows),
         m.answer \in {"unknown", "notExecuted"} => m.kind = "result" /\ m.call \notin rows
  PROVE  Honest(Append(s, m), rows)
  <1> DEFINE t == Append(s, m)
             n == Len(s)
  <1>1. n \in Nat /\ Len(t) = n + 1 /\ t[n + 1] = m /\ \A i \in 1..n : t[i] = s[i]
    BY AppendProperties DEF Talks
  <1>2. \A i \in 1..n : s[i].answer \in {"unknown", "notExecuted"} =>
          s[i].kind = "result" /\ s[i].call \notin rows
    BY DEF Honest
  <1> HIDE DEF t, n
  <1>3. \A i \in 1..(n + 1) : i = n + 1 \/ i \in 1..n
    BY <1>1
  <1>4. Honest(t, rows)
    BY <1>1, <1>2, <1>3 DEF Honest
  <1> QED  BY <1>4 DEF t

(* The file and what is read back of it are typed.                         *)
LEMMA FiledTyped ==
  ASSUME TypeOK
  PROVE  /\ Filed \in Talks /\ Len(file) \in Nat /\ file \in Seq(Entry)
         /\ Filed' = History(file', Len(file'))
  <1>1. file \in Sessions /\ Len(file) \in Nat
    BY Typed
  <1>2. Len(file) \in 0..Len(file)
    BY <1>1
  <1>3. History(file, Len(file)) \in Talks
    BY <1>1, <1>2, HistoryTyped
  <1> QED  BY <1>1, <1>3 DEF Filed, Sessions

(* An entry that is filed.                                                 *)
LEMMA EntryFiled ==
  ASSUME TypeOK, leaf = Len(file), Unbranched(file),
         NEW m \in Message, NEW kind \in {"prompt", "assistant", "result", "child"},
         NEW event \in BOOLEAN, AppendEntry(m, kind, event), kind \in {m.kind, "child"}
  PROVE  /\ leaf' = Len(file') /\ Unbranched(file') /\ Len(file') = Len(file) + 1
         /\ \A i \in 1..Len(file) : file'[i] = file[i]
         /\ LET e == file'[Len(file) + 1] IN e.kind = kind /\ e.call = m.call /\ e.event = event
         /\ \A i \in 0..Len(file) : History(file', i) = History(file, i)
         /\ Filed' = IF kind = "child" THEN Filed ELSE Append(Filed, m)
         /\ AnsweredIn(file') = AnsweredIn(file) \cup {c \in {m.call} : kind = "result"}
         /\ Single(file) /\ (kind = "result" => m.call \notin AnsweredIn(file)) => Single(file')
  <1> DEFINE n == Len(file)
             e == [kind |-> kind, batch |-> m.batch, call |-> m.call,
                   answer |-> m.answer, event |-> event, parent |-> leaf]
  <1>1. n \in Nat /\ file \in Seq(Entry) /\ Filed' = History(file', Len(file'))
    BY FiledTyped
  <1>2. file' = Append(file, e) /\ leaf' = n + 1
    BY DEF AppendEntry
  <1>3. e \in Entry /\ e.parent = n /\ e.kind = kind /\ e.call = m.call /\ e.event = event
    BY <1>1 DEF Entry, Message
  <1>4. kind # "child" => Spelled(e) = m
    BY DEF Spelled, Message
  <1> HIDE DEF e
  <1>5. /\ Unbranched(file') /\ Len(file') = n + 1
        /\ file'[n + 1] = e /\ \A i \in 1..n : file'[i] = file[i]
        /\ \A i \in 0..n : History(file', i) = History(file, i)
        /\ History(file', n + 1) = IF e.kind = "child" THEN History(file, n)
                                   ELSE Append(History(file, n), Spelled(e))
    BY <1>2, <1>3, HistoryGrows
  <1>6. Filed' = IF kind = "child" THEN Filed ELSE Append(Filed, m)
    BY <1>1, <1>3, <1>4, <1>5 DEF Filed
  <1>7. /\ AnsweredIn(file') = AnsweredIn(file) \cup {c \in {e.call} : e.kind = "result"}
        /\ Single(file) /\ (e.kind = "result" => e.call \notin AnsweredIn(file)) => Single(file')
    BY <1>1, <1>2, <1>3, EntryAnswers
  <1> QED  BY <1>2, <1>3, <1>5, <1>6, <1>7

(* It keeps the file straight.                                             *)
LEMMA StraightGrows ==
  ASSUME TypeOK, FileIsStraight,
         NEW m \in Message, NEW kind \in {"prompt", "assistant", "result", "child"},
         NEW event \in BOOLEAN, AppendEntry(m, kind, event), kind \in {m.kind, "child"},
         event => kind = IF Parent[m.call] = NoCall THEN "result" ELSE "child",
         kind = "prompt" => Unresolved(Filed') = {},
         kind = "result" => m.call \notin AnsweredIn(file),
         outbox' = outbox, m.call \in Elements(outbox) /\ kind = "result" => event
  PROVE  FileIsStraight'
  <1> DEFINE n == Len(file)
             e == file'[n + 1]
  <1>1. /\ leaf = Len(file) /\ Unbranched(file) /\ EventsAreResults(file) /\ Single(file)
        /\ \A c \in Elements(outbox) : Projected(c) = {} => c \notin AnsweredIn(file)
        /\ AnsweredBeforePrompt
    BY DEF FileIsStraight
  <1>2. /\ leaf' = Len(file') /\ Unbranched(file') /\ Len(file') = n + 1
        /\ \A i \in 1..n : file'[i] = file[i]
        /\ e.kind = kind /\ e.call = m.call /\ e.event = event
        /\ \A i \in 0..n : History(file', i) = History(file, i)
        /\ AnsweredIn(file') = AnsweredIn(file) \cup {c \in {m.call} : kind = "result"}
        /\ Single(file') /\ n \in Nat /\ Filed' = History(file', n + 1)
    <2>1. n \in Nat /\ Filed' = History(file', Len(file'))
      BY FiledTyped
    <2> QED  BY <1>1, <2>1, EntryFiled
  <1> HIDE DEF e, n
  <1>3. \A i \in 1..(n + 1) : i = n + 1 \/ (i \in 1..n /\ i \in 0..n)
    BY <1>2
  <1>4. EventsAreResults(file')
    <2>1. \A i \in 1..n :
            file[i].event => file[i].kind = IF Parent[file[i].call] = NoCall THEN "result" ELSE "child"
      BY <1>1 DEF EventsAreResults, n
    <2>2. ASSUME NEW i \in 1..(n + 1), file'[i].event
          PROVE  file'[i].kind = IF Parent[file'[i].call] = NoCall THEN "result" ELSE "child"
      <3>1. CASE i = n + 1
        BY <1>2, <2>2, <3>1 DEF e
      <3>2. CASE i \in 1..n
        BY <1>2, <2>1, <2>2, <3>2
      <3> QED  BY <1>3, <3>1, <3>2
    <2> QED  BY <1>2, <2>2 DEF EventsAreResults
  <1>5. AnsweredBeforePrompt'
    <2>1. \A i \in 1..n : file[i].kind = "prompt" =>
            IssuedIn(History(file, i)) \subseteq AnsweredIn(History(file, i))
      BY <1>1 DEF AnsweredBeforePrompt, n
    <2>2. ASSUME NEW i \in 1..(n + 1), file'[i].kind = "prompt"
          PROVE  IssuedIn(History(file', i)) \subseteq AnsweredIn(History(file', i))
      <3>1. CASE i = n + 1
        <4>1. Unresolved(Filed') = {} /\ Filed' = History(file', i)
          BY <1>2, <2>2, <3>1 DEF e
        <4> QED  BY <4>1 DEF Unresolved
      <3>2. CASE i \in 1..n /\ i \in 0..n
        BY <1>2, <2>1, <2>2, <3>2
      <3> QED  BY <1>3, <3>1, <3>2
    <2> QED  BY <1>2, <2>2 DEF AnsweredBeforePrompt
  <1>6. ASSUME NEW c \in Elements(outbox), Projected(c)' = {}  PROVE c \notin AnsweredIn(file')
    <2>1. Projected(c)' = Projected(c) \cup {i \in {Len(file) + 1} : event /\ m.call = c}
      BY EntryAppended
    <2>2. Projected(c) = {} /\ ~(event /\ m.call = c)
      BY <1>6, <2>1
    <2> QED  BY <1>1, <1>2, <2>2
  <1>7. (\A c \in Elements(outbox) : Projected(c) = {} => c \notin AnsweredIn(file))'
    BY <1>6
  <1> QED  BY <1>2, <1>4, <1>5, <1>7 DEF FileIsStraight

(* The calls that are open in the file.                                    *)
LEMMA OpenCalls ==
  ASSUME IInv, FiledIsSound
  PROVE  \A c \in Calls : c \in Unresolved(Filed) <=>
           /\ Parent[c] = NoCall /\ c \in IssuedBelow(NextBatch)
           /\ c \notin AnsweredIn(file)
  <1>1. IssuedIn(Filed) = IssuedBelow(NextBatch) /\ AnsweredIn(Filed) = AnsweredIn(file)
    BY DEF FiledIsSound
  <1>2. \A c \in IssuedBelow(NextBatch) : Parent[c] = NoCall
    BY BatchesAreApart DEF IssuedBelow
  <1> QED  BY <1>1, <1>2 DEF Unresolved

(* They are calls.                                                         *)
LEMMA OpenAreCalls ==
  ASSUME IInv, FiledIsSound
  PROVE  Unresolved(Filed) \subseteq Calls /\ Unresolved(Filed) \subseteq Issued
  <1>1. IssuedIn(Filed) = IssuedBelow(NextBatch)
    BY DEF FiledIsSound
  <1>2. IssuedBelow(NextBatch) \subseteq Calls /\ IssuedBelow(NextBatch) \subseteq Issued
    BY BatchesAreApart DEF IssuedBelow, Issued
  <1> QED  BY <1>1, <1>2 DEF Unresolved

(* A result of an open call is filed.                                      *)
LEMMA ResultFiled ==
  ASSUME IInv, FileIsStraight, FiledIsSound,
         NEW c \in Unresolved(Filed), NEW a \in Answers, NEW event \in BOOLEAN,
         AppendEntry(Result(c, a), "result", event), outbox' = outbox,
         a \in {"unknown", "notExecuted"} => c \notin Elements(outbox),
         c \in Elements(outbox) => event
  PROVE  /\ FileIsStraight' /\ FiledIsSound' /\ NextBatch' = NextBatch
         /\ Filed' = Append(Filed, Result(c, a))
         /\ AnsweredIn(file') = AnsweredIn(file) \cup {c}
         /\ Unresolved(Filed') = Unresolved(Filed) \ {c}
         /\ \A d : Projected(d)' = Projected(d) \cup {i \in {Len(file) + 1} : event /\ c = d}
  <1> DEFINE m == Result(c, a)
  <1>1. c \in Calls /\ Parent[c] = NoCall /\ c \notin AnsweredIn(file)
    BY OpenCalls, OpenAreCalls
  <1>2. /\ m \in Message /\ m.kind = "result" /\ m.call = c /\ m.batch = 0 /\ m.answer = a
        /\ CallsOf(m) = <<>>
    BY <1>1, ResultTyped
  <1> HIDE DEF m
  <1>3. TypeOK /\ leaf = Len(file) /\ Unbranched(file)
    BY Conjuncts DEF FileIsStraight
  <1>4. /\ AppendEntry(m, "result", event)
        /\ "result" \in {"prompt", "assistant", "result", "child"} /\ "result" \in {m.kind, "child"}
    BY <1>2 DEF m
  <1>5. /\ Filed' = Append(Filed, m)
        /\ AnsweredIn(file') = AnsweredIn(file) \cup {c}
    BY <1>2, <1>3, <1>4, EntryFiled
  <1>6. FileIsStraight'
    BY <1>1, <1>2, <1>3, <1>4, StraightGrows
  <1>7. /\ NextBatch' = NextBatch
        /\ \A d : Projected(d)' = Projected(d) \cup {i \in {Len(file) + 1} : event /\ c = d}
    BY <1>2, <1>3, <1>4, EntryAppended
  <1>8. Filed \in Talks
    BY <1>3, FiledTyped
  <1>9. /\ IssuedIn(Filed') = IssuedIn(Filed)
        /\ AnsweredIn(Filed') = AnsweredIn(Filed) \cup {c}
        /\ Paired(Filed')
    <2>1. Elements(CallsOf(m)) = {}
      BY <1>2, EmptyQueue
    <2>2. Paired(Filed)
      BY DEF FiledIsSound
    <2> QED  BY <1>2, <1>5, <1>8, <2>1, <2>2, Spoken
  <1>10. OpenIsLast(Filed')
    <2>1. OpenIsLast(Filed)
      BY DEF FiledIsSound
    <2> QED  BY <1>2, <1>5, <1>8, <2>1, OpenGrows
  <1>11. Honest(Filed', Elements(outbox))
    <2>1. Honest(Filed, Elements(outbox))
      BY DEF FiledIsSound
    <2> QED  BY <1>2, <1>5, <1>8, <2>1, HonestGrows
  <1>12. FiledIsSound'
    <2>1. IssuedIn(Filed) = IssuedBelow(NextBatch) /\ AnsweredIn(Filed) = AnsweredIn(file)
      BY DEF FiledIsSound
    <2>2. IssuedIn(Filed') = IssuedBelow(NextBatch') /\ AnsweredIn(Filed') = AnsweredIn(file')
      BY <1>5, <1>7, <1>9, <2>1
    <2>3. Elements(outbox') = Elements(outbox)
      OBVIOUS
    <2> QED  BY <1>9, <1>10, <1>11, <2>2, <2>3 DEF FiledIsSound
  <1>13. Unresolved(Filed') = Unresolved(Filed) \ {c}
    BY <1>9 DEF Unresolved
  <1> QED  BY <1>5, <1>6, <1>7, <1>12, <1>13 DEF m

(* The row of a call that ran inside another one is filed.                 *)
LEMMA ChildFiled ==
  ASSUME IInv, FileIsStraight, FiledIsSound, NEW c \in Calls, Parent[c] # NoCall,
         AppendEntry(Result(c, "actual"), "child", TRUE), outbox' = outbox
  PROVE  /\ FileIsStraight' /\ FiledIsSound' /\ NextBatch' = NextBatch
         /\ Filed' = Filed
         /\ AnsweredIn(file') = AnsweredIn(file)
         /\ \A d : Projected(d)' = Projected(d) \cup {i \in {Len(file) + 1} : c = d}
  <1> DEFINE m == Result(c, "actual")
  <1>1. m \in Message /\ m.kind = "result" /\ m.call = c /\ m.batch = 0
    BY ResultTyped DEF Answers
  <1> HIDE DEF m
  <1>2. TypeOK /\ leaf = Len(file) /\ Unbranched(file)
    BY Conjuncts DEF FileIsStraight
  <1>3. /\ AppendEntry(m, "child", TRUE) /\ TRUE \in BOOLEAN
        /\ "child" \in {"prompt", "assistant", "result", "child"} /\ "child" \in {m.kind, "child"}
    BY DEF m
  <1>4. Filed' = Filed /\ AnsweredIn(file') = AnsweredIn(file)
    BY <1>1, <1>2, <1>3, EntryFiled
  <1>5. FileIsStraight'
    BY <1>1, <1>2, <1>3, StraightGrows
  <1>6. /\ NextBatch' = NextBatch
        /\ \A d : Projected(d)' = Projected(d) \cup {i \in {Len(file) + 1} : c = d}
    <2>1. /\ NextBatch' = NextBatch
          /\ \A d : Projected(d)' = Projected(d) \cup {i \in {Len(file) + 1} : TRUE /\ m.call = d}
      BY <1>1, <1>2, <1>3, EntryAppended, Zenon
    <2> QED  BY <1>1, <2>1
  <1>7. FiledIsSound'
    BY <1>4, <1>6 DEF FiledIsSound
  <1> QED  BY <1>4, <1>5, <1>6, <1>7

(* A prompt or an answer of the provider is filed when nothing is open.    *)
LEMMA QuestionFiled ==
  ASSUME IInv, FileIsStraight, FiledIsSound, Unresolved(Filed) = {},
         NEW m \in Message, m.kind \in {"prompt", "assistant"}, m.answer = "none",
         AppendEntry(m, m.kind, FALSE), outbox' = outbox, m.kind = "prompt" => CallsOf(m) = <<>>,
         IssuedBelow(NextBatch') = IssuedBelow(NextBatch) \cup Elements(CallsOf(m))
  PROVE  /\ FileIsStraight' /\ FiledIsSound'
         /\ Filed' = Append(Filed, m)
         /\ AnsweredIn(file') = AnsweredIn(file)
         /\ \A d : Projected(d)' = Projected(d)
  <1>1. TypeOK /\ leaf = Len(file) /\ Unbranched(file)
    BY Conjuncts DEF FileIsStraight
  <1>2. /\ FALSE \in BOOLEAN /\ m.kind \in {"prompt", "assistant", "result", "child"}
        /\ m.kind \in {m.kind, "child"} /\ m.kind # "result" /\ m.kind # "child"
    OBVIOUS
  <1>3. Filed' = Append(Filed, m) /\ AnsweredIn(file') = AnsweredIn(file)
    BY <1>1, <1>2, EntryFiled
  <1>4. \A d : Projected(d)' = Projected(d)
    <2>1. \A d : Projected(d)' = Projected(d) \cup {i \in {Len(file) + 1} : FALSE /\ m.call = d}
      BY <1>1, <1>2, EntryAppended, Zenon
    <2> QED  BY <2>1
  <1>5. Filed \in Talks
    BY <1>1, FiledTyped
  <1>6. /\ IssuedIn(Filed') = IssuedIn(Filed) \cup Elements(CallsOf(m))
        /\ AnsweredIn(Filed') = AnsweredIn(Filed)
        /\ Paired(Filed')
    <2>1. Paired(Filed)
      BY DEF FiledIsSound
    <2> QED  BY <1>2, <1>3, <1>5, <2>1, Spoken
  <1>7. m.kind = "prompt" => Unresolved(Filed') = {}
    BY <1>6, EmptyQueue DEF Unresolved
  <1>8. FileIsStraight'
    BY <1>1, <1>2, <1>7, StraightGrows
  <1>9. OpenIsLast(Filed')
    <2>1. OpenIsLast(Filed)
      BY DEF FiledIsSound
    <2> QED  BY <1>3, <1>5, <2>1, OpenGrows
  <1>10. Honest(Filed', Elements(outbox))
    <2>1. Honest(Filed, Elements(outbox)) /\ m.answer \notin {"unknown", "notExecuted"}
      BY DEF FiledIsSound
    <2> QED  BY <1>3, <1>5, <2>1, HonestGrows
  <1>11. FiledIsSound'
    <2>1. IssuedIn(Filed) = IssuedBelow(NextBatch) /\ AnsweredIn(Filed) = AnsweredIn(file)
      BY DEF FiledIsSound
    <2>2. IssuedIn(Filed') = IssuedBelow(NextBatch') /\ AnsweredIn(Filed') = AnsweredIn(file')
      BY <1>3, <1>6, <2>1
    <2>3. Elements(outbox') = Elements(outbox)
      OBVIOUS
    <2> QED  BY <1>6, <1>9, <1>10, <2>2, <2>3 DEF FiledIsSound
  <1> QED  BY <1>3, <1>4, <1>8, <1>11

(* A file that stays as it is.                                             *)
LEMMA FileStays ==
  ASSUME FileIsStraight, FiledIsSound, file' = file, leaf' = leaf, outbox' = outbox
  PROVE  /\ FileIsStraight' /\ FiledIsSound' /\ NextBatch' = NextBatch
         /\ Filed' = Filed /\ \A d : Projected(d)' = Projected(d)
  <1>1. NextBatch' = NextBatch /\ \A d : Projected(d)' = Projected(d)
    BY SameFile
  <1>2. Filed' = Filed
    BY DEF Filed
  <1>3. AnsweredBeforePrompt => AnsweredBeforePrompt'
    BY DEF AnsweredBeforePrompt
  <1>4. FileIsStraight'
    BY <1>1, <1>3 DEF FileIsStraight
  <1>5. FiledIsSound'
    BY <1>1, <1>2 DEF FiledIsSound
  <1> QED  BY <1>1, <1>2, <1>4, <1>5

-----------------------------------------------------------------------------
(* What the invariant says in a state.                                     *)

(* Its parts, and what they are made of.                                   *)
LEMMA SteadyParts ==
  ASSUME IInv, SteadyInv
  PROVE  /\ FileIsStraight /\ FiledIsSound /\ HeardIsFiled /\ NothingIsLeft /\ HandIsCommitted
         /\ TypeOK /\ SessionIsSound /\ OutboxIsSound /\ HandIsSound /\ RowsAreInOrder
         /\ TalkIsSound /\ AcknowledgedIsInSession
         /\ Filed \in Talks /\ Paired(Filed) /\ OpenIsLast(Filed)
         /\ leaf = Len(file) /\ Len(file) \in Nat
         /\ Unresolved(Filed) \subseteq Calls /\ NoCall \notin Unresolved(Filed)
         /\ NoCall \notin Issued /\ NoCall \notin Calls
  <1>1. NoCall \notin Issued /\ NoCall \notin Calls
    BY PublicationAssumption
  <1>2. TypeOK /\ FiledIsSound /\ FileIsStraight
    BY DEF IInv, SteadyInv
  <1>3. Filed \in Talks /\ Len(file) \in Nat
    BY <1>2, FiledTyped
  <1>4. Unresolved(Filed) \subseteq Calls
    BY <1>2, OpenAreCalls
  <1> QED  BY <1>1, <1>2, <1>3, <1>4 DEF IInv, SteadyInv, FiledIsSound, FileIsStraight

(* Between the writes of a result the conversation is what is filed.       *)
LEMMA HeardPlain ==
  ASSUME IInv, SteadyInv
  PROVE  /\ todo = <<>> => fresh = NoCall
         /\ phase \notin Replaying \cup {"projecting"} => todo = <<>> /\ fresh = NoCall
         /\ phase # "projecting" /\ fresh \notin Issued => messages = Filed
         /\ phase \notin Replaying \cup {"projecting"} => messages = Filed
  <1>1. HeardIsFiled /\ NothingIsLeft /\ RowsAreInOrder /\ NoCall \notin Issued
    BY SteadyParts
  <1> QED  BY <1>1 DEF HeardIsFiled, NothingIsLeft, RowsAreInOrder

(* A row that is projected answers its call in the file.                   *)
LEMMA ProjectedAnswers ==
  ASSUME IInv, SteadyInv, NEW c \in Calls, Parent[c] = NoCall, Projected(c) # {}
  PROVE  c \in AnsweredIn(file)
  <1>1. PICK i \in 1..Len(file) : file[i].event /\ file[i].call = c
    BY DEF Projected
  <1>2. file[i].kind = "result"
    BY <1>1, SteadyParts DEF FileIsStraight, EventsAreResults
  <1>3. file \in Seq(Entry)
    BY SteadyParts, FiledTyped
  <1> QED  BY <1>1, <1>2, <1>3, InTalk

(* A committed call that is open in the file is not projected; without one *)
(* nothing that is acknowledged is open.                                   *)
LEMMA AcknowledgedIsClosed ==
  ASSUME IInv, SteadyInv
  PROVE  /\ \A c \in Unresolved(Filed) : Projected(c) = {} /\ c \notin acked
         /\ Elements(outbox) \subseteq acked => Unresolved(Filed) \cap Elements(outbox) = {}
  <1>1. ASSUME NEW c \in Unresolved(Filed)  PROVE Projected(c) = {} /\ c \notin acked
    <2>1. c \in Calls /\ Parent[c] = NoCall /\ c \notin AnsweredIn(file)
      BY SteadyParts, OpenCalls
    <2>2. Projected(c) = {}
      BY <2>1, ProjectedAnswers
    <2> QED  BY <2>2, SteadyParts DEF AcknowledgedIsInSession
  <1> QED  BY <1>1

(* A row whose call is not open any more is projected.                     *)
LEMMA UnprojectedIsOpen ==
  ASSUME IInv, SteadyInv, NEW c \in Elements(outbox), Parent[c] = NoCall, Projected(c) = {}
  PROVE  c \in Unresolved(Filed)
  <1>1. c \in Calls
    BY Conjuncts
  <1>2. c \in IssuedBelow(NextBatch)
    BY SteadyParts DEF OutboxIsSound, Root
  <1>3. c \notin AnsweredIn(file)
    BY SteadyParts DEF FileIsStraight
  <1> QED  BY <1>1, <1>2, <1>3, SteadyParts, OpenCalls

(* Rows that are all read leave none pending.                              *)
LEMMA NoneIsPending ==
  ASSUME IInv, PendingRows = <<>>
  PROVE  Elements(outbox) \subseteq acked
  <1>1. Pending = <<>> /\ outbox \in Seq(Calls)
    BY Conjuncts, RowsRead
  <1>2. Elements(Pending) = Elements(outbox) \cap (Calls \ acked)
    BY <1>1, KeepElements DEF Pending
  <1>3. Elements(outbox) \subseteq Calls
    BY <1>1, ElementsTyped
  <1> QED  BY <1>1, <1>2, <1>3, EmptyQueue

(* The hand is empty or stays as it is.                                    *)
LEMMA HandFrame ==
  ASSUME HandIsCommitted, UNCHANGED <<queue, got, outbox>>
  PROVE  HandIsCommitted'
  BY DEF HandIsCommitted

-----------------------------------------------------------------------------
(* The steps.                                                              *)

(* The program starts with nothing.                                        *)
LEMMA InitSteady == Init => SteadyInv
  <1> SUFFICES ASSUME Init  PROVE SteadyInv
    OBVIOUS
  <1>1. /\ Elements(<<>>) = {} /\ Len(<<>>) = 0 /\ 1..0 = {}
        /\ \A A : <<>> \in Seq(A)
    BY EmptyQueue, EmptySeq
  <1>2. IInv
    BY InitSound
  <1>3. TypeOK /\ file = <<>> /\ leaf = 0 /\ messages = <<>> /\ outbox = <<>> /\ acked = {}
        /\ phase = "idle" /\ queue = <<>> /\ todo = <<>> /\ fresh = NoCall
        /\ \A c \in Calls : got[c] = "none"
    BY <1>2 DEF Init, IInv, NotStarted
  <1>4. Unbranched(file) /\ 0 \in 0..Len(file)
    BY <1>1, <1>3 DEF Unbranched, Sessions
  <1>5. Filed = <<>>
    <2> DEFINE path == Keep(Upto(0), {k \in 1..Len(file) : file[k].kind # "child"})
    <2>1. /\ Filed = [k \in 1..Len(path) |-> Spelled(file[path[k]])]
          /\ path \in Seq(1..0) /\ Len(path) \in Nat
      BY <1>1, <1>3, <1>4, UnbranchedHistory DEF Filed
    <2> HIDE DEF path
    <2>2. Elements(path) = {}
      BY <1>1, <2>1, ElementsTyped
    <2>3. Len(path) = 0
      <3>1. Len(path) \in Nat
        BY <2>1, Zenon
      <3>2. PICK l : l = Len(path)
        OBVIOUS
      <3>3. l \in Nat
        BY <3>1, <3>2, Zenon
      <3>4. l # 0 => 1 \in 1..l
        BY <3>3
      <3>5. Elements(path) = {path[k] : k \in 1..l}
        BY <3>2, Zenon DEF Elements
      <3>6. l # 0 => path[1] \in Elements(path)
        BY <3>4, <3>5
      <3>7. l = 0
        BY <2>2, <3>6
      <3> QED  BY <3>2, <3>7, Zenon
    <2>4. Filed \in Talks
      BY <1>3, FiledTyped
    <2>5. Filed \in [1..0 -> Message]
      <3>1. Filed = [k \in 1..0 |-> Spelled(file[path[k]])]
        BY <2>1, <2>3
      <3> QED  BY <1>1, <3>1
    <2>6. Len(Filed) = 0
      BY <2>5, SequenceOf
    <2> QED  BY <2>4, <2>6, EmptySeq DEF Talks
  <1>6. NextBatch = 1 /\ IssuedBelow(1) = {}
    <2>1. NextBatch \in Nat /\ NextBatch >= 1
      BY <1>3, Typed
    <2>2. {i \in 1..Len(file) : file[i].kind = "assistant" /\ file[i].batch > 0} = {}
      BY <1>1, <1>3
    <2>3. NextBatch = 1
      BY <2>2, FS_EmptySet DEF NextBatch
    <2>4. \A k \in DOMAIN Batches : ~(k < 1)
      <3>1. DOMAIN Batches = 1..Len(Batches)
        BY PublicationAssumption
      <3> QED  BY <3>1
    <2> QED  BY <2>3, <2>4 DEF IssuedBelow
  <1>7. IssuedIn(<<>>) = {} /\ AnsweredIn(<<>>) = {}
    <2>1. <<>> \in Seq(Nat)
      BY <1>1
    <2>2. \A c : c \notin IssuedIn(<<>>) /\ c \notin AnsweredIn(<<>>)
      BY <1>1, <2>1, InTalk
    <2> QED  BY <2>2
  <1>8. FileIsStraight
    BY <1>1, <1>3, <1>4 DEF FileIsStraight, EventsAreResults, Single, AnsweredBeforePrompt
  <1>9. FiledIsSound
    BY <1>1, <1>3, <1>5, <1>6, <1>7 DEF FiledIsSound, Paired, OpenIsLast, Honest
  <1>10. HeardIsFiled
    BY <1>3, <1>5 DEF HeardIsFiled, Replaying
  <1>11. NothingIsLeft
    BY <1>3 DEF NothingIsLeft
  <1>12. HandIsCommitted
    BY <1>1, <1>3 DEF HandIsCommitted
  <1> QED  BY <1>8, <1>9, <1>10, <1>11, <1>12 DEF SteadyInv

(* Nothing happens.                                                        *)
LEMMA StutterSteady ==
  ASSUME IInv, SteadyInv, UNCHANGED vars
  PROVE  SteadyInv'
  <1> USE DEF vars
  <1>1. /\ FileIsStraight' /\ FiledIsSound' /\ Filed' = Filed
        /\ \A d : Projected(d)' = Projected(d)
    BY SteadyParts, FileStays
  <1>2. HandIsCommitted'
    BY SteadyParts, HandFrame
  <1>3. HeardIsFiled'
    BY <1>1, SteadyParts DEF HeardIsFiled
  <1>4. NothingIsLeft'
    BY <1>1, SteadyParts DEF NothingIsLeft
  <1> QED  BY <1>1, <1>2, <1>3, <1>4 DEF SteadyInv

(* A prompt.                                                               *)
LEMMA PromptSteady ==
  ASSUME IInv, SteadyInv, Prompt
  PROVE  SteadyInv'
  <1> USE DEF journal, session
  <1>1. /\ phase = "idle"
        /\ phase' = IF Unresolved(messages) = {} THEN "asking" ELSE "closing"
        /\ UNCHANGED <<effect, outbox, acked, file, leaf, messages, queue, got, todo, fresh>>
    BY DEF Prompt
  <1>2. /\ FileIsStraight' /\ FiledIsSound' /\ Filed' = Filed
        /\ \A d : Projected(d)' = Projected(d)
    BY <1>1, SteadyParts, FileStays
  <1>3. HandIsCommitted'
    BY <1>1, SteadyParts, HandFrame
  <1>4. fresh = NoCall /\ todo = <<>> /\ messages = Filed
    BY <1>1, HeardPlain DEF Replaying
  <1>5. HeardIsFiled'
    BY <1>1, <1>2, <1>4, SteadyParts DEF HeardIsFiled
  <1>6. NothingIsLeft'
    BY <1>1, <1>2, <1>4 DEF NothingIsLeft
  <1> QED  BY <1>2, <1>3, <1>5, <1>6 DEF SteadyInv

(* A conversation without duplicates and orphans is left as it is.         *)
LEMMA NothingDropped ==
  ASSUME NEW s \in Talks, Paired(s)
  PROVE  Withhold(s) = s /\ DropDuplicates(s) = s
  <1>1. s \in Seq(Message)
    BY DEF Talks
  <1>2. 1..Len(s) \subseteq
          {i \in 1..Len(s) : s[i].kind = "result" => s[i].call \notin AnsweredBefore(s, i)}
    BY DEF Paired
  <1>3. 1..Len(s) \subseteq
          {i \in 1..Len(s) : s[i].kind = "result" => s[i].call \in IssuedBefore(s, i)}
    BY DEF Paired
  <1> QED  BY <1>1, <1>2, <1>3, PickAll DEF Withhold, DropDuplicates

(* The prompt is appended.                                                 *)
LEMMA AskSteady ==
  ASSUME IInv, SteadyInv, Ask
  PROVE  SteadyInv'
  <1> USE DEF journal, turn
  <1>1. /\ phase = "asking" /\ phase' = "replaying"
        /\ AppendEntry(Prompted, "prompt", FALSE)
        /\ messages' = Withhold(DropDuplicates(Append(messages, Prompted)))
        /\ UNCHANGED <<effect, outbox, acked, queue, got, prompts, todo, fresh>>
    BY DEF Ask
  <1>2. /\ Prompted \in Message /\ Prompted.kind = "prompt" /\ Prompted.batch = 0
        /\ Prompted.answer = "none" /\ CallsOf(Prompted) = <<>>
    <2>1. Len(Batches) \in Nat
      BY PublicationAssumption
    <2> QED  BY <2>1 DEF Prompted, Message, Answers, CallsOf
  <1>3. fresh = NoCall /\ todo = <<>> /\ messages = Filed
    BY <1>1, HeardPlain DEF Replaying
  <1>4. Unresolved(Filed) = {}
    BY <1>1, SteadyParts DEF NothingIsLeft
  <1>5. NextBatch' = NextBatch
    BY <1>1, <1>2, SteadyParts, Conjuncts, PlainEntry
  <1>6. /\ FileIsStraight' /\ FiledIsSound' /\ Filed' = Append(Filed, Prompted)
        /\ \A d : Projected(d)' = Projected(d)
    <2>1. IssuedBelow(NextBatch') = IssuedBelow(NextBatch) \cup Elements(CallsOf(Prompted))
      BY <1>2, <1>5, EmptyQueue
    <2>2. AppendEntry(Prompted, Prompted.kind, FALSE)
      BY <1>1, <1>2
    <2> QED  BY <1>1, <1>2, <1>4, <2>1, <2>2, SteadyParts, QuestionFiled
  <1>7. Append(Filed, Prompted) \in Talks /\ Paired(Append(Filed, Prompted))
        /\ Unresolved(Append(Filed, Prompted)) = {}
    <2>1. Filed \in Talks /\ Paired(Filed)
      BY SteadyParts
    <2>2. /\ IssuedIn(Append(Filed, Prompted)) = IssuedIn(Filed) \cup Elements(CallsOf(Prompted))
          /\ AnsweredIn(Append(Filed, Prompted))
               = AnsweredIn(Filed) \cup {c \in {Prompted.call} : Prompted.kind = "result"}
          /\ Append(Filed, Prompted) \in Talks
          /\ (Prompted.kind = "result" => Prompted.call \in Unresolved(Filed)) =>
               Paired(Append(Filed, Prompted))
      BY <1>2, <2>1, Spoken
    <2>3. {c \in {Prompted.call} : Prompted.kind = "result"} = {}
      BY <1>2
    <2> QED  BY <1>2, <1>4, <2>2, <2>3, EmptyQueue DEF Unresolved
  <1>8. messages' = Filed'
    BY <1>1, <1>3, <1>6, <1>7, NothingDropped
  <1>9. HandIsCommitted'
    BY <1>1, SteadyParts, HandFrame
  <1>10. HeardIsFiled'
    BY <1>1, <1>3, <1>8, SteadyParts DEF HeardIsFiled
  <1>11. NothingIsLeft'
    BY <1>1, <1>3, <1>6, <1>7 DEF NothingIsLeft
  <1> QED  BY <1>6, <1>9, <1>10, <1>11 DEF SteadyInv

(* Rows are read, or there are none any more.                              *)
LEMMA ReadOutboxSteady ==
  ASSUME IInv, SteadyInv, ReadOutbox
  PROVE  SteadyInv'
  <1> USE DEF journal, session, turn
  <1>1. /\ phase \in Replaying /\ todo = <<>>
        /\ UNCHANGED <<effect, outbox, acked, file, leaf, queue, got, prompts, fresh>>
    BY DEF ReadOutbox
  <1>2. /\ FileIsStraight' /\ FiledIsSound' /\ Filed' = Filed
        /\ \A d : Projected(d)' = Projected(d)
    BY <1>1, SteadyParts, FileStays
  <1>3. HandIsCommitted'
    BY <1>1, SteadyParts, HandFrame
  <1>4. fresh = NoCall /\ messages = Filed /\ phase \in {"closing", "replaying"}
    BY <1>1, HeardPlain, SteadyParts DEF Replaying, NothingIsLeft
  <1>5. CASE todo' = PendingRows /\ UNCHANGED <<messages, phase>>
    <2>1. HeardIsFiled'
      BY <1>1, <1>2, <1>4, <1>5, SteadyParts DEF HeardIsFiled
    <2>2. NothingIsLeft'
      BY <1>1, <1>2, <1>4, <1>5, SteadyParts DEF NothingIsLeft
    <2> QED  BY <1>2, <1>3, <2>1, <2>2 DEF SteadyInv
  <1>6. CASE /\ PendingRows = <<>>
             /\ messages' = IF phase = "replaying" THEN Withhold(messages) ELSE messages
             /\ phase' = CASE phase = "closing" -> "closed"
                           [] phase = "reconciling" -> "reconciled"
                           [] OTHER -> IF Unresolved(messages') = {}
                                       THEN "provider" ELSE "reconciling"
             /\ UNCHANGED todo
    <2>1. Elements(outbox) \subseteq acked
      BY <1>6, NoneIsPending
    <2>2. messages' = Filed
      BY <1>4, <1>6, SteadyParts, NothingDropped
    <2>3. \/ phase' = "closed"
          \/ phase' = "provider" /\ Unresolved(Filed) = {}
      <3>1. CASE phase = "closing"
        BY <1>6, <3>1
      <3>2. CASE phase = "replaying"
        <4>1. Unresolved(Filed) = {}
          BY <3>2, SteadyParts DEF NothingIsLeft
        <4> QED  BY <1>6, <2>2, <3>2, <4>1
      <3> QED  BY <1>4, <3>1, <3>2
    <2>4. HeardIsFiled'
      BY <1>1, <1>2, <1>4, <2>2, <2>3, SteadyParts DEF HeardIsFiled, Replaying
    <2>5. NothingIsLeft'
      BY <1>1, <1>2, <1>4, <1>6, <2>1, <2>3 DEF NothingIsLeft
    <2> QED  BY <1>2, <1>3, <2>4, <2>5 DEF SteadyInv
  <1> QED  BY <1>5, <1>6 DEF ReadOutbox

(* A row becomes an entry.                                                 *)
LEMMA AppendProjectionSteady ==
  ASSUME IInv, SteadyInv, AppendProjection
  PROVE  SteadyInv'
  <1> USE DEF journal, turn
  <1>0. PICK c : c = Head(todo)
    OBVIOUS
  <1>1. /\ phase \in Replaying \cup {"projecting"} /\ todo # <<>> /\ fresh = NoCall
        /\ Projected(c) = {}
        /\ AppendEntry(Result(c, "actual"), IF Parent[c] = NoCall THEN "result" ELSE "child", TRUE)
        /\ fresh' = c
        /\ UNCHANGED <<effect, outbox, acked, messages, phase, queue, got, prompts, todo>>
    BY <1>0 DEF AppendProjection, Projecting, Unprojected
  <1>2. c \in Elements(todo) /\ c \in Elements(outbox) /\ c \in Calls
    <2>1. todo \in Seq(Calls) /\ Elements(todo) \subseteq Elements(outbox)
      BY SteadyParts DEF TypeOK, RowsAreInOrder
    <2> QED  BY <1>0, <1>1, <2>1, TakenQueue
  <1>3. /\ NothingIsLeft /\ HeardIsFiled /\ NoCall \notin Issued
        /\ Filed \in Talks /\ FileIsStraight /\ FiledIsSound
    BY SteadyParts
  <1>4. HandIsCommitted'
    BY <1>1, SteadyParts, HandFrame
  <1>5. "actual" \in Answers /\ TRUE \in BOOLEAN
    BY DEF Answers
  <1>6. ASSUME \A d : Projected(d)' = Projected(d) \cup {i \in {Len(file) + 1} : c = d},
               phase \in {"asking", "replaying", "provider"} => Unresolved(Filed') = {},
               FiledIsSound'
        PROVE  NothingIsLeft'
    <2>1. Projected(fresh)' # {}
      <3>1. Projected(fresh)' = Projected(c)'
        BY <1>1 DEF Projected
      <3> QED  BY <1>6, <3>1
    <2> QED  BY <1>0, <1>1, <1>3, <1>6, <2>1 DEF NothingIsLeft
  <1>7. CASE Parent[c] = NoCall
    <2>1. c \in Unresolved(Filed)
      BY <1>1, <1>2, <1>7, UnprojectedIsOpen
    <2>2. phase \in {"closing", "projecting"}
      BY <1>1, <1>3, <2>1 DEF NothingIsLeft, Replaying
    <2>3. AppendEntry(Result(c, "actual"), "result", TRUE)
      BY <1>1, <1>7
    <2>4. /\ FileIsStraight' /\ FiledIsSound'
          /\ Filed' = Append(Filed, Result(c, "actual"))
          /\ AnsweredIn(file') = AnsweredIn(file) \cup {c}
          /\ \A d : Projected(d)' = Projected(d) \cup {i \in {Len(file) + 1} : TRUE /\ c = d}
      BY <1>1, <1>3, <1>5, <2>1, <2>3, ResultFiled
    <2>5. c \in Issued /\ c \notin AnsweredIn(file)
      BY <1>2, <1>3, <2>1, OpenCalls, OpenAreCalls
    <2>6. HeardIsFiled'
      <3>1. CASE phase = "closing"
        <4>1. messages = Filed
          BY <1>1, <1>3, <3>1 DEF HeardIsFiled
        <4> QED  BY <1>1, <2>4, <2>5, <3>1, <4>1 DEF HeardIsFiled, Replaying
      <3>2. CASE phase = "projecting"
        <4>1. Root(c) = c /\ Root(c) = Head(queue)
          BY <1>2, <1>3, <1>7, <3>2 DEF NothingIsLeft, Root
        <4>2. messages = Append(Filed, Result(c, "actual"))
          BY <1>3, <2>5, <3>2, <4>1 DEF HeardIsFiled
        <4> QED  BY <1>1, <2>4, <3>2, <4>1, <4>2 DEF HeardIsFiled, Replaying
      <3> QED  BY <2>2, <3>1, <3>2
    <2>7. NothingIsLeft'
      BY <1>6, <2>2, <2>4
    <2> QED  BY <1>4, <2>4, <2>6, <2>7 DEF SteadyInv
  <1>8. CASE Parent[c] # NoCall
    <2>1. AppendEntry(Result(c, "actual"), "child", TRUE)
      BY <1>1, <1>8
    <2>2. /\ FileIsStraight' /\ FiledIsSound' /\ Filed' = Filed
          /\ AnsweredIn(file') = AnsweredIn(file)
          /\ \A d : Projected(d)' = Projected(d) \cup {i \in {Len(file) + 1} : c = d}
      BY <1>1, <1>2, <1>3, <1>8, <2>1, ChildFiled
    <2>3. c \notin Issued
      BY <1>8, PublicationAssumption
    <2>4. HeardIsFiled'
      BY <1>1, <1>3, <2>2, <2>3 DEF HeardIsFiled
    <2>5. phase \in {"asking", "replaying", "provider"} => Unresolved(Filed') = {}
      BY <1>3, <2>2 DEF NothingIsLeft
    <2>6. NothingIsLeft'
      BY <1>6, <2>2, <2>5
    <2> QED  BY <1>4, <2>2, <2>4, <2>6 DEF SteadyInv
  <1> QED  BY <1>7, <1>8

(* The harness answers a call, or nothing is open any more.                *)
LEMMA RepairSteady ==
  ASSUME IInv, SteadyInv, Repair
  PROVE  SteadyInv'
  <1> USE DEF journal, session, turn
  <1> DEFINE n == Len(messages)
             assistants == {i \in 1..n : messages[i].kind = "assistant"}
             open == {i \in assistants : Elements(CallsOf(messages[i])) \cap Unresolved(messages) # {}}
             c(i) == Head(Keep(CallsOf(messages[i]), Unresolved(messages)))
             ends(i) == {j \in i + 1..n : messages[j].kind # "result"}
             at(i) == IF ends(i) = {} THEN n + 1
                      ELSE CHOOSE j \in ends(i) : \A k \in ends(i) : j <= k
             m(i) == Result(c(i), RepairAnswer(c(i)))
             durable(i) == at(i) = n + 1 /\ \A j \in assistants : j <= i
  <1>1. /\ phase = "closed" /\ messages = Filed
        /\ UNCHANGED <<effect, outbox, acked, queue, got, prompts, todo, fresh>>
    <2>1. phase \in {"closed", "reconciled"}
          /\ UNCHANGED <<effect, outbox, acked, queue, got, prompts, todo, fresh>>
      BY DEF Repair
    <2>2. phase = "closed"
      BY <2>1, SteadyParts DEF NothingIsLeft
    <2> QED  BY <2>1, <2>2, HeardPlain DEF Replaying
  <1>2. \/ \E i \in open : /\ messages' = InsertAt(messages, at(i), m(i))
                           /\ IF durable(i) THEN AppendEntry(m(i), "result", FALSE)
                              ELSE UNCHANGED <<file, leaf>>
                           /\ phase' = phase
        \/ /\ Unresolved(messages) = {}
           /\ phase' = IF phase = "closed" THEN "asking" ELSE "provider"
           /\ UNCHANGED <<file, leaf, messages>>
    BY DEF Repair
  <1>3. /\ messages \in Talks /\ n \in Nat /\ FileIsStraight /\ FiledIsSound
        /\ OpenIsLast(messages) /\ NothingIsLeft
    <2>1. /\ Filed \in Talks /\ OpenIsLast(Filed) /\ NothingIsLeft
          /\ FileIsStraight /\ FiledIsSound
      BY SteadyParts
    <2> QED  BY <1>1, <2>1 DEF Talks
  <1>4. todo = <<>> /\ fresh = NoCall
    BY <1>1, HeardPlain DEF Replaying
  <1>5. HandIsCommitted'
    BY <1>1, SteadyParts, HandFrame
  <1>6. CASE \E i \in open : /\ messages' = InsertAt(messages, at(i), m(i))
                             /\ IF durable(i) THEN AppendEntry(m(i), "result", FALSE)
                                ELSE UNCHANGED <<file, leaf>>
                             /\ phase' = phase
    <2>1. PICK i \in open : /\ messages' = InsertAt(messages, at(i), m(i))
                            /\ IF durable(i) THEN AppendEntry(m(i), "result", FALSE)
                               ELSE UNCHANGED <<file, leaf>>
                            /\ phase' = phase
      BY <1>6
    <2>2. /\ i \in 1..n
          /\ Elements(CallsOf(messages[i])) \cap Unresolved(messages) # {}
      OBVIOUS
    <2>3. \A j \in 1..n : i < j => messages[j].kind = "result"
      BY <1>3, <2>2 DEF OpenIsLast
    <2>4. ends(i) = {} /\ durable(i)
      <3>1. ends(i) = {}
        BY <1>3, <2>2, <2>3
      <3>2. \A j \in assistants : j <= i
        BY <1>3, <2>2, <2>3
      <3> QED  BY <3>1, <3>2
    <2>5. CallsOf(messages[i]) \in Seq(Calls)
      <3>1. messages[i] \in Message
        BY <1>3, <2>2, ElementOfSeq DEF Talks
      <3>2. messages[i].batch \in 0..Len(Batches)
        BY <3>1 DEF Message
      <3> QED  BY <3>2, CallsTyped
    <2>6. c(i) \in Unresolved(messages)
      <3> DEFINE K == Keep(CallsOf(messages[i]), Unresolved(messages))
      <3>1. K \in Seq(Calls)
            /\ Elements(K) = Elements(CallsOf(messages[i])) \cap Unresolved(messages)
        BY <2>5, KeepSifts, KeepElements
      <3> HIDE DEF K
      <3>2. K # <<>>
        BY <2>2, <3>1, EmptyQueue
      <3>3. Head(K) \in Elements(K)
        BY <3>1, <3>2, TakenQueue
      <3> QED  BY <3>1, <3>3 DEF K
    <2>7. PICK d : d = c(i)
      OBVIOUS
    <2>8. /\ messages' = InsertAt(messages, n + 1, Result(d, RepairAnswer(d)))
          /\ AppendEntry(Result(d, RepairAnswer(d)), "result", FALSE)
          /\ phase' = "closed"
      BY <1>1, <2>1, <2>4, <2>7
    <2>9. d \in Unresolved(Filed) /\ RepairAnswer(d) \in Answers /\ d \in Calls
      BY <1>1, <2>6, <2>7, SteadyParts DEF RepairAnswer, Answers
    <2> HIDE DEF n, assistants, open, c, ends, at, m, durable
    <2>10. Elements(outbox) \subseteq acked /\ d \notin Elements(outbox)
      BY <1>1, <1>3, <2>9, AcknowledgedIsClosed DEF NothingIsLeft
    <2>11. /\ FileIsStraight' /\ FiledIsSound'
           /\ Filed' = Append(Filed, Result(d, RepairAnswer(d)))
           /\ \A e : Projected(e)' = Projected(e) \cup {k \in {Len(file) + 1} : FALSE /\ d = e}
      BY <1>1, <1>3, <2>8, <2>9, <2>10, ResultFiled
    <2>12. messages' = Filed'
      <3> DEFINE r == Result(d, RepairAnswer(d))
      <3>1. r \in Message
        BY <2>9, ResultTyped
      <3> HIDE DEF r
      <3>2. /\ n + 1 \in 1..(n + 1) /\ n = Len(Filed)
            /\ Filed \in Seq(Message)
        <4>1. n + 1 \in 1..(n + 1)
          BY <1>3
        <4>2. messages \in Seq(Message) /\ n = Len(messages)
          BY <1>3 DEF n, Talks
        <4>3. messages = Filed
          BY <1>1
        <4> QED  BY <4>1, <4>2, <4>3
      <3>3. /\ InsertAt(Filed, n + 1, r) \in Seq(Message)
            /\ Len(InsertAt(Filed, n + 1, r)) = n + 1
            /\ \A k \in 1..(n + 1) : InsertAt(Filed, n + 1, r)[k]
                 = IF k < n + 1 THEN Filed[k] ELSE IF k = n + 1 THEN r ELSE Filed[k - 1]
        BY <3>1, <3>2, Inserted
      <3>4. /\ Append(Filed, r) \in Seq(Message) /\ Len(Append(Filed, r)) = n + 1
            /\ Append(Filed, r)[n + 1] = r
            /\ \A k \in 1..n : Append(Filed, r)[k] = Filed[k]
        BY <3>1, <3>2, AppendProperties
      <3>5. \A k \in 1..(n + 1) : InsertAt(Filed, n + 1, r)[k] = Append(Filed, r)[k]
        <4>1. \A k \in 1..(n + 1) : IF k < n + 1 THEN k \in 1..n ELSE k = n + 1
          BY <1>3
        <4> QED  BY <3>3, <3>4, <4>1
      <3>6. InsertAt(Filed, n + 1, r) = Append(Filed, r)
        BY <3>3, <3>4, <3>5, SeqEqual
      <3> QED  BY <1>1, <2>8, <2>11, <3>6 DEF r
    <2>13. HeardIsFiled'
      BY <1>1, <1>4, <2>8, <2>12 DEF HeardIsFiled, Replaying
    <2>14. NothingIsLeft'
      BY <1>1, <1>4, <2>8, <2>10 DEF NothingIsLeft
    <2> QED  BY <1>5, <2>11, <2>13, <2>14 DEF SteadyInv
  <1>7. CASE /\ Unresolved(messages) = {}
             /\ phase' = IF phase = "closed" THEN "asking" ELSE "provider"
             /\ UNCHANGED <<file, leaf, messages>>
    <2>1. /\ FileIsStraight' /\ FiledIsSound' /\ Filed' = Filed
      BY <1>1, <1>3, <1>7, FileStays
    <2>2. HeardIsFiled'
      BY <1>1, <1>7, <2>1 DEF HeardIsFiled, Replaying
    <2>3. NothingIsLeft'
      BY <1>1, <1>4, <1>7, <2>1 DEF NothingIsLeft
    <2> QED  BY <1>5, <2>1, <2>2, <2>3 DEF SteadyInv
  <1> HIDE DEF n, assistants, open, c, ends, at, m, durable
  <1> QED  BY <1>2, <1>6, <1>7

(* A row is acknowledged.                                                  *)
LEMMA AcknowledgeSteady ==
  ASSUME IInv, SteadyInv, Acknowledge
  PROVE  SteadyInv'
  <1> USE DEF journal, session, turn
  <1>0. PICK c : c = Head(todo)
    OBVIOUS
  <1> DEFINE joins == /\ phase \in Replaying /\ fresh = c /\ Parent[c] = NoCall
                      /\ c \notin AnsweredIn(messages)
             last == phase = "projecting" /\ Len(todo) = 1
  <1>1. /\ phase \in Replaying \cup {"projecting"} /\ todo # <<>> /\ Projected(c) # {}
        /\ acked' = acked \cup {c}
        /\ messages' = IF joins THEN Append(messages, Result(c, "actual")) ELSE messages
        /\ todo' = Tail(todo) /\ fresh' = NoCall
        /\ last => phase' = "tools" /\ queue' = Tail(queue)
        /\ ~last => UNCHANGED <<phase, queue>>
        /\ UNCHANGED <<effect, outbox, file, leaf, got, prompts>>
    BY <1>0 DEF Acknowledge, Projecting, OnLineage, Join, Advance
  <1>2. /\ NothingIsLeft /\ HeardIsFiled /\ HandIsCommitted
        /\ NoCall \notin Issued /\ NoCall \notin Calls
        /\ Filed \in Talks /\ Paired(Filed) /\ FileIsStraight /\ FiledIsSound
    BY SteadyParts
  <1>3. /\ FileIsStraight' /\ FiledIsSound' /\ Filed' = Filed
        /\ \A d : Projected(d)' = Projected(d)
    BY <1>1, <1>2, FileStays
  <1>4. todo \in Seq(Calls) /\ Elements(todo) = {c} \cup Elements(Tail(todo)) /\ c \in Calls
    <2>1. todo \in Seq(Calls)
      BY SteadyParts DEF TypeOK
    <2> QED  BY <1>0, <1>1, <2>1, TakenQueue
  <1>5. phase = "projecting" =>
          /\ Elements(queue) = {Head(queue)} \cup Elements(Tail(queue))
          /\ Head(queue) \in Calls /\ Parent[Head(queue)] = NoCall
    <2> SUFFICES ASSUME phase = "projecting"
                 PROVE  /\ Elements(queue) = {Head(queue)} \cup Elements(Tail(queue))
                        /\ Head(queue) \in Calls /\ Parent[Head(queue)] = NoCall
      OBVIOUS
    <2>1. /\ queue \in Seq(Calls) /\ queue # <<>> /\ NextBatch - 1 \in DOMAIN Batches
          /\ Elements(queue) \subseteq Elements(Batches[NextBatch - 1])
      BY SteadyParts DEF TypeOK, HandIsSound
    <2>2. Elements(queue) = {Head(queue)} \cup Elements(Tail(queue)) /\ Head(queue) \in Calls
      BY <2>1, TakenQueue
    <2> QED  BY <2>1, <2>2, BatchesAreApart
  <1>6. HandIsCommitted'
    <2>1. Elements(queue') \subseteq Elements(queue)
      BY <1>1, <1>5
    <2> HIDE DEF joins, last
    <2> QED  BY <1>1, <1>2, <2>1 DEF HandIsCommitted
  <1>7. CASE phase \in Replaying
    <2>1. phase' = phase /\ queue' = queue /\ phase # "projecting" /\ phase # "tools"
      BY <1>1, <1>7 DEF Replaying
    <2>2. messages' = Filed
      <3>1. CASE fresh \in Issued
        <4>1. fresh = c /\ Parent[c] = NoCall
          BY <1>0, <1>2, <3>1, PublicationAssumption DEF NothingIsLeft
        <4>2. Filed = Append(messages, Result(c, "actual"))
          BY <1>2, <1>7, <2>1, <3>1, <4>1 DEF HeardIsFiled
        <4>3. c \notin AnsweredIn(messages)
          <5> DEFINE n == Len(messages)
          <5>1. messages \in Seq(Message) /\ n \in Nat
            BY SteadyParts DEF TypeOK
          <5>2. Result(c, "actual") \in Message /\ Result(c, "actual").kind = "result"
                /\ Result(c, "actual").call = c
            <6>1. "actual" \in Answers
              BY DEF Answers
            <6> QED  BY <1>4, <6>1, ResultTyped
          <5>3. /\ Len(Filed) = n + 1 /\ Filed[n + 1] = Result(c, "actual")
                /\ \A i \in 1..n : Filed[i] = messages[i]
            BY <4>2, <5>1, <5>2, AppendProperties
          <5> HIDE DEF n
          <5>4. n + 1 \in 1..Len(Filed) /\ (n + 1) - 1 = n
            BY <5>1, <5>3
          <5>5. c \notin AnsweredBefore(Filed, n + 1)
            BY <1>2, <5>2, <5>3, <5>4 DEF Paired
          <5>6. ~ \E i \in 1..n : messages[i].kind = "result" /\ messages[i].call = c
            BY <5>3, <5>4, <5>5, BeforeMessage
          <5> QED  BY <5>1, <5>6, InTalk DEF n
        <4> QED  BY <1>1, <1>7, <4>1, <4>2, <4>3
      <3>2. CASE fresh \notin Issued
        <4>1. messages = Filed
          BY <2>1, <3>2, HeardPlain
        <4>2. ~joins
          BY <1>4, <3>2, PublicationAssumption
        <4> QED  BY <1>1, <4>1, <4>2
      <3> QED  BY <3>1, <3>2
    <2> HIDE DEF joins, last
    <2>3. HeardIsFiled'
      BY <1>1, <1>2, <1>3, <1>7, <2>1, <2>2 DEF HeardIsFiled
    <2>4. NothingIsLeft'
      BY <1>1, <1>2, <1>3, <1>7, <2>1 DEF NothingIsLeft, Replaying
    <2> QED  BY <1>3, <1>6, <2>3, <2>4 DEF SteadyInv
  <1>8. CASE phase = "projecting" /\ ~last
    <2>1. phase' = phase /\ queue' = queue /\ messages' = messages
      BY <1>1, <1>8 DEF Replaying
    <2>2. HeardIsFiled'
      <3>1. file' = file /\ phase \notin Replaying
        BY <1>1, <1>8 DEF Replaying
      <3>2. phase' = "projecting" /\ phase' \notin Replaying
        BY <1>8, <2>1, <3>1
      <3>3. messages = IF Head(queue) \notin AnsweredIn(file)
                       THEN Append(Filed, Result(Head(queue), "actual")) ELSE Filed
        BY <1>2, <1>8, <3>1 DEF HeardIsFiled
      <3>4. messages' = IF Head(queue') \notin AnsweredIn(file')
                        THEN Append(Filed', Result(Head(queue'), "actual")) ELSE Filed'
        BY <1>3, <2>1, <3>1, <3>3
      <3> QED  BY <3>2, <3>4 DEF HeardIsFiled
    <2>3. /\ Tail(todo) # <<>> /\ Tail(todo)[Len(Tail(todo))] = todo[Len(todo)]
      <3> DEFINE n == Len(todo)
      <3>1. n \in Nat /\ n > 0 /\ n # 1
        BY <1>1, <1>4, <1>8, EmptySeq
      <3>2. Len(Tail(todo)) = n - 1 /\ \A i \in 1..(n - 1) : Tail(todo)[i] = todo[i + 1]
        BY <1>1, <1>4, HeadTailProperties
      <3> HIDE DEF n
      <3>3. n - 1 \in 1..(n - 1) /\ (n - 1) + 1 = n /\ n - 1 # 0
        BY <3>1
      <3>4. Tail(todo) # <<>>
        BY <3>2, <3>3
      <3> QED  BY <3>2, <3>3, <3>4 DEF n
    <2> HIDE DEF joins, last
    <2>4. NothingIsLeft'
      BY <1>1, <1>2, <1>3, <1>4, <1>8, <2>1, <2>3 DEF NothingIsLeft
    <2> QED  BY <1>3, <1>6, <2>2, <2>4 DEF SteadyInv
  <1>9. CASE last
    <2>1. /\ phase = "projecting" /\ phase' = "tools" /\ queue' = Tail(queue)
          /\ messages' = messages /\ Len(todo) = 1
      BY <1>1, <1>9 DEF Replaying
    <2>2. Head(queue) = c /\ Elements(todo) = {c}
      <3>1. c = todo[1]
        BY <1>0, <1>1, <1>4, HeadTailProperties
      <3>2. Elements(todo) = {todo[1]}
        <4>1. 1..1 = {1}
          OBVIOUS
        <4> QED  BY <2>1, <4>1 DEF Elements
      <3> QED  BY <1>2, <2>1, <3>1, <3>2 DEF NothingIsLeft
    <2>3. messages = Filed
      <3>1. c \in AnsweredIn(file)
        BY <1>1, <1>4, <1>5, <2>1, <2>2, ProjectedAnswers
      <3>2. ~(Head(queue) \notin AnsweredIn(file)) /\ phase \notin Replaying
        BY <2>1, <2>2, <3>1 DEF Replaying
      <3> QED  BY <1>2, <3>2 DEF HeardIsFiled
    <2> HIDE DEF joins, last
    <2>4. HeardIsFiled'
      BY <1>3, <2>1, <2>3 DEF HeardIsFiled, Replaying
    <2>5. \A d \in Elements(outbox) \ (acked \cup {c}) : Root(d) \in Elements(Tail(queue))
      BY <1>2, <2>1, <2>2 DEF NothingIsLeft
    <2>6. NothingIsLeft'
      BY <1>1, <2>1, <2>5 DEF NothingIsLeft
    <2> QED  BY <1>3, <1>6, <2>4, <2>6 DEF SteadyInv
  <1> HIDE DEF joins
  <1> QED  BY <1>1, <1>7, <1>8, <1>9

(* The provider answers, with calls or without.                            *)
LEMMA RespondSteady ==
  ASSUME IInv, SteadyInv, Respond
  PROVE  SteadyInv'
  <1> USE DEF journal
  <1>0. PICK n : n = NextBatch
    OBVIOUS
  <1>1. /\ phase = "provider" /\ got' = NotStarted
        /\ UNCHANGED <<effect, outbox, acked, todo, fresh, prompts>>
        /\ \/ /\ n <= Len(Batches)
              /\ AppendEntry(Reply(n), "assistant", FALSE)
              /\ messages' = Append(messages, Reply(n))
              /\ phase' = "tools"
              /\ queue' = Batches[n]
           \/ /\ AppendEntry(Reply(0), "assistant", FALSE)
              /\ messages' = Append(messages, Reply(0))
              /\ phase' = "idle"
              /\ UNCHANGED queue
    BY <1>0 DEF Respond
  <1>2. /\ TypeOK /\ FileIsStraight /\ FiledIsSound /\ Unresolved(Filed) = {}
        /\ Elements(outbox) \subseteq acked /\ outbox' = outbox
        /\ n \in Nat /\ n >= 1 /\ Len(Batches) \in Nat
    BY <1>0, <1>1, SteadyParts, Typed, PublicationAssumption DEF NothingIsLeft
  <1>3. queue = <<>> /\ fresh = NoCall /\ todo = <<>> /\ messages = Filed
    BY <1>1, HeardPlain, SteadyParts, PhaseHands DEF Replaying
  <1>4. \A c \in Calls : got'[c] = "none"
    BY <1>1 DEF NotStarted
  <1>5. \A k \in 0..Len(Batches) :
          /\ Reply(k) \in Message /\ Reply(k).kind = "assistant" /\ Reply(k).batch = k
          /\ Reply(k).answer = "none"
          /\ CallsOf(Reply(k)) = IF k > 0 THEN Batches[k] ELSE <<>>
    BY DEF Reply, Message, Answers, CallsOf
  <1>6. phase' \in {"tools", "idle"} => NothingIsLeft'
    BY <1>1, <1>2, <1>3 DEF NothingIsLeft
  <1>7. ASSUME NEW k \in 0..Len(Batches), AppendEntry(Reply(k), "assistant", FALSE),
               messages' = Append(messages, Reply(k)), phase' \in {"tools", "idle"},
               IssuedBelow(NextBatch') = IssuedBelow(NextBatch) \cup Elements(CallsOf(Reply(k)))
        PROVE  FileIsStraight' /\ FiledIsSound' /\ HeardIsFiled' /\ NothingIsLeft'
    <2> DEFINE m == Reply(k)
    <2>1. /\ m \in Message /\ m.kind = "assistant" /\ m.answer = "none"
          /\ AppendEntry(m, m.kind, FALSE)
          /\ IssuedBelow(NextBatch') = IssuedBelow(NextBatch) \cup Elements(CallsOf(m))
          /\ messages' = Append(messages, m)
      BY <1>5, <1>7
    <2> HIDE DEF m
    <2>2. FileIsStraight' /\ FiledIsSound' /\ Filed' = Append(Filed, m)
      BY <1>2, <2>1, QuestionFiled
    <2>3. HeardIsFiled'
      BY <1>3, <1>7, <2>1, <2>2 DEF HeardIsFiled, Replaying
    <2> QED  BY <1>6, <1>7, <2>2, <2>3
  <1>8. CASE /\ n <= Len(Batches)
             /\ AppendEntry(Reply(n), "assistant", FALSE)
             /\ messages' = Append(messages, Reply(n))
             /\ phase' = "tools"
             /\ queue' = Batches[n]
    <2>1. n \in 1..Len(Batches) /\ n \in 0..Len(Batches) /\ n > 0 /\ DOMAIN Batches = 1..Len(Batches)
      BY <1>2, <1>8, PublicationAssumption
    <2>2. NextBatch' = n + 1
      <3> DEFINE m == Reply(n)
      <3>1. m \in Message /\ AppendEntry(m, "assistant", FALSE) /\ m.batch = n
        BY <1>5, <1>8, <2>1
      <3>2. "assistant" \in {"prompt", "assistant", "result", "child"} /\ FALSE \in BOOLEAN
        OBVIOUS
      <3> HIDE DEF m
      <3>3. NextBatch' = IF "assistant" = "assistant" /\ m.batch > 0 THEN NextBatch + 1 ELSE NextBatch
        BY <1>2, <3>1, <3>2, EntryAppended
      <3> QED  BY <1>0, <2>1, <3>1, <3>3
    <2>3. IssuedBelow(NextBatch') = IssuedBelow(NextBatch) \cup Elements(CallsOf(Reply(n)))
      <3>1. {j \in DOMAIN Batches : j < n + 1} = {j \in DOMAIN Batches : j < n} \cup {n}
        BY <1>2, <2>1
      <3>2. IssuedBelow(n + 1) = IssuedBelow(n) \cup Elements(Batches[n])
        BY <3>1 DEF IssuedBelow
      <3> QED  BY <1>0, <1>5, <2>1, <2>2, <3>2
    <2>4. FileIsStraight' /\ FiledIsSound' /\ HeardIsFiled' /\ NothingIsLeft'
      BY <1>7, <1>8, <2>1, <2>3
    <2>5. HandIsCommitted'
      <3>1. Elements(Batches[n]) \subseteq Calls
            /\ \A c \in Elements(Batches[n]) : c \notin IssuedBelow(n)
        BY <2>1, BatchesAreApart
      <3>2. \A c \in Elements(outbox) : Root(c) \in IssuedBelow(n)
        BY <1>0, SteadyParts DEF OutboxIsSound
      <3>3. \A c \in Elements(outbox) : Parent[c] \notin Elements(Batches[n])
        BY <3>1, <3>2, PublicationAssumption DEF Root
      <3> QED  BY <1>1, <1>4, <1>8, <3>1, <3>3 DEF HandIsCommitted
    <2> QED  BY <2>4, <2>5 DEF SteadyInv
  <1>9. CASE /\ AppendEntry(Reply(0), "assistant", FALSE)
             /\ messages' = Append(messages, Reply(0))
             /\ phase' = "idle"
             /\ UNCHANGED queue
    <2>1. 0 \in 0..Len(Batches) /\ ~(0 > 0)
      BY <1>2
    <2>2. NextBatch' = NextBatch
      <3> DEFINE m == Reply(0)
      <3>1. m \in Message /\ AppendEntry(m, "assistant", FALSE) /\ m.batch = 0
        BY <1>5, <1>9, <2>1
      <3>2. "assistant" \in {"prompt", "assistant", "result", "child"}
        OBVIOUS
      <3> HIDE DEF m
      <3> QED  BY <1>2, <3>1, <3>2, Conjuncts, PlainEntry
    <2>3. IssuedBelow(NextBatch') = IssuedBelow(NextBatch) \cup Elements(CallsOf(Reply(0)))
      <3>1. Elements(CallsOf(Reply(0))) = {}
        BY <1>5, <2>1, EmptyQueue
      <3> QED  BY <2>2, <3>1
    <2>4. FileIsStraight' /\ FiledIsSound' /\ HeardIsFiled' /\ NothingIsLeft'
      BY <1>7, <1>9, <2>1, <2>3
    <2>5. HandIsCommitted'
      <3>1. Elements(queue') = {}
        BY <1>3, <1>9, EmptyQueue
      <3> QED  BY <1>4, <3>1 DEF HandIsCommitted
    <2> QED  BY <2>4, <2>5 DEF SteadyInv
  <1> QED  BY <1>1, <1>8, <1>9

(* A call of the batch starts or is denied.                                *)
LEMMA CallSteady ==
  ASSUME IInv, SteadyInv, NEW c \in Calls, Invoke(c) \/ Deny(c)
  PROVE  SteadyInv'
  <1> USE DEF session
  <1>1. PICK g \in {"running", "denied"} :
          /\ phase = "tools" /\ got[c] = "none"
          /\ got' = [got EXCEPT ![c] = g]
          /\ UNCHANGED <<outbox, acked, file, leaf, messages, phase, queue, todo, fresh>>
    BY DEF Invoke, Deny
  <1>2. NothingIsLeft /\ HeardIsFiled /\ HandIsCommitted /\ FileIsStraight /\ FiledIsSound
    BY SteadyParts
  <1>3. /\ FileIsStraight' /\ FiledIsSound' /\ Filed' = Filed
        /\ \A d : Projected(d)' = Projected(d)
    BY <1>1, <1>2, FileStays
  <1>4. HeardIsFiled'
    BY <1>1, <1>2, <1>3 DEF HeardIsFiled, Replaying
  <1>5. NothingIsLeft'
    BY <1>1, <1>2, <1>3 DEF NothingIsLeft
  <1>6. HandIsCommitted'
    <2>1. got \in [Calls -> {"none", "running", "actual", "denied", "lost"}]
          /\ \A d \in Elements(outbox) : Parent[d] \in Calls \cup {NoCall}
      BY Conjuncts, PublicationAssumption DEF TypeOK
    <2>2. \A d \in Calls : got'[d] = IF d = c THEN g ELSE got[d]
      BY <1>1, <2>1
    <2>3. Elements(queue) \subseteq Calls
      BY Conjuncts, ElementsTyped DEF TypeOK
    <2> QED  BY <1>1, <1>2, <2>2, <2>3 DEF HandIsCommitted
  <1> QED  BY <1>3, <1>4, <1>5, <1>6 DEF SteadyInv

(* The result of a call is committed.                                      *)
LEMMA CommitSteady ==
  ASSUME IInv, SteadyInv, NEW c \in Calls, Commit(c)
  PROVE  SteadyInv'
  <1> USE DEF session
  <1>1. /\ phase = "tools" /\ got[c] = "running"
        /\ got' = [got EXCEPT ![c] = "actual"]
        /\ outbox' = Append(outbox, c)
        /\ UNCHANGED <<acked, file, leaf, messages, phase, queue, todo, fresh, prompts>>
    BY DEF Commit
  <1>2. /\ NothingIsLeft /\ HeardIsFiled /\ HandIsCommitted /\ FileIsStraight /\ FiledIsSound
        /\ Filed \in Talks /\ Paired(Filed) /\ messages = Filed
        /\ NoCall \notin Calls
    BY <1>1, SteadyParts, HeardPlain DEF Replaying
  <1>3. /\ outbox \in Seq(Calls) /\ queue \in Seq(Calls)
        /\ got \in [Calls -> {"none", "running", "actual", "denied", "lost"}]
    BY Conjuncts DEF TypeOK
  <1>4. Elements(outbox') = Elements(outbox) \cup {c} /\ Elements(queue) \subseteq Calls
    BY <1>1, <1>3, AppendedQueue, ElementsTyped
  <1>5. InHand(c) /\ Unresolved(Filed) = Elements(queue)
    BY <1>1, <1>2, SteadyParts DEF HandIsSound, TalkIsSound
  <1>6. \A d \in Elements(queue) : Parent[d] = NoCall
    <2>1. NextBatch - 1 \in DOMAIN Batches
          /\ Elements(queue) \subseteq Elements(Batches[NextBatch - 1])
      BY <1>1, SteadyParts DEF HandIsSound
    <2> QED  BY <2>1, BatchesAreApart
  <1>7. \/ c \in Elements(queue) /\ Parent[c] = NoCall /\ Root(c) = c
        \/ /\ Parent[c] \in Elements(queue) /\ Parent[c] # NoCall /\ Root(c) = Parent[c]
           /\ got[Parent[c]] = "running" /\ Parent[c] # c
    BY <1>2, <1>4, <1>5, <1>6 DEF InHand, Root
  <1>8. c \notin AnsweredIn(Filed) /\ AnsweredIn(Filed) = AnsweredIn(file)
    <2>1. CASE c \in Elements(queue)
      BY <1>2, <1>5, <2>1 DEF Unresolved, FiledIsSound
    <2>2. CASE Parent[c] # NoCall
      <3>1. AnsweredIn(Filed) \subseteq IssuedBelow(NextBatch) /\ AnsweredIn(Filed) = AnsweredIn(file)
        BY <1>2, PairedTalk DEF FiledIsSound
      <3>2. c \notin IssuedBelow(NextBatch)
        BY <2>2, BatchesAreApart DEF IssuedBelow
      <3> QED  BY <3>1, <3>2
    <2> QED  BY <1>7, <2>1, <2>2
  <1>9. Filed' = Filed /\ NextBatch' = NextBatch /\ \A d : Projected(d)' = Projected(d)
    BY <1>1, SameFile DEF Filed
  <1>10. FileIsStraight'
    <2>1. /\ leaf = Len(file) /\ Unbranched(file) /\ EventsAreResults(file) /\ Single(file)
          /\ \A d \in Elements(outbox) : Projected(d) = {} => d \notin AnsweredIn(file)
          /\ AnsweredBeforePrompt
      BY <1>2 DEF FileIsStraight
    <2>2. AnsweredBeforePrompt'
      BY <1>1, <2>1 DEF AnsweredBeforePrompt
    <2>3. \A d \in Elements(outbox') : Projected(d)' = {} => d \notin AnsweredIn(file)
      BY <1>4, <1>8, <1>9, <2>1
    <2> QED  BY <1>1, <2>1, <2>2, <2>3 DEF FileIsStraight
  <1>11. Honest(Filed, Elements(outbox'))
    <2> SUFFICES ASSUME NEW i \in 1..Len(Filed), Filed[i].answer \in {"unknown", "notExecuted"}
                 PROVE  Filed[i].kind = "result" /\ Filed[i].call \notin Elements(outbox')
      BY DEF Honest
    <2>1. Filed[i].kind = "result" /\ Filed[i].call \notin Elements(outbox)
      BY <1>2 DEF FiledIsSound, Honest
    <2>2. Filed[i].call \in AnsweredIn(Filed)
      BY <1>2, <2>1, InTalk DEF Talks
    <2> QED  BY <1>4, <1>8, <2>1, <2>2
  <1>12. FiledIsSound'
    BY <1>1, <1>2, <1>9, <1>11 DEF FiledIsSound
  <1>13. HeardIsFiled'
    BY <1>1, <1>2, <1>9 DEF HeardIsFiled, Replaying
  <1>14. NothingIsLeft'
    <2>1. \A d \in Elements(outbox') \ acked : Root(d) \in Elements(queue)
      BY <1>1, <1>2, <1>4, <1>7 DEF NothingIsLeft
    <2>2. fresh = NoCall
      BY <1>1, HeardPlain DEF Replaying
    <2> QED  BY <1>1, <2>1, <2>2 DEF NothingIsLeft
  <1>15. HandIsCommitted'
    <2>1. \A d \in Calls : got'[d] = IF d = c THEN "actual" ELSE got[d]
      BY <1>1, <1>3
    <2>2. \A d \in Calls : got'[d] # "lost"
      BY <1>2, <2>1 DEF HandIsCommitted
    <2>3. \A d \in Elements(queue) : got'[d] = "actual" => d \in Elements(outbox')
      BY <1>2, <1>4, <2>1 DEF HandIsCommitted
    <2>4. \A d \in Elements(outbox') : Parent[d] \in Elements(queue) =>
            got'[Parent[d]] \in {"running", "actual"}
      <3> SUFFICES ASSUME NEW d \in Elements(outbox'), Parent[d] \in Elements(queue)
                   PROVE  got'[Parent[d]] \in {"running", "actual"}
        OBVIOUS
      <3>1. CASE d = c
        <4>1. Parent[c] \in Calls
          BY <1>4, <3>1
        <4> QED  BY <1>2, <1>4, <1>7, <2>1, <3>1, <4>1
      <3>2. CASE d # c
        <4>1. got[Parent[d]] \in {"running", "actual"}
          BY <1>2, <1>4, <3>2 DEF HandIsCommitted
        <4> QED  BY <1>4, <2>1, <4>1
      <3> QED  BY <3>1, <3>2
    <2> QED  BY <1>1, <2>2, <2>3, <2>4 DEF HandIsCommitted
  <1> QED  BY <1>10, <1>12, <1>13, <1>14, <1>15 DEF SteadyInv

(* The window holds every row that is pending while calls are in hand.     *)
LEMMA AllAreRead ==
  ASSUME Steady, IInv, SteadyInv, phase = "tools"
  PROVE  /\ PendingRows = Pending
         /\ Elements(Pending) = Elements(outbox) \ acked
  <1>1. /\ outbox \in Seq(Calls) /\ Elements(outbox) \subseteq Calls /\ Distinct(outbox)
        /\ Window \in Nat
    BY Conjuncts, PublicationAssumption DEF OutboxIsSound
  <1>2. /\ NextBatch - 1 \in DOMAIN Batches
        /\ Elements(queue) \subseteq Elements(Batches[NextBatch - 1])
        /\ \A c \in Elements(outbox) \ acked : Root(c) \in Elements(queue)
    BY SteadyParts DEF HandIsSound, NothingIsLeft
  <1>3. /\ Pending \in Seq(Calls) /\ Distinct(Pending)
        /\ Elements(Pending) = Elements(outbox) \cap (Calls \ acked)
    BY <1>1, KeepSifts, KeepElements, KeptQueue DEF Pending
  <1>4. Elements(Pending) = Elements(outbox) \ acked
    BY <1>1, <1>3
  <1>5. Elements(Pending) \subseteq RowsOfBatch(NextBatch - 1)
    BY <1>1, <1>2, <1>4 DEF RowsOfBatch
  <1>6. IsFiniteSet(RowsOfBatch(NextBatch - 1)) /\ Cardinality(RowsOfBatch(NextBatch - 1)) <= Window
    BY <1>2 DEF Steady
  <1>7. Cardinality(Elements(Pending)) = Len(Pending) /\ Len(Pending) \in Nat
    <2> DEFINE P == Pending
    <2>1. P \in Seq(Calls) /\ Distinct(P)
      BY <1>3
    <2> HIDE DEF P
    <2>2. Cardinality(Elements(P)) = Len(P)
      BY <2>1, DistinctLength
    <2>3. Len(P) \in Nat
      BY <2>1
    <2> QED  BY <2>2, <2>3 DEF P
  <1>8. Cardinality(Elements(Pending)) <= Cardinality(RowsOfBatch(NextBatch - 1))
        /\ Cardinality(RowsOfBatch(NextBatch - 1)) \in Nat
    BY <1>5, <1>6, FS_Subset, FS_CardinalityType
  <1>9. Len(Pending) <= Window
    BY <1>1, <1>6, <1>7, <1>8
  <1> QED  BY <1>4, <1>9 DEF PendingRows

(* A result of the batch is delivered.                                     *)
LEMMA DeliverSteady ==
  ASSUME Steady, IInv, SteadyInv, Deliver
  PROVE  SteadyInv'
  <1> USE DEF journal, session
  <1>0. PICK c : c = Head(queue)
    OBVIOUS
  <1>1. /\ Deliverable /\ phase = "tools"
        /\ UNCHANGED <<effect, outbox, acked, prompts>>
        /\ \/ /\ queue = <<>>
              /\ phase' = "provider"
              /\ UNCHANGED <<file, leaf, messages, queue, got, todo, fresh>>
           \/ queue # <<>> /\ got[c] = "lost"
           \/ /\ queue # <<>> /\ c \in Elements(PendingRows)
              /\ todo' = RowsOf(c)
              /\ messages' = Said
              /\ phase' = "projecting"
              /\ UNCHANGED <<file, leaf, queue, got, fresh>>
           \/ /\ queue # <<>> /\ c \notin Elements(PendingRows)
              /\ AppendEntry(Result(c, got[c]), "result", FALSE)
              /\ messages' = Said
              /\ queue' = Tail(queue)
              /\ UNCHANGED <<phase, got, todo, fresh>>
    <2>1. /\ Deliverable /\ UNCHANGED <<effect, outbox, acked, prompts>>
          /\ \/ /\ queue = <<>>
                /\ phase' = "provider"
                /\ UNCHANGED <<file, leaf, messages, queue, got, todo, fresh>>
             \/ /\ queue # <<>>
                /\ CASE got[c] = "lost" -> GiveUp(Said) /\ UNCHANGED <<file, leaf>>
                     [] got[c] # "lost" /\ c \in Elements(PendingRows) ->
                          /\ todo' = RowsOf(c)
                          /\ messages' = Said
                          /\ phase' = "projecting"
                          /\ UNCHANGED <<file, leaf, queue, got, fresh>>
                     [] OTHER ->
                          /\ AppendEntry(Result(c, got[c]), "result", FALSE)
                          /\ messages' = Said
                          /\ queue' = Tail(queue)
                          /\ UNCHANGED <<phase, got, todo, fresh>>
      BY <1>0 DEF Deliver
    <2>2. CASE got[c] = "lost"
      BY <2>1, <2>2 DEF Deliverable
    <2>3. CASE got[c] # "lost" /\ c \in Elements(PendingRows)
      BY <2>1, <2>3 DEF Deliverable
    <2>4. CASE got[c] # "lost" /\ c \notin Elements(PendingRows)
      BY <2>1, <2>4 DEF Deliverable
    <2> QED  BY <2>2, <2>3, <2>4
  <1>2. /\ NothingIsLeft /\ HeardIsFiled /\ HandIsCommitted /\ FileIsStraight /\ FiledIsSound
        /\ Filed \in Talks /\ Paired(Filed) /\ messages = Filed
        /\ fresh = NoCall /\ todo = <<>>
    BY <1>1, SteadyParts, HeardPlain DEF Replaying
  <1>3. Unresolved(Filed) = Elements(queue)
    BY <1>1, <1>2, SteadyParts DEF TalkIsSound
  <1>4. PendingRows = Pending /\ Elements(PendingRows) = Elements(outbox) \ acked
    BY <1>1, AllAreRead
  <1>5. queue # <<>> =>
          /\ got[c] \in {"actual", "denied"} /\ c \in Calls /\ c \in Elements(queue)
          /\ Parent[c] = NoCall /\ Said = Append(Filed, Result(c, got[c]))
          /\ Elements(queue) = {c} \cup Elements(Tail(queue))
    <2> SUFFICES ASSUME queue # <<>>
                 PROVE  /\ got[c] \in {"actual", "denied"} /\ c \in Calls /\ c \in Elements(queue)
                        /\ Parent[c] = NoCall /\ Said = Append(Filed, Result(c, got[c]))
                        /\ Elements(queue) = {c} \cup Elements(Tail(queue))
      OBVIOUS
    <2>1. /\ got[c] \in {"actual", "denied", "lost"} /\ c \in Calls /\ c \in Elements(queue)
          /\ Parent[c] = NoCall
      BY <1>0, <1>1, SaidTyped
    <2>2. got[c] # "lost"
      BY <1>2, <2>1 DEF HandIsCommitted
    <2>3. Elements(queue) = {c} \cup Elements(Tail(queue))
      BY <1>0, Conjuncts, TakenQueue DEF TypeOK
    <2> QED  BY <1>0, <1>2, <2>1, <2>2, <2>3 DEF Said
  <1>6. CASE /\ queue = <<>>
             /\ phase' = "provider"
             /\ UNCHANGED <<file, leaf, messages, queue, got, todo, fresh>>
    <2>1. /\ FileIsStraight' /\ FiledIsSound' /\ Filed' = Filed
      BY <1>1, <1>2, <1>6, FileStays
    <2>2. HandIsCommitted'
      BY <1>1, <1>2, <1>6, HandFrame
    <2>3. Elements(queue) = {}
      BY <1>6, EmptyQueue
    <2>4. HeardIsFiled'
      BY <1>2, <1>6, <2>1 DEF HeardIsFiled, Replaying
    <2>5. NothingIsLeft'
      BY <1>1, <1>2, <1>3, <1>6, <2>1, <2>3 DEF NothingIsLeft
    <2> QED  BY <2>1, <2>2, <2>4, <2>5 DEF SteadyInv
  <1>7. CASE /\ queue # <<>> /\ c \in Elements(PendingRows)
             /\ todo' = RowsOf(c)
             /\ messages' = Said
             /\ phase' = "projecting"
             /\ UNCHANGED <<file, leaf, queue, got, fresh>>
    <2>1. /\ FileIsStraight' /\ FiledIsSound' /\ Filed' = Filed
      BY <1>1, <1>2, <1>7, FileStays
    <2>2. HandIsCommitted'
      BY <1>1, <1>2, <1>7, HandFrame
    <2>3. got[c] = "actual"
      <3>1. c \in Elements(outbox) /\ Root(c) \in Elements(queue)
        BY <1>4, <1>5, <1>7 DEF Root
      <3> QED  BY <1>5, <1>7, <3>1, SteadyParts DEF HandIsSound
    <2>4. c \notin AnsweredIn(file)
      BY <1>2, <1>3, <1>5, <1>7 DEF Unresolved, FiledIsSound
    <2>5. HeardIsFiled'
      BY <1>0, <1>5, <1>7, <2>1, <2>3, <2>4 DEF HeardIsFiled
    <2>6. /\ todo' # <<>> /\ todo'[Len(todo')] = c
          /\ Elements(todo') = {d \in Elements(outbox) \ acked : Parent[d] = c} \cup {c}
      <3> DEFINE D == {d \in Calls : Parent[d] = c}
                 K == Keep(PendingRows, D)
      <3>1. PendingRows \in Seq(Calls) /\ Elements(outbox) \subseteq Calls
        BY Conjuncts, RowsRead
      <3>2. K \in Seq(Calls) /\ Elements(K) = (Elements(outbox) \ acked) \cap D
        BY <1>4, <3>1, KeepSifts, KeepElements
      <3>3. todo' = Append(K, c)
        BY <1>7 DEF RowsOf
      <3> HIDE DEF K
      <3>4. Elements(todo') = Elements(K) \cup {c}
        BY <1>5, <1>7, <3>2, <3>3, AppendedQueue
      <3>5. todo' # <<>> /\ todo'[Len(todo')] = c
        <4>1. Len(K) \in Nat /\ Len(todo') = Len(K) + 1 /\ todo'[Len(K) + 1] = c
          BY <1>5, <1>7, <3>2, <3>3, AppendProperties
        <4>2. Len(todo') # 0
          BY <4>1
        <4>3. Len(<<>>) = 0
          BY EmptySeq
        <4> QED  BY <4>1, <4>2, <4>3
      <3> QED  BY <3>1, <3>2, <3>4, <3>5
    <2>7. NothingIsLeft'
      <3>1. \A d \in Elements(todo') : Root(d) = c
        BY <1>2, <1>5, <1>7, <2>6, SteadyParts DEF Root
      <3>2. \A d \in Elements(outbox) \ acked : d \in Elements(todo') \/ Root(d) \in Elements(Tail(queue))
        BY <1>1, <1>2, <1>5, <1>7, <2>6 DEF NothingIsLeft, Root
      <3> QED  BY <1>0, <1>1, <1>2, <1>7, <2>6, <3>1, <3>2 DEF NothingIsLeft
    <2> QED  BY <2>1, <2>2, <2>5, <2>7 DEF SteadyInv
  <1>8. CASE /\ queue # <<>> /\ c \notin Elements(PendingRows)
             /\ AppendEntry(Result(c, got[c]), "result", FALSE)
             /\ messages' = Said
             /\ queue' = Tail(queue)
             /\ UNCHANGED <<phase, got, todo, fresh>>
    <2>1. c \in Unresolved(Filed) /\ c \notin acked
      BY <1>3, <1>5, <1>8, AcknowledgedIsClosed
    <2>2. c \notin Elements(outbox) /\ got[c] = "denied"
      BY <1>2, <1>4, <1>5, <1>8, <2>1 DEF HandIsCommitted
    <2>3. PICK a : a = got[c]
      OBVIOUS
    <2>4. /\ a \in Answers /\ a = "denied" /\ AppendEntry(Result(c, a), "result", FALSE)
          /\ messages' = Append(Filed, Result(c, a))
      BY <1>5, <1>8, <2>2, <2>3 DEF Answers
    <2>5. /\ FileIsStraight' /\ FiledIsSound' /\ Filed' = Append(Filed, Result(c, a))
      BY <1>1, <1>2, <2>1, <2>2, <2>4, ResultFiled
    <2>6. HeardIsFiled'
      BY <1>1, <1>8, <2>4, <2>5 DEF HeardIsFiled, Replaying
    <2>7. NothingIsLeft'
      <3>1. ASSUME NEW d \in Elements(outbox) \ acked  PROVE Root(d) \in Elements(Tail(queue))
        <4>1. Root(d) \in Elements(queue)
          BY <1>1, <1>2 DEF NothingIsLeft
        <4>2. Root(d) # c
          <5>1. CASE Parent[d] = NoCall
            BY <2>2, <5>1 DEF Root
          <5>2. CASE Parent[d] = c
            BY <1>2, <1>5, <1>8, <2>2, <5>2 DEF HandIsCommitted
          <5> QED  BY <5>1, <5>2 DEF Root
        <4> QED  BY <1>5, <1>8, <4>1, <4>2
      <3> QED  BY <1>1, <1>2, <1>8, <3>1 DEF NothingIsLeft
    <2>8. HandIsCommitted'
      BY <1>1, <1>2, <1>5, <1>8 DEF HandIsCommitted
    <2> QED  BY <2>5, <2>6, <2>7, <2>8 DEF SteadyInv
  <1> QED  BY <1>1, <1>5, <1>6, <1>7, <1>8

(* The session is opened again after a crash.                              *)
LEMMA CrashSteady ==
  ASSUME IInv, SteadyInv, Crash
  PROVE  SteadyInv'
  <1> USE DEF journal
  <1>1. /\ leaf' = leaf /\ messages' = Filed
        /\ phase' = "idle" /\ queue' = <<>> /\ got' = NotStarted
        /\ todo' = <<>> /\ fresh' = NoCall
        /\ UNCHANGED <<effect, outbox, acked, file>>
    BY SteadyParts DEF Crash, Filed
  <1>2. FileIsStraight' /\ FiledIsSound' /\ Filed' = Filed
    BY <1>1, SteadyParts, FileStays
  <1>3. HeardIsFiled'
    BY <1>1, <1>2 DEF HeardIsFiled, Replaying
  <1>4. NothingIsLeft'
    BY <1>1 DEF NothingIsLeft
  <1>5. HandIsCommitted'
    <2>1. Elements(queue') = {} /\ \A c \in Calls : got'[c] = "none"
      BY <1>1, EmptyQueue DEF NotStarted
    <2> QED  BY <2>1 DEF HandIsCommitted
  <1> QED  BY <1>2, <1>3, <1>4, <1>5 DEF SteadyInv

(* What is projected is on the only branch.                                *)
LEMMA NothingIsRejected ==
  ASSUME IInv, SteadyInv
  PROVE  ~RejectProjection
  <1> SUFFICES ASSUME NEW c, Projected(c) # {}  PROVE OnLineage(c)
    BY DEF RejectProjection, Unprojected
  <1>1. /\ Unbranched(file) /\ leaf = Len(file) /\ Len(file) \in Nat
    BY SteadyParts DEF FileIsStraight
  <1>2. Lineage(file, leaf) = Upto(Len(file))
    <2>1. Len(file) \in 0..Len(file)
      BY <1>1
    <2> QED  BY <1>1, <2>1, UnbranchedLineage
  <1>3. Len(Upto(Len(file))) = Len(file)
    BY <1>1, UptoNext
  <1>4. 1..Len(file) \subseteq Elements(Upto(Len(file)))
    BY <1>3 DEF Elements, Upto
  <1> QED  BY <1>2, <1>4 DEF OnLineage, Projected

(* Every step keeps the conversation and the file together.                *)
LEMMA SteadyInductive ==
  ASSUME Steady
  PROVE  IInv /\ SteadyInv /\ [Next]_vars => SteadyInv'
  <1> SUFFICES ASSUME IInv, SteadyInv, [Next]_vars  PROVE SteadyInv'
    OBVIOUS
  <1>1. CASE Prompt
    BY <1>1, PromptSteady
  <1>2. CASE AgentStep
    <2>1. CASE Ask
      BY <2>1, AskSteady
    <2>2. CASE ReadOutbox
      BY <2>2, ReadOutboxSteady
    <2>3. CASE Repair
      BY <2>3, RepairSteady
    <2>4. CASE AppendProjection
      BY <2>4, AppendProjectionSteady
    <2>5. CASE Acknowledge
      BY <2>5, AcknowledgeSteady
    <2>6. CASE RejectProjection
      BY <2>6, NothingIsRejected
    <2> QED  BY <1>2, <2>1, <2>2, <2>3, <2>4, <2>5, <2>6 DEF AgentStep
  <1>3. CASE JournalRefuses
    BY <1>3 DEF JournalRefuses, Steady
  <1>4. CASE Respond
    BY <1>4, RespondSteady
  <1>5. CASE Deliver
    BY <1>5, DeliverSteady
  <1>6. CASE Crash
    BY <1>6, CrashSteady
  <1>7. CASE \E c \in Calls : Invoke(c) \/ Deny(c) \/ Commit(c) \/ LoseCommit(c)
    <2>1. PICK c \in Calls : Invoke(c) \/ Deny(c) \/ Commit(c) \/ LoseCommit(c)
      BY <1>7
    <2>2. CASE Invoke(c) \/ Deny(c)
      BY <2>2, CallSteady
    <2>3. CASE Commit(c)
      BY <2>3, CommitSteady
    <2>4. CASE LoseCommit(c)
      BY <2>4 DEF LoseCommit, Steady
    <2> QED  BY <2>1, <2>2, <2>3, <2>4
  <1>8. CASE \E i \in 1..Len(file) : Navigate(i)
    BY <1>8 DEF Navigate, Steady
  <1>9. CASE UNCHANGED vars
    BY <1>9, StutterSteady
  <1> QED  BY <1>1, <1>2, <1>3, <1>4, <1>5, <1>6, <1>7, <1>8, <1>9 DEF Next

(* Without branches, and with a journal that answers and hands out all     *)
(* rows of a message at once, the conversation and the file agree.         *)
THEOREM SteadyInvariance == ASSUME Steady  PROVE Spec => []SteadyInv
  <1>1. Init => SteadyInv
    BY InitSteady
  <1>2. IInv /\ SteadyInv /\ [Next]_vars => SteadyInv'
    BY SteadyInductive
  <1> QED  BY <1>1, <1>2, Invariance, PTL DEF Spec

(* Then no call is answered twice in the session: a replay drops a row     *)
(* whose call the harness has answered, and the harness answers none that  *)
(* has a row.                                                              *)
THEOREM AnsweredExactlyOnce == ASSUME Steady  PROVE Spec => []AnsweredOnce
  <1>1. IInv /\ SteadyInv => AnsweredOnce
    <2> SUFFICES ASSUME IInv, SteadyInv, NEW i \in 1..Len(file), NEW j \in 1..Len(file),
                        file[i].kind = "result", file[j].kind = "result",
                        file[i].call = file[j].call, i < j
                 PROVE  FALSE
      BY DEF AnsweredOnce
    <2>1. file[j].call \notin AnsweredBefore(file, j)
      BY SteadyParts DEF FileIsStraight, Single
    <2>2. i \in 1..(j - 1)
      OBVIOUS
    <2> QED  BY <2>1, <2>2, BeforeMessage
  <1> QED  BY <1>1, SteadyInvariance, Invariance, PTL

(* And every call is answered before the next prompt (prompt_with_origin). *)
THEOREM AlwaysAnsweredBeforePrompt == ASSUME Steady  PROVE Spec => []AnsweredBeforePrompt
  <1>1. SteadyInv => AnsweredBeforePrompt
    BY DEF SteadyInv, FileIsStraight
  <1> QED  BY <1>1, SteadyInvariance, PTL

(* And the harness never says of a call with a committed result that its   *)
(* outcome is unknown or that it was not executed: the outbox is replayed  *)
(* before the calls without an answer are closed.                          *)
THEOREM CommittedIsAlwaysUsed == ASSUME Steady  PROVE Spec => []CommittedIsUsed
  <1>1. IInv /\ SteadyInv => CommittedIsUsed
    <2> SUFFICES ASSUME IInv, SteadyInv, NEW i \in 1..Len(messages),
                        messages[i].answer \in {"unknown", "notExecuted"}
                 PROVE  messages[i].call \notin Elements(outbox)
      BY DEF CommittedIsUsed
    <2>1. /\ Honest(Filed, Elements(outbox)) /\ HeardIsFiled
          /\ Filed \in Seq(Message) /\ messages \in Seq(Message)
      BY SteadyParts DEF FiledIsSound, Talks, TypeOK
    <2>2. CASE messages = Filed
      BY <2>1, <2>2 DEF Honest
    <2>3. CASE phase = "projecting" /\ messages = Append(Filed, Result(Head(queue), "actual"))
      <3> DEFINE r == Result(Head(queue), "actual")
                 n == Len(Filed)
      <3>1. r.answer = "actual"
        BY DEF Result
      <3>2. r \in Message
        <4>1. queue \in Seq(Calls) /\ queue # <<>>
          BY <2>3, SteadyParts DEF TypeOK, HandIsSound
        <4>2. Head(queue) \in Calls /\ "actual" \in Answers
          BY <4>1, TakenQueue DEF Answers
        <4> QED  BY <4>2, ResultTyped
      <3> HIDE DEF r
      <3>3. /\ n \in Nat /\ Len(messages) = n + 1 /\ messages[n + 1] = r
            /\ \A k \in 1..n : messages[k] = Filed[k]
        BY <2>1, <2>3, <3>2, AppendProperties DEF r
      <3> HIDE DEF n
      <3>4. i \in 1..n
        <4>1. i # n + 1
          BY <3>1, <3>3
        <4> QED  BY <3>3, <4>1
      <3> QED  BY <2>1, <3>3, <3>4 DEF Honest, n
    <2>4. CASE fresh \in Issued /\ Filed = Append(messages, Result(fresh, "actual"))
      <3> DEFINE r == Result(fresh, "actual")
                 n == Len(messages)
      <3>1. r \in Message
        <4>1. fresh \in Calls /\ "actual" \in Answers
          BY <2>4, PublicationAssumption DEF Answers
        <4> QED  BY <4>1, ResultTyped
      <3> HIDE DEF r
      <3>2. n \in Nat /\ Len(Filed) = n + 1 /\ \A k \in 1..n : Filed[k] = messages[k]
        BY <2>1, <2>4, <3>1, AppendProperties DEF r
      <3>3. i \in 1..Len(Filed) /\ Filed[i] = messages[i]
        BY <3>2
      <3> QED  BY <2>1, <3>3 DEF Honest
    <2> QED  BY <2>1, <2>2, <2>3, <2>4 DEF HeardIsFiled
  <1> QED  BY <1>1, SteadyInvariance, Invariance, PTL
=============================================================================
