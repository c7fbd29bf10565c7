-------------------------- MODULE MessageView_proofs --------------------------
(***************************************************************************)
(* What an observer of a Run is given, and what a window shows of it.      *)
(*                                                                         *)
(* First the backend alone: that the join of history and stream is exact,  *)
(* for any number of invocations, messages and pieces: types, and both     *)
(* parts of ObserverGetsAll.  The invariant is proved for an observer that *)
(* may give up and observe again, too, as a window does.                   *)
(*                                                                         *)
(* Then the window: that it shows of a reply what the reply is or how it   *)
(* begins, for any number of connections and reads as well: types, the     *)
(* exactness of every connection, and ReplyIsShown.                        *)
(***************************************************************************)
EXTENDS MessageView, FiniteSetTheorems, TLAPS

-----------------------------------------------------------------------------
(* A set of numbers in order, and the facts at its numbers.                 *)

Rank(S, n) == Cardinality({m \in S : m <= n})

LEMMA FiniteNumbers ==
  ASSUME NEW M \in Nat, NEW S \in SUBSET (1..M)
  PROVE  IsFiniteSet(S) /\ Cardinality(S) \in Nat
<1>1. IsFiniteSet(1..M)
  BY FS_Interval
<1>2. IsFiniteSet(S)
  BY <1>1, FS_Subset
<1> QED BY <1>2, FS_CardinalityType

LEMMA RankGrows ==
  ASSUME NEW M \in Nat, NEW S \in SUBSET (1..M), NEW m \in S, NEW n \in S
  PROVE  /\ Rank(S, n) \in 1..Cardinality(S)
         /\ m < n => Rank(S, m) < Rank(S, n)
<1> DEFINE below(k) == {j \in S : j <= k}
<1>1. \A k \in S : /\ below(k) \in SUBSET S /\ below(k) \in SUBSET (1..M)
                   /\ IsFiniteSet(below(k)) /\ Cardinality(below(k)) \in Nat
                   /\ Cardinality(below(k)) <= Cardinality(S)
  BY FiniteNumbers, FS_Subset
<1>2. n \in below(n) /\ below(n) # {}
  OBVIOUS
<1>3. Cardinality(below(n)) # 0
  BY <1>1, <1>2, FS_EmptySet
<1>4. ASSUME m < n PROVE Cardinality(below(m)) < Cardinality(below(n))
  <2>1. m \in Nat /\ n \in Nat /\ n \notin below(m)
    BY <1>4
  <2>2. ASSUME NEW k \in below(m) PROVE k \in below(n)
    <3>1. k \in Nat /\ k <= m /\ k \in S
      OBVIOUS
    <3> QED BY <1>4, <2>1, <3>1
  <2>3. below(m) \in SUBSET below(n) /\ below(m) # below(n)
    BY <1>2, <2>1, <2>2
  <2> QED BY <1>1, <2>3, FS_Subset
<1>5. Cardinality(S) \in Nat
  BY FiniteNumbers
<1>6. Rank(S, m) = Cardinality(below(m)) /\ Rank(S, n) = Cardinality(below(n))
  BY DEF Rank
<1> HIDE DEF below
<1> QED BY <1>1, <1>3, <1>4, <1>5, <1>6

LEMMA RankIsOnto ==
  ASSUME NEW M \in Nat, NEW S \in SUBSET (1..M), NEW i \in 1..Cardinality(S)
  PROVE  \E n \in S : Rank(S, n) = i
<1> DEFINE N == Cardinality(S)
           rank == [n \in S |-> Rank(S, n)]
<1>0. N \in Nat /\ IsFiniteSet(S)
  BY FiniteNumbers
<1>1. IsFiniteSet(1..N) /\ Cardinality(1..N) = N
  <2> HIDE DEF N
  <2> QED BY <1>0, FS_Interval
<1>2. rank \in [S -> 1..N]
  BY RankGrows
<1>3. ASSUME NEW m \in S, NEW n \in S, rank[m] = rank[n] PROVE m = n
  <2>1. m \in Nat /\ n \in Nat /\ rank[m] \in Nat
    BY <1>2
  <2>2. ~(m < n) /\ ~(n < m)
    BY <1>3, <2>1, RankGrows
  <2> QED BY <2>1, <2>2
<1>4. rank \in Injection(S, 1..N)
  BY <1>2, <1>3 DEF Injection, IsInjective
<1>5. rank \in Surjection(S, 1..N)
  <2> HIDE DEF rank, N
  <2> QED BY <1>0, <1>1, <1>4, FS_Injection DEF N
<1> QED BY <1>5 DEF Surjection

\* InOrder lists the members of a set of numbers once each, from the lowest.
LEMMA InOrderLists ==
  ASSUME NEW M \in Nat, NEW S \in SUBSET (1..M)
  PROVE  /\ Cardinality(S) \in Nat
         /\ InOrder(S) \in [1..Cardinality(S) -> S]
         /\ \A i, j \in 1..Cardinality(S) : i < j => InOrder(S)[i] < InOrder(S)[j]
         /\ \A n \in S : \E i \in 1..Cardinality(S) : InOrder(S)[i] = n
<1> DEFINE N == Cardinality(S)
<1>1. N \in Nat
  BY FiniteNumbers
<1>2. \A i \in 1..N : InOrder(S)[i] \in S /\ Rank(S, InOrder(S)[i]) = i
  <2> SUFFICES ASSUME NEW i \in 1..N PROVE InOrder(S)[i] \in S /\ Rank(S, InOrder(S)[i]) = i
    OBVIOUS
  <2>1. InOrder(S)[i] = CHOOSE n \in S : Rank(S, n) = i
    BY DEF InOrder, Rank
  <2>2. \E n \in S : Rank(S, n) = i
    BY RankIsOnto
  <2> QED BY <2>1, <2>2
<1> HIDE DEF N
<1>3. ASSUME NEW i \in 1..N, NEW j \in 1..N, i < j PROVE InOrder(S)[i] < InOrder(S)[j]
  <2> DEFINE a == InOrder(S)[i]
             b == InOrder(S)[j]
  <2>1. a \in S /\ b \in S /\ Rank(S, a) = i /\ Rank(S, b) = j
    BY <1>2
  <2> HIDE DEF a, b
  <2>2. a \in Nat /\ b \in Nat /\ i \in Nat /\ j \in Nat
    BY <1>1, <2>1
  <2>3. b < a => j < i
    BY <2>1, RankGrows
  <2>4. a < b
    BY <1>3, <2>1, <2>2, <2>3
  <2> QED BY <2>4 DEF a, b
<1>4. ASSUME NEW n \in S PROVE InOrder(S)[Rank(S, n)] = n /\ Rank(S, n) \in 1..N
  <2>1. Rank(S, n) \in 1..N
    BY RankGrows DEF N
  <2>2. Rank(S, InOrder(S)[Rank(S, n)]) = Rank(S, n) /\ InOrder(S)[Rank(S, n)] \in S
    BY <1>2, <2>1
  <2> DEFINE k == InOrder(S)[Rank(S, n)]
  <2>3. k \in S /\ Rank(S, k) = Rank(S, n) /\ Rank(S, n) \in Nat
    BY <1>1, <2>1, <2>2
  <2> HIDE DEF k
  <2>4. (n < k => Rank(S, n) < Rank(S, k)) /\ (k < n => Rank(S, k) < Rank(S, n))
    BY <2>3, RankGrows
  <2>5. n = k
    BY <2>3, <2>4
  <2> QED BY <2>1, <2>5 DEF k
<1>5. InOrder(S) \in [1..N -> S]
  <2>1. InOrder(S) = [i \in 1..N |-> InOrder(S)[i]]
    BY DEF InOrder, N
  <2> QED BY <1>2, <2>1
<1> QED BY <1>1, <1>3, <1>4, <1>5 DEF N

\* The facts at the numbers of a set, from the lowest.
LEMMA FactsOf ==
  ASSUME NEW S \in SUBSET (1..MaxSeq)
  PROVE  /\ Cardinality(S) \in Nat /\ Len(Facts(S)) = Cardinality(S)
         /\ Facts(S) \in Seq(Frames)
         /\ \A i \in 1..Len(Facts(S)) : Facts(S)[i].seq \in S /\ Facts(S)[i].piece = 0
         /\ \A i, j \in 1..Len(Facts(S)) : i < j => Facts(S)[i].seq < Facts(S)[j].seq
         /\ \A n \in S : \E i \in 1..Len(Facts(S)) : Facts(S)[i].seq = n
<1>1. MaxSeq \in Nat /\ MaxPieces \in Nat
  BY ConstantsAssumption
<1> DEFINE N == Cardinality(S)
           order == InOrder(S)
<1>2. /\ N \in Nat /\ order \in [1..N -> S]
      /\ \A i, j \in 1..N : i < j => order[i] < order[j]
      /\ \A n \in S : \E i \in 1..N : order[i] = n
  BY <1>1, InOrderLists
<1>3. Facts(S) = [i \in 1..N |-> Piece(order[i], 0)]
  BY <1>2 DEF Facts
<1> HIDE DEF order, N
<1>4. \A i \in 1..N : /\ Piece(order[i], 0) \in Frames
                      /\ Piece(order[i], 0).seq = order[i] /\ Piece(order[i], 0).piece = 0
  <2> SUFFICES ASSUME NEW i \in 1..N
               PROVE  /\ Piece(order[i], 0) \in Frames
                      /\ Piece(order[i], 0).seq = order[i] /\ Piece(order[i], 0).piece = 0
    OBVIOUS
  <2>1. order[i] \in S
    BY <1>2
  <2>2. order[i] \in 1..MaxSeq
    BY <2>1, Zenon
  <2>3. 0 \in 0..MaxPieces
    BY <1>1
  <2> QED BY <2>2, <2>3 DEF Piece, Frames
<1>5. Facts(S) \in [1..N -> Frames]
  BY <1>3, <1>4
<1>6. Facts(S) \in Seq(Frames) /\ Len(Facts(S)) = N
  BY <1>2, <1>5
<1> QED BY <1>2, <1>3, <1>4, <1>6 DEF N

LEMMA FactsInSeq ==
  ASSUME NEW s \in Seq(Frames)
  PROVE  FactsIn(s) = {s[i].seq : i \in {j \in 1..Len(s) : s[j].piece = 0}}
  BY DEF FactsIn, Range

LEMMA FactsInFacts ==
  ASSUME NEW S \in SUBSET (1..MaxSeq)
  PROVE  FactsIn(Facts(S)) = S
<1>1. FactsIn(Facts(S)) = {Facts(S)[i].seq : i \in {j \in 1..Len(Facts(S)) : Facts(S)[j].piece = 0}}
  BY FactsOf, FactsInSeq
<1> HIDE DEF Facts
<1>2. /\ \A i \in 1..Len(Facts(S)) : Facts(S)[i].seq \in S /\ Facts(S)[i].piece = 0
      /\ \A n \in S : \E i \in 1..Len(Facts(S)) : Facts(S)[i].seq = n
  BY FactsOf
<1> QED BY <1>1, <1>2

LEMMA FactsInConcat ==
  ASSUME NEW s \in Seq(Frames), NEW t \in Seq(Frames)
  PROVE  FactsIn(s \o t) = FactsIn(s) \cup FactsIn(t)
<1>1. s \o t \in Seq(Frames) /\ Len(s \o t) = Len(s) + Len(t) /\ Len(s) \in Nat /\ Len(t) \in Nat
  OBVIOUS
<1>2. \A i \in 1..Len(s) : (s \o t)[i] = s[i] /\ i \in 1..Len(s \o t)
  BY <1>1
<1>3. \A i \in 1..Len(t) : (s \o t)[Len(s) + i] = t[i] /\ Len(s) + i \in 1..Len(s \o t)
  BY <1>1
<1>4. \A i \in 1..Len(s \o t) : i \in 1..Len(s)
      \/ (i - Len(s) \in 1..Len(t) /\ i = Len(s) + (i - Len(s)))
  BY <1>1
<1>5. /\ FactsIn(s) = {s[i].seq : i \in {j \in 1..Len(s) : s[j].piece = 0}}
      /\ FactsIn(t) = {t[i].seq : i \in {j \in 1..Len(t) : t[j].piece = 0}}
      /\ FactsIn(s \o t) = {(s \o t)[i].seq : i \in {j \in 1..Len(s \o t) : (s \o t)[j].piece = 0}}
  BY <1>1, FactsInSeq
<1> DEFINE both == s \o t
<1> HIDE DEF both
<1>6. \A n : n \in FactsIn(s) <=> \E i \in 1..Len(s) : s[i].piece = 0 /\ s[i].seq = n
  BY <1>5
<1>7. \A n : n \in FactsIn(t) <=> \E i \in 1..Len(t) : t[i].piece = 0 /\ t[i].seq = n
  BY <1>5
<1>8. \A n : n \in FactsIn(both) <=> \E i \in 1..Len(both) : both[i].piece = 0 /\ both[i].seq = n
  BY <1>5 DEF both
<1>9. ASSUME NEW n \in FactsIn(s) PROVE n \in FactsIn(both)
  <2>1. PICK i \in 1..Len(s) : s[i].piece = 0 /\ s[i].seq = n
    BY <1>6
  <2>2. both[i] = s[i] /\ i \in 1..Len(both)
    BY <1>2 DEF both
  <2> QED BY <1>8, <2>1, <2>2
<1>10. ASSUME NEW n \in FactsIn(t) PROVE n \in FactsIn(both)
  <2>1. PICK i \in 1..Len(t) : t[i].piece = 0 /\ t[i].seq = n
    BY <1>7
  <2>2. both[Len(s) + i] = t[i] /\ Len(s) + i \in 1..Len(both)
    BY <1>3 DEF both
  <2> QED BY <1>8, <2>1, <2>2
<1>11. ASSUME NEW n \in FactsIn(both) PROVE n \in FactsIn(s) \cup FactsIn(t)
  <2>1. PICK i \in 1..Len(both) : both[i].piece = 0 /\ both[i].seq = n
    BY <1>8
  <2>2. \/ i \in 1..Len(s) /\ both[i] = s[i]
        \/ i - Len(s) \in 1..Len(t) /\ both[i] = t[i - Len(s)]
    BY <1>2, <1>3, <1>4 DEF both
  <2> QED BY <1>6, <1>7, <2>1, <2>2
<1> QED BY <1>9, <1>10, <1>11 DEF both

\* The highest number of a set.
LEMMA MaxOf ==
  ASSUME NEW S \in SUBSET (1..MaxSeq), S # {}
  PROVE  Max(S) \in S /\ \A n \in S : Max(S) >= n
<1>1. MaxSeq \in Nat
  BY ConstantsAssumption
<1> DEFINE N == Cardinality(S)
<1>2. /\ N \in Nat /\ InOrder(S) \in [1..N -> S]
      /\ \A i, j \in 1..N : i < j => InOrder(S)[i] < InOrder(S)[j]
      /\ \A n \in S : \E i \in 1..N : InOrder(S)[i] = n
  BY <1>1, InOrderLists
<1> HIDE DEF N
<1>3. N \in 1..N
  <2>1. PICK n \in S : TRUE
    OBVIOUS
  <2>2. PICK i \in 1..N : InOrder(S)[i] = n
    BY <1>2, <2>1
  <2> QED BY <1>2, <2>2
<1>4. \A n \in S : InOrder(S)[N] >= n
  <2> SUFFICES ASSUME NEW n \in S PROVE InOrder(S)[N] >= n
    OBVIOUS
  <2>1. PICK i \in 1..N : InOrder(S)[i] = n
    BY <1>2
  <2>2. i = N \/ InOrder(S)[i] < InOrder(S)[N]
    BY <1>2, <1>3, <2>1
  <2>3. InOrder(S)[N] \in S
    BY <1>2, <1>3
  <2> DEFINE top == InOrder(S)[N]
  <2>4. top \in S /\ (i = N \/ n < top) /\ (i = N => n = top)
    BY <2>1, <2>2, <2>3
  <2> HIDE DEF top
  <2>5. top \in Nat /\ n \in Nat
    BY <2>4
  <2>6. top >= n
    BY <2>4, <2>5
  <2> QED BY <2>6 DEF top
<1>5. \E x \in S : \A y \in S : x >= y
  BY <1>2, <1>3, <1>4
<1> QED BY <1>5 DEF Max

-----------------------------------------------------------------------------
(* The inductive invariant.                                                 *)

Via(k) == {f.seq : f \in {g \in facts : g.via = k}}
Past(k) == {f.seq : f \in {g \in facts : g.via \in 1..(k-1)}}

\* The stages of an execution, who holds the lock of the thread, and the status.
StageInv ==
  /\ installed = IF stage \in {"none", "begun", "done"} THEN 0 ELSE round
  /\ closed = IF stage = "done" THEN 1..round ELSE 1..(round-1)
  /\ broken \subseteq 1..round
  /\ stage = "none" <=> round = 0
  /\ stage = "none" <=> status = "absent"
  /\ stage = "begun" => gate = "op" /\ status = "running"
  /\ stage = "ingested" => status = "running"
  /\ stage = "settled" => status # "running"
  /\ status = "interrupted" => stage \in {"settled", "finish", "done"}
  /\ gate = "cancel" => status = "final" /\ stage \in {"created", "graph", "settle", "finish"}
  /\ round \in broken => stage \in {"settle", "settled", "finish", "done"}

\* The stages of an execution whose Run may be paused.
Over == {"settled", "finish", "done"}

\* The numbers: no two facts have one, a reserved one is no fact's, and those below
\* the start of an invocation are the facts of the invocations before and, of a Run
\* that has ended, what it carried over a pause.
NumberInv ==
  /\ \A f, g \in facts : f.seq = g.seq => f = g
  /\ \A f \in facts : f.seq <= counter /\ f.via <= round
  /\ \A f \in facts : f.via = 0 => status = "final" /\ stage \in Over
  /\ \A n \in reserved : n \notin Numbers(facts)
  /\ \A k \in 1..round : start[k] <= counter /\ start[k] >= 1
  /\ \A j, k \in 1..round : j <= k => start[j] <= start[k]
  /\ \A k \in 1..round : \A f \in facts : f.via \in 1..(k-1) => f.seq < start[k]
  /\ \A k \in 1..round : \A f \in facts :
       f.seq < start[k] /\ f.via \notin 1..(k-1) => status = "final" /\ f.via \in {0, round}
  /\ round > 0 => \E f \in facts : f.via = round /\ f.seq >= start[round]
  /\ \A n \in 1..MaxSeq : n > counter => pieces[n] = 0

\* What is owed is a fact of the invocation, by whoever has to publish it, and
\* everything is owed that is not on the stream.
OwedInv ==
  /\ owed.initial # {} => stage \in {"begun", "created"}
  /\ owed.task # {} => stage \in {"ingested", "settled"}
  /\ owed.cancel # {} => gate = "cancel"
  /\ owed.initial \cup owed.task \cup owed.cancel \subseteq Via(round)
  /\ round # 0 /\ round \notin broken =>
       Via(round) \subseteq FactsIn(stream[round]) \cup owed.initial \cup owed.task \cup owed.cancel

\* A stream: the facts of its invocation, and pieces of texts that were produced.
FrameOk(k, a) ==
  /\ a.piece = 0 => a.seq \in Via(k)
  /\ a.piece <= pieces[a.seq]
  /\ a.piece # 0 => start[k] <= a.seq
  /\ a.seq <= counter

Follows(a, b) == a.seq = b.seq => a.piece # 0 /\ (b.piece = 0 \/ b.piece > a.piece)

StreamInv ==
  /\ stream \in [Rounds -> Seq(Frames)]
  /\ \A k \in Rounds : k > round => stream[k] = <<>>
  /\ \A k \in Rounds : \A i \in 1..Len(stream[k]) : FrameOk(k, stream[k][i])
  /\ \A k \in Rounds : \A i, j \in 1..Len(stream[k]) : i < j => Follows(stream[k][i], stream[k][j])
  /\ \A k \in closed \ broken : Via(k) \subseteq FactsIn(stream[k])

\* What an observer has: the history it was built on, and the frames delivered since.
\* Of the facts that are numbered before the invocation, the history has those of the
\* invocations before, and what else was committed when it was read.
Precedes(S, o) ==
  IF o.pc \in {"follow", "done"}
    THEN Past(o.round) \subseteq S /\ \A n \in S : n < start[o.round]
    ELSE S = {}

Joined(o, H) ==
  /\ Len(o.got) = Len(H) + o.next - 1
  /\ \A i \in 1..Len(H) : o.got[i] = H[i]
  /\ \A i \in 1..(o.next - 1) : o.got[Len(H) + i] = stream[o.round][i]

Watches(o) ==
  /\ o.round \in 1..round
  /\ o.next - 1 <= Len(stream[o.round])
  /\ o.pc \in {"done", "detached"} => o.next = Len(stream[o.round]) + 1 /\ o.round \in closed
  /\ \E S \in SUBSET Numbers(facts) : Precedes(S, o) /\ Joined(o, Facts(S))

Observers ==
  [pc : {"idle", "read", "reread", "again", "list", "unavailable", "follow", "attached", "done",
         "detached"},
   status : Active \cup {"none", "final"}, round : 0..MaxRounds, got : Seq(Frames),
   next : Nat \ {0}]

ObserverInv ==
  /\ obs \in Observers
  /\ obs.pc \in {"read", "reread"} <=> gate = "read"
  /\ obs.pc \in {"idle", "read", "reread", "again", "unavailable", "list"} => obs.got = <<>>
  /\ obs.pc = "list" => obs.round \in 0..round /\ obs.next = 1
  /\ obs.pc \in {"read", "reread", "again", "idle"} => obs.round = 0 /\ obs.next = 1
  /\ obs.pc \in {"follow", "attached", "detached"} => Watches(obs)
  /\ obs.pc = "done" /\ obs.round # 0 => Watches(obs)
  /\ obs.pc = "done" /\ obs.round = 0 =>
       \E S \in SUBSET Numbers(facts) : /\ obs.got = Facts(S)
                                        /\ obs.status = "final" => S = Numbers(facts)
  /\ obs.status = "final" => status = "final" /\ obs.round = 0

IInv == TypeOK /\ StageInv /\ NumberInv /\ OwedInv /\ StreamInv /\ ObserverInv

-----------------------------------------------------------------------------
(* What the steps have in common.                                           *)

LEMMA Bounds ==
  /\ MaxRounds \in Nat /\ MaxRounds >= 1 /\ MaxSeq \in Nat
  /\ MaxPieces \in Nat /\ MaxPieces >= 1 /\ Rounds = 1..MaxRounds
  BY ConstantsAssumption DEF Rounds

LEMMA FactParts ==
  ASSUME TypeOK
  PROVE  /\ \A f \in facts : f.seq \in 1..MaxSeq /\ f.via \in 0..MaxRounds
         /\ Numbers(facts) \in SUBSET (1..MaxSeq)
         /\ \A k : Via(k) \in SUBSET (1..MaxSeq) /\ Past(k) \in SUBSET (1..MaxSeq)
<1>1. \A f \in facts : f.seq \in 1..MaxSeq /\ f.via \in 0..MaxRounds
  BY DEF TypeOK
<1> QED BY <1>1 DEF Numbers, Via, Past

LEMMA FreshNumbers ==
  ASSUME counter \in Nat, NEW n \in Nat
  PROVE  Fresh(n) = (counter + 1)..(counter + n)
  BY DEF Fresh

\* Facts that are written belong to one invocation only.
LEMMA Written ==
  ASSUME NEW W, NEW via, Write(W, via)
  PROVE  /\ \A f \in facts' : f \in facts \/ (f.seq \in W /\ f.via = via)
         /\ facts \subseteq facts'
         /\ \A n \in W : \E f \in facts' : f.seq = n /\ f.via = via
         /\ Numbers(facts)' = Numbers(facts) \cup W
         /\ \A k : Via(k)' = Via(k) \cup (IF k = via THEN W ELSE {})
         /\ \A k : via \notin 1..(k-1) => Past(k)' = Past(k)
<1>1. facts' = facts \cup {[seq |-> n, via |-> via] : n \in W}
  BY DEF Write
<1>2. \A f \in facts' : f \in facts \/ (f.seq \in W /\ f.via = via)
  BY <1>1
<1>3. facts \subseteq facts' /\ \A n \in W : \E f \in facts' : f.seq = n /\ f.via = via
  <2>1. ASSUME NEW n \in W PROVE \E f \in facts' : f.seq = n /\ f.via = via
    <3>1. [seq |-> n, via |-> via] \in facts'
      BY <1>1
    <3> QED BY <3>1
  <2> QED BY <1>1, <2>1
<1>4. Numbers(facts)' = Numbers(facts) \cup W
  BY <1>2, <1>3 DEF Numbers
<1>5. ASSUME NEW k PROVE Via(k)' = Via(k) \cup (IF k = via THEN W ELSE {})
  BY <1>2, <1>3 DEF Via
<1>6. ASSUME NEW k, via \notin 1..(k-1) PROVE Past(k)' = Past(k)
  BY <1>2, <1>3, <1>6 DEF Past
<1> QED BY <1>2, <1>3, <1>4, <1>5, <1>6

LEMMA WrittenType ==
  ASSUME TypeOK, NEW W \in SUBSET (1..MaxSeq), NEW via \in 0..MaxRounds, Write(W, via)
  PROVE  facts' \subseteq [seq : 1..MaxSeq, via : 0..MaxRounds]
  BY DEF TypeOK, Write

\* The numbers stay in order when an invocation that is there writes at numbers that
\* are new or reserved.
LEMMA NumbersStay ==
  ASSUME TypeOK, NumberInv, NEW W, NEW via \in {0, round}, Write(W, via),
         W \subseteq reserved \cup ((counter + 1)..counter'),
         status' = "final" \/ \A n \in W : n >= start[round],
         counter' \in Nat, counter <= counter',
         reserved' \subseteq (reserved \cup ((counter + 1)..counter')) \ W,
         UNCHANGED <<round, start>>, round # 0,
         status # "final", via = 0 => status' = "final" /\ stage' \in Over,
         \A n \in 1..MaxSeq : n > counter' => pieces'[n] = 0
  PROVE  NumberInv'
<1>1. /\ \A f \in facts : f.seq \in Nat /\ f.via \in Nat /\ f.seq <= counter
      /\ \A n \in reserved : n \in Nat /\ n <= counter
      /\ counter \in Nat /\ round \in Nat /\ \A k \in 1..round : start[k] \in Nat
  <2>1. \A f \in facts : f.seq \in Nat /\ f.via \in Nat /\ f.seq <= counter
    BY FactParts DEF NumberInv
  <2>2. counter \in Nat /\ round \in Nat /\ \A n \in reserved : n \in 1..counter
    BY Bounds DEF TypeOK
  <2>3. \A k \in 1..round : start[k] \in Nat
    BY Bounds DEF TypeOK
  <2> QED BY <2>1, <2>2, <2>3
<1>2. /\ \A f \in facts' : f \in facts \/ (f.seq \in W /\ f.via = via)
      /\ facts \subseteq facts'
      /\ Numbers(facts)' = Numbers(facts) \cup W
  BY Written
<1>3. \A n \in W : /\ n \in Nat /\ n <= counter' /\ n \notin Numbers(facts)
  <2>1. \A n \in (counter + 1)..counter' : n > counter
    BY <1>1
  <2>2. \A n \in Numbers(facts) : n <= counter
    BY <1>1 DEF Numbers
  <2> QED BY <1>1, <2>1, <2>2 DEF NumberInv
<1>4. ASSUME NEW f \in facts', NEW g \in facts', f.seq = g.seq PROVE f = g
  <2>1. CASE f \in facts /\ g \in facts
    BY <1>4, <2>1 DEF NumberInv
  <2>2. CASE f \in facts /\ g \notin facts
    BY <1>2, <1>3, <1>4, <2>2 DEF Numbers
  <2>3. CASE f \notin facts /\ g \in facts
    BY <1>2, <1>3, <1>4, <2>3 DEF Numbers
  <2>4. CASE f \notin facts /\ g \notin facts
    BY <1>4, <2>4 DEF Write
  <2> QED BY <2>1, <2>2, <2>3, <2>4
<1>5. \A f \in facts' : f.seq <= counter' /\ f.via <= round
  BY <1>1, <1>2, <1>3 DEF NumberInv
<1>6. ASSUME NEW f \in facts', f.via = 0 PROVE status' = "final" /\ stage' \in Over
  <2>1. CASE f \in facts
    BY <1>6, <2>1 DEF NumberInv
  <2>2. CASE f \notin facts
    BY <1>2, <1>6, <2>2
  <2> QED BY <2>1, <2>2
<1>7. ASSUME NEW n \in reserved' PROVE n \notin Numbers(facts)'
  <2>1. n \notin W
    OBVIOUS
  <2>2. CASE n \in reserved
    BY <1>2, <2>1, <2>2 DEF NumberInv
  <2>3. CASE n \in (counter + 1)..counter'
    <3>1. n \notin Numbers(facts)
      BY <1>1, <2>3 DEF Numbers
    <3> QED BY <1>2, <2>1, <3>1
  <2> QED BY <2>2, <2>3
<1>8. \A k \in 1..round : start[k] <= counter' /\ start[k] >= 1
  BY <1>1 DEF NumberInv
<1>9. ASSUME NEW k \in 1..round, NEW f \in facts', f.via \in 1..(k-1) PROVE f.seq < start[k]
  <2>1. CASE f \in facts
    BY <1>9, <2>1 DEF NumberInv
  <2>2. CASE f \notin facts
    BY <1>1, <1>2, <1>9, <2>2
  <2> QED BY <2>1, <2>2
<1>10. ASSUME NEW k \in 1..round, NEW f \in facts', f.seq < start[k], f.via \notin 1..(k-1)
       PROVE  status' = "final" /\ f.via \in {0, round}
  <2>1. f \notin facts
    BY <1>10 DEF NumberInv
  <2>2. f.seq \in W /\ f.via = via /\ f.seq \in Nat
    BY <1>2, <1>3, <2>1
  <2>3. start[k] <= start[round] /\ start[k] \in Nat /\ start[round] \in Nat
    BY <1>1 DEF NumberInv
  <2>4. ~(f.seq >= start[round])
    BY <1>10, <2>2, <2>3
  <2> QED BY <2>2, <2>4
<1>11. round > 0 => \E f \in facts' : f.via = round /\ f.seq >= start[round]
  BY <1>2 DEF NumberInv
<1>12. /\ round' = round /\ start' = start
       /\ \A j, k \in 1..round : j <= k => start[j] <= start[k]
  BY DEF NumberInv
<1> QED BY <1>4, <1>5, <1>6, <1>7, <1>8, <1>9, <1>10, <1>11, <1>12 DEF NumberInv

LEMMA NumbersUnchanged ==
  ASSUME NumberInv, UNCHANGED <<facts, counter, reserved, round, start, status, pieces>>,
         stage \in Over => stage' \in Over
  PROVE  NumberInv'
<1>1. Numbers(facts)' = Numbers(facts)
  BY DEF Numbers
<1> QED BY <1>1 DEF NumberInv

\* A step that publishes nothing keeps the streams.
LEMMA StreamsStay ==
  ASSUME TypeOK, NumberInv, StreamInv, stream' = stream,
         round' \in Nat, round <= round', counter' \in Nat, counter <= counter',
         pieces' \in [1..MaxSeq -> Nat], \A n \in 1..MaxSeq : pieces[n] <= pieces'[n],
         \A k \in 1..round : start'[k] = start[k],
         \A k : Via(k) \subseteq Via(k)',
         \A k \in closed' \ broken' : Via(k)' \subseteq FactsIn(stream[k])
  PROVE  StreamInv'
<1>1. \A k \in Rounds : k > round' => stream[k] = <<>>
  BY Bounds DEF TypeOK, StreamInv
<1>2. ASSUME NEW k \in Rounds, NEW i \in 1..Len(stream[k]) PROVE FrameOk(k, stream[k][i])'
  <2>1. stream[k] \in Seq(Frames) /\ stream[k][i] \in Frames
    BY DEF StreamInv
  <2>2. FrameOk(k, stream[k][i])
    BY DEF StreamInv
  <2>3. stream[k] # <<>>
    BY <2>1
  <2>4. k \in 1..round
    BY <2>3, Bounds DEF StreamInv, TypeOK
  <2> DEFINE a == stream[k][i]
  <2>5. a.seq \in 1..MaxSeq /\ a.piece \in Nat
    <3>1. a.seq \in 1..MaxSeq /\ a.piece \in 0..MaxPieces
      BY <2>1 DEF Frames
    <3> QED BY <3>1, Bounds
  <2> HIDE DEF a
  <2>6. pieces[a.seq] \in Nat
    BY <2>5, Bounds DEF TypeOK
  <2>7. a.piece <= pieces[a.seq] /\ (a.piece # 0 => start[k] <= a.seq) /\ a.seq <= counter
        /\ (a.piece = 0 => a.seq \in Via(k))
    BY <2>2 DEF FrameOk, a
  <2>8. a.piece <= pieces'[a.seq]
    BY <2>5, <2>6, <2>7
  <2>9. (a.piece # 0 => start'[k] <= a.seq) /\ a.seq <= counter'
    BY <2>4, <2>5, <2>7 DEF TypeOK
  <2>10. a.piece = 0 => a.seq \in Via(k)'
    BY <2>7
  <2>11. stream'[k][i] = a
    BY DEF a
  <2> QED BY <2>8, <2>9, <2>10, <2>11 DEF FrameOk, a
<1> QED BY <1>1, <1>2 DEF StreamInv

\* A step that adds frames to the stream of the invocation that runs keeps them all if
\* each of the frames fits in, after what is there.
FitsNext(k, a) ==
  /\ a.piece = 0 => a.seq \in Via(k)'
  /\ a.piece <= pieces'[a.seq]
  /\ a.piece # 0 => start'[k] <= a.seq
  /\ a.seq <= counter'

LEMMA StreamsGrow ==
  ASSUME TypeOK, NumberInv, StreamInv, NEW t \in Seq(Frames), Send(round, t),
         round \in Rounds, round \notin closed,
         UNCHANGED <<facts, round, start, closed, broken>>,
         counter' \in Nat, counter <= counter',
         pieces' \in [1..MaxSeq -> Nat], \A n \in 1..MaxSeq : pieces[n] <= pieces'[n],
         \A j \in 1..Len(t) : FitsNext(round, t[j]),
         \A i, j \in 1..Len(t) : i < j => Follows(t[i], t[j]),
         \A i \in 1..Len(stream[round]), j \in 1..Len(t) : Follows(stream[round][i], t[j])
  PROVE  /\ StreamInv'
         /\ stream'[round] = stream[round] \o t
         /\ \A k \in Rounds : k # round => stream'[k] = stream[k]
<1> DEFINE s == stream[round]
<1>1. stream' = [stream EXCEPT ![round] = s \o t]
  BY DEF Send
<1>2. s \in Seq(Frames) /\ stream \in [Rounds -> Seq(Frames)]
  BY DEF StreamInv
<1>3. s \o t \in Seq(Frames) /\ Len(s) \in Nat /\ Len(t) \in Nat /\ Len(s \o t) = Len(s) + Len(t)
  BY <1>2
<1>4. /\ stream' \in [Rounds -> Seq(Frames)]
      /\ stream'[round] = s \o t
      /\ \A k \in Rounds : k # round => stream'[k] = stream[k]
  BY <1>1, <1>2, <1>3
<1>5. ASSUME NEW i \in 1..Len(s \o t)
      PROVE  \/ i \in 1..Len(s) /\ (s \o t)[i] = s[i]
             \/ i - Len(s) \in 1..Len(t) /\ (s \o t)[i] = t[i - Len(s)]
  BY <1>2, <1>3
<1>6. \A k : Via(k)' = Via(k)
  BY DEF Via
<1>7. ASSUME NEW k \in Rounds, NEW i \in 1..Len(stream[k]) PROVE FitsNext(k, stream[k][i])
  <2>1. FrameOk(k, stream[k][i]) /\ stream[k][i] \in Frames
    BY DEF StreamInv
  <2> DEFINE a == stream[k][i]
  <2>2. a.seq \in 1..MaxSeq /\ a.piece \in Nat
    BY <2>1, Bounds DEF Frames
  <2> HIDE DEF a
  <2>3. pieces[a.seq] \in Nat
    BY <2>2, Bounds DEF TypeOK
  <2>4. /\ a.piece <= pieces[a.seq] /\ (a.piece # 0 => start[k] <= a.seq) /\ a.seq <= counter
        /\ a.piece = 0 => a.seq \in Via(k)
    BY <2>1 DEF FrameOk, a
  <2>5. a.piece <= pieces'[a.seq] /\ a.seq <= counter'
    <3>1. pieces'[a.seq] \in Nat /\ pieces[a.seq] <= pieces'[a.seq] /\ counter \in Nat
      BY <2>2, Bounds DEF TypeOK
    <3> QED BY <2>2, <2>3, <2>4, <3>1
  <2> QED BY <1>6, <2>4, <2>5 DEF FitsNext, a
<1>8. ASSUME NEW k \in Rounds, NEW i \in 1..Len(stream'[k]) PROVE FitsNext(k, stream'[k][i])
  <2>1. CASE k # round
    BY <1>4, <1>7, <2>1
  <2>2. CASE k = round
    BY <1>4, <1>5, <1>7, <2>2
  <2> QED BY <2>1, <2>2
<1>9. ASSUME NEW k \in Rounds, NEW i \in 1..Len(stream'[k]), NEW j \in 1..Len(stream'[k]), i < j
      PROVE  Follows(stream'[k][i], stream'[k][j])
  <2>1. CASE k # round
    BY <1>4, <1>9, <2>1 DEF StreamInv
  <2>2. CASE k = round
    <3>1. i \in 1..Len(s \o t) /\ j \in 1..Len(s \o t)
      BY <1>4, <2>2
    <3>2. CASE i \in 1..Len(s) /\ j \in 1..Len(s)
      <4>1. (s \o t)[i] = s[i] /\ (s \o t)[j] = s[j]
        BY <1>3, <3>2
      <4>2. Follows(s[i], s[j])
        BY <1>9, <3>2 DEF StreamInv
      <4> QED BY <1>4, <2>2, <4>1, <4>2
    <3>3. CASE i \in 1..Len(s) /\ j \notin 1..Len(s)
      <4>1. (s \o t)[i] = s[i] /\ j - Len(s) \in 1..Len(t) /\ (s \o t)[j] = t[j - Len(s)]
        BY <1>3, <1>5, <3>1, <3>3
      <4> QED BY <1>4, <2>2, <3>3, <4>1
    <3>4. CASE i \notin 1..Len(s)
      <4>1. j \notin 1..Len(s)
        BY <1>3, <1>9, <3>1, <3>4
      <4>2. /\ i - Len(s) \in 1..Len(t) /\ (s \o t)[i] = t[i - Len(s)]
            /\ j - Len(s) \in 1..Len(t) /\ (s \o t)[j] = t[j - Len(s)]
            /\ i - Len(s) < j - Len(s)
        BY <1>3, <1>5, <1>9, <3>1, <3>4, <4>1
      <4> QED BY <1>4, <2>2, <4>2
    <3> QED BY <3>2, <3>3, <3>4
  <2> QED BY <2>1, <2>2
<1>10. \A k \in closed \ broken : Via(k)' \subseteq FactsIn(stream'[k])
  <2> SUFFICES ASSUME NEW k \in closed \ broken PROVE Via(k)' \subseteq FactsIn(stream'[k])
    OBVIOUS
  <2>1. k \in Rounds /\ k # round
    BY DEF TypeOK
  <2> QED BY <1>4, <1>6, <2>1 DEF StreamInv
<1>11. \A k \in Rounds : k > round' => stream'[k] = <<>>
  BY <1>4, Bounds DEF StreamInv, TypeOK
<1>12. ASSUME NEW k \in Rounds, NEW i \in 1..Len(stream'[k]) PROVE FrameOk(k, stream[k][i])'
  BY <1>8 DEF FrameOk, FitsNext
<1> HIDE DEF s
<1>13. StreamInv'
  BY <1>4, <1>9, <1>10, <1>11, <1>12 DEF StreamInv
<1> QED BY <1>4, <1>13 DEF s

\* RunEventIngestor.publish: what was not on the stream is on it, and nothing else.
LEMMA StreamsTake ==
  ASSUME IInv, NEW P, P \subseteq Via(round), Publish(round, P), round \in Rounds,
         round \notin closed,
         UNCHANGED <<facts, counter, pieces, round, start, closed, broken>>
  PROVE  /\ StreamInv'
         /\ stream'[round] = stream[round] \o Facts(P \ FactsIn(stream[round]))
         /\ \A k \in Rounds : k # round => stream'[k] = stream[k]
         /\ FactsIn(stream'[round]) = FactsIn(stream[round]) \cup P
<1> DEFINE new == P \ FactsIn(stream[round])
           t == Facts(new)
<1>1. TypeOK /\ NumberInv /\ StreamInv /\ stream[round] \in Seq(Frames)
  BY DEF IInv, StreamInv
<1>2. new \in SUBSET (1..MaxSeq) /\ new \subseteq Via(round)
  BY <1>1, FactParts
<1>3. /\ t \in Seq(Frames)
      /\ \A i \in 1..Len(t) : t[i].seq \in new /\ t[i].piece = 0 /\ t[i].seq \in Nat
      /\ \A i, j \in 1..Len(t) : i < j => t[i].seq < t[j].seq
  <2>1. new \in SUBSET (1..MaxSeq) /\ t = Facts(new)
    BY <1>2
  <2> HIDE DEF new
  <2>2. /\ Facts(new) \in Seq(Frames)
        /\ \A i \in 1..Len(Facts(new)) : Facts(new)[i].seq \in new /\ Facts(new)[i].piece = 0
        /\ \A i, j \in 1..Len(Facts(new)) : i < j => Facts(new)[i].seq < Facts(new)[j].seq
    BY <2>1, FactsOf
  <2>3. \A n \in new : n \in Nat
    BY <2>1, Bounds
  <2> QED BY <2>2, <2>3
<1>4. Send(round, t)
  BY DEF Publish
<1>5. FactsIn(t) = new
  BY <1>2, FactsInFacts
<1>6. /\ \A n \in Via(round) : n <= counter /\ n \in 1..MaxSeq
      /\ pieces \in [1..MaxSeq -> Nat] /\ counter \in Nat
  <2>3. pieces \in [1..MaxSeq -> Nat] /\ counter \in Nat
    BY <1>1, Bounds DEF TypeOK
  <2>4. \A n \in Via(round) : n \in 1..MaxSeq
    BY <1>1, FactParts
  <2> QED BY <1>1, <2>3, <2>4 DEF Via, NumberInv
<1> HIDE DEF new, t
<1>7. ASSUME NEW j \in 1..Len(t) PROVE FitsNext(round, t[j])
  <2>1. t[j].piece = 0 /\ t[j].seq \in Via(round) /\ t[j].seq \in 1..MaxSeq
    BY <1>2, <1>3, <1>6
  <2>2. pieces'[t[j].seq] \in Nat
    BY <1>6, <2>1
  <2>3. Via(round)' = Via(round)
    BY DEF Via
  <2> QED BY <1>6, <2>1, <2>2, <2>3 DEF FitsNext
<1>8. ASSUME NEW i \in 1..Len(t), NEW j \in 1..Len(t), i < j PROVE Follows(t[i], t[j])
  BY <1>3, <1>8 DEF Follows
<1>9. ASSUME NEW i \in 1..Len(stream[round]), NEW j \in 1..Len(t)
      PROVE  Follows(stream[round][i], t[j])
  <2>1. t[j].seq \notin FactsIn(stream[round]) /\ t[j].piece = 0
    BY <1>3 DEF new
  <2>2. stream[round][i].piece = 0 => stream[round][i].seq \in FactsIn(stream[round])
    BY <1>1, FactsInSeq
  <2> QED BY <2>1, <2>2 DEF Follows
<1>10. \A n \in 1..MaxSeq : pieces[n] <= pieces'[n]
  BY <1>6
<1>11. /\ StreamInv'
       /\ stream'[round] = stream[round] \o t
       /\ \A k \in Rounds : k # round => stream'[k] = stream[k]
  BY <1>1, <1>3, <1>4, <1>6, <1>7, <1>8, <1>9, <1>10, StreamsGrow
<1>12. FactsIn(stream'[round]) = FactsIn(stream[round]) \cup new
  BY <1>1, <1>3, <1>5, <1>11, FactsInConcat
<1> QED BY <1>11, <1>12 DEF new, t

-----------------------------------------------------------------------------
(* An observer that does nothing.                                           *)

LEMMA ObserverStays ==
  ASSUME IInv, obs' = obs, gate' = "read" <=> gate = "read",
         round' \in Nat, round <= round',
         \A k \in 1..round : Past(k)' = Past(k) /\ start'[k] = start[k],
         \A k \in Rounds : \/ stream'[k] = stream[k]
                           \/ k \notin closed /\ \E t \in Seq(Frames) : stream'[k] = stream[k] \o t,
         closed \subseteq closed',
         Numbers(facts) \subseteq Numbers(facts)',
         status = "final" => status' = "final" /\ facts' = facts
  PROVE  ObserverInv'
<1>1. ASSUME obs.round # 0, Watches(obs) PROVE Watches(obs)'
  <2> DEFINE k == obs.round
             old == stream[k]
             new == stream'[k]
  <2>1. k \in 1..round /\ k \in Rounds /\ round \in Nat /\ old \in Seq(Frames)
        /\ obs.next \in Nat \ {0}
    BY <1>1, Bounds DEF IInv, TypeOK, StreamInv, ObserverInv, Observers, Watches
  <2>2. PICK S \in SUBSET Numbers(facts) : Precedes(S, obs) /\ Joined(obs, Facts(S))
    BY <1>1 DEF Watches
  <2>3. /\ Len(old) \in Nat /\ Len(new) \in Nat /\ Len(old) <= Len(new)
        /\ \A i \in 1..Len(old) : new[i] = old[i]
        /\ k \in closed => new = old
    <3>1. CASE new = old
      BY <2>1, <3>1
    <3>2. CASE new # old
      <4>1. PICK t \in Seq(Frames) : new = old \o t
        BY <2>1, <3>2
      <4>2. k \notin closed
        BY <2>1, <3>2
      <4> HIDE DEF k, old, new
      <4> QED BY <2>1, <4>1, <4>2
    <3> QED BY <3>1, <3>2
  <2> DEFINE h == Facts(S)
  <2>4. /\ obs.next - 1 <= Len(old)
        /\ Len(obs.got) = Len(h) + obs.next - 1
        /\ \A i \in 1..Len(h) : obs.got[i] = h[i]
        /\ \A i \in 1..(obs.next - 1) : obs.got[Len(h) + i] = old[i]
        /\ obs.pc \in {"done", "detached"} => obs.next = Len(old) + 1 /\ k \in closed
    BY <1>1, <2>2 DEF Watches, Joined
  <2>5. Precedes(S, obs)' /\ S \in SUBSET Numbers(facts)'
    BY <2>1, <2>2 DEF Precedes
  <2> HIDE DEF k, old, new, h
  <2>6. /\ k \in 1..round' /\ obs.next - 1 <= Len(new)
        /\ \A i \in 1..(obs.next - 1) : obs.got[Len(h) + i] = new[i]
        /\ obs.pc \in {"done", "detached"} => obs.next = Len(new) + 1 /\ k \in closed'
    BY <2>1, <2>3, <2>4
  <2>7. Joined(obs, Facts(S))'
    BY <2>4, <2>6 DEF Joined, k, new, h
  <2> QED BY <2>5, <2>6, <2>7 DEF Watches, k, new
<1>2. obs.round \in Nat /\ (obs.pc \in {"follow", "attached", "detached"} => obs.round # 0)
  BY DEF IInv, ObserverInv, Observers, Watches
<1>3. ASSUME obs.pc = "done", obs.round = 0
      PROVE  \E S \in SUBSET Numbers(facts)' : /\ obs.got = Facts(S)
                                               /\ obs.status = "final" => S = Numbers(facts)'
  <2>1. PICK S \in SUBSET Numbers(facts) : /\ obs.got = Facts(S)
                                           /\ obs.status = "final" => S = Numbers(facts)
    BY <1>3 DEF IInv, ObserverInv
  <2>2. obs.status = "final" => Numbers(facts)' = Numbers(facts)
    BY DEF IInv, ObserverInv, Numbers
  <2> QED BY <2>1, <2>2
<1>4. obs.pc = "list" => obs.round \in 0..round' /\ obs.next = 1
  BY DEF IInv, ObserverInv, TypeOK
<1>5. ObserverInv
  BY DEF IInv
<1> QED BY <1>1, <1>2, <1>3, <1>4, <1>5 DEF ObserverInv

-----------------------------------------------------------------------------
(* The steps of the observer.                                               *)

\* The connection is given up and another may be begun, as a window does it.
Drop ==
  /\ obs.pc \notin {"idle", "read", "reread", "again"}
  /\ obs' = Watching("idle", "none", 0, <<>>)
  /\ UNCHANGED <<db, gate, exec, broken>>

\* What a step of the observer keeps, whatever it does with the lock to read by.
LEMMA BackendStays ==
  ASSUME IInv, UNCHANGED <<db, exec, broken>>,
         \/ gate' = gate
         \/ gate = "free" /\ gate' = "read"
         \/ gate = "read" /\ gate' = "free",
         obs' \in Observers
  PROVE  TypeOK' /\ StageInv' /\ NumberInv' /\ OwedInv' /\ StreamInv'
<1>1. /\ UNCHANGED <<status, facts, counter, reserved, pieces>>
      /\ UNCHANGED <<round, stage, installed, start, stream, closed, owed>> /\ broken' = broken
  BY DEF db, exec
<1>2. obs'.round \in 0..MaxRounds /\ obs'.got \in Seq(Frames)
  BY DEF Observers
<1>3. gate' \in {"free", "op", "cancel", "read"}
      /\ (gate' = "cancel" <=> gate = "cancel") /\ (gate' = "op" <=> gate = "op")
  BY DEF IInv, TypeOK
<1>4. TypeOK'
  BY <1>1, <1>2, <1>3 DEF IInv, TypeOK
<1>5. StageInv'
  BY <1>1, <1>3 DEF IInv, StageInv
<1>6. NumberInv'
  BY <1>1, NumbersUnchanged DEF IInv
<1>7. \A k : Via(k)' = Via(k)
  BY <1>1 DEF Via
<1>8. OwedInv'
  BY <1>1, <1>3, <1>7 DEF IInv, OwedInv
<1>9. StreamInv'
  BY <1>1, <1>7 DEF IInv, StreamInv, FrameOk
<1> QED BY <1>4, <1>5, <1>6, <1>8, <1>9

LEMMA WatchingFields ==
  ASSUME NEW p, NEW s, NEW r, NEW g
  PROVE  LET w == Watching(p, s, r, g)
         IN  w.pc = p /\ w.status = s /\ w.round = r /\ w.got = g /\ w.next = 1
  BY DEF Watching

LEMMA WatchingType ==
  ASSUME NEW p \in {"idle", "read", "reread", "attached"}, NEW s \in Active \cup {"none", "final"},
         NEW r \in 0..MaxRounds
  PROVE  Watching(p, s, r, <<>>) \in Observers
<1>1. <<>> \in Seq(Frames) /\ 1 \in Nat \ {0}
  OBVIOUS
<1> QED BY <1>1 DEF Watching, Observers

LEMMA AttachKeeps == ASSUME IInv, Attach PROVE IInv'
<1>1. obs.pc = "idle" /\ stage # "begun" /\ gate' = gate /\ UNCHANGED <<db, exec, broken>>
  BY DEF Attach
<1>2. PICK k \in 1..round : obs' = Watching("attached", "running", k, <<>>)
  BY DEF Attach
<1>3. k \in 0..MaxRounds /\ k \in Rounds /\ round' = round /\ stream' = stream
  BY <1>1, Bounds DEF IInv, TypeOK, exec
<1>4. /\ obs'.pc = "attached" /\ obs'.status = "running" /\ obs'.round = k /\ obs'.got = <<>>
      /\ obs'.next = 1
  BY <1>2, WatchingFields
<1>5. obs' \in Observers
  BY <1>2, <1>3, WatchingType DEF Active
<1>6. Watches(obs)'
  <2>1. Len(Facts({})) = 0
    BY FactsOf, FS_EmptySet
  <2>2. Len(stream'[k]) \in Nat
    BY <1>3 DEF IInv, TypeOK
  <2>3. Precedes({}, obs)' /\ Joined(obs, Facts({}))'
    BY <1>4, <2>1 DEF Precedes, Joined
  <2> QED BY <1>3, <1>4, <2>2, <2>3 DEF Watches
<1>7. gate # "read"
  BY <1>1 DEF IInv, ObserverInv
<1>8. ObserverInv'
  BY <1>1, <1>4, <1>5, <1>6, <1>7 DEF ObserverInv
<1> QED BY <1>1, <1>5, <1>8, BackendStays DEF IInv

LEMMA ReadRunKeeps == ASSUME IInv, ReadRun PROVE IInv'
<1>1. /\ obs.pc \in {"idle", "again"} /\ gate = "free" /\ status # "absent" /\ gate' = "read"
      /\ UNCHANGED <<db, exec, broken>>
      /\ obs' = Watching(IF obs.pc = "idle" THEN "read" ELSE "reread", status, 0, <<>>)
  BY DEF ReadRun
<1>2. status \in Active \cup {"none", "final"} /\ 0 \in 0..MaxRounds /\ status' = status
  BY <1>1, Bounds DEF IInv, TypeOK, db
<1>3. PICK p \in {"read", "reread"} : obs' = Watching(p, status, 0, <<>>)
  BY <1>1
<1>4. /\ obs'.pc = p /\ obs'.status = status /\ obs'.round = 0 /\ obs'.got = <<>>
      /\ obs'.next = 1
  BY <1>3, WatchingFields
<1>5. obs' \in Observers
  BY <1>2, <1>3, WatchingType
<1>6. ObserverInv'
  BY <1>1, <1>2, <1>4, <1>5 DEF ObserverInv
<1> QED BY <1>1, <1>5, <1>6, BackendStays DEF IInv

LEMMA LookupKeeps == ASSUME IInv, Lookup PROVE IInv'
<1>1. obs.pc \in {"read", "reread"} /\ gate' = "free" /\ UNCHANGED <<db, exec, broken>>
  BY DEF Lookup
<1>2. \/ obs' = [obs EXCEPT !.pc = "list"]
      \/ obs' = [obs EXCEPT !.pc = "unavailable"]
      \/ obs' = [[obs EXCEPT !.pc = "list"] EXCEPT !.round = installed] /\ obs.status = "running"
      \/ obs' = [obs EXCEPT !.pc = "again"]
  <2>1. CASE obs.status # "running"
    BY <2>1 DEF Lookup
  <2>2. CASE obs.status = "running" /\ obs.pc = "reread"
    BY <2>2 DEF Lookup
  <2>3. CASE obs.status = "running" /\ obs.pc # "reread" /\ installed # 0
    BY <2>3 DEF Lookup
  <2>4. CASE obs.status = "running" /\ obs.pc # "reread" /\ installed = 0
    BY <2>4 DEF Lookup
  <2> QED BY <2>1, <2>2, <2>3, <2>4
<1>3. /\ obs \in Observers /\ gate = "read" /\ obs.got = <<>> /\ obs.round = 0 /\ obs.next = 1
      /\ obs.status = "final" => status = "final"
  BY <1>1 DEF IInv, ObserverInv
<1>4. installed \in 0..round /\ installed \in 0..MaxRounds /\ round' = round /\ status' = status
  BY <1>1, Bounds DEF IInv, TypeOK, exec, db
<1>5. /\ obs'.pc \in {"list", "unavailable", "again"}
      /\ obs'.got = <<>> /\ obs'.next = 1 /\ obs'.status = obs.status
      /\ obs'.round = 0 \/ (obs'.round = installed /\ obs'.pc = "list" /\ obs.status = "running")
      /\ obs' \in Observers
  BY <1>2, <1>3, <1>4 DEF Observers
<1>6. ObserverInv'
  BY <1>1, <1>3, <1>4, <1>5 DEF ObserverInv, IInv, TypeOK
<1> QED BY <1>1, <1>3, <1>5, <1>6, BackendStays DEF IInv

LEMMA ListKeeps == ASSUME IInv, List PROVE IInv'
<1>1. obs.pc = "list" /\ gate' = gate /\ UNCHANGED <<db, exec, broken>>
  BY DEF List
<1> DEFINE below == {f \in facts : f.seq < start[obs.round]}
           seqs == IF obs.round = 0 THEN Numbers(facts) ELSE Numbers(below)
           pc == IF obs.round = 0 THEN "done" ELSE "follow"
<1>2. /\ obs \in Observers /\ gate # "read" /\ obs.round \in 0..round /\ obs.next = 1
      /\ obs.status = "final" => status = "final" /\ obs.round = 0
  BY <1>1 DEF IInv, ObserverInv
<1>3. obs.round # 0 => Past(obs.round) \subseteq Numbers(below)
  BY <1>2 DEF IInv, NumberInv, Numbers, Past, TypeOK
<1>4. obs' = [[obs EXCEPT !.got = Facts(seqs)] EXCEPT !.pc = pc]
  BY DEF List, Boundary
<1>5. seqs \in SUBSET Numbers(facts) /\ Numbers(facts) \in SUBSET (1..MaxSeq)
  BY FactParts DEF IInv, Numbers
<1>6. Facts(seqs) \in Seq(Frames) /\ Len(Facts(seqs)) \in Nat
  BY <1>5, FactsOf
<1>7. pc \in {"done", "follow"}
  OBVIOUS
<1>8. \A n \in Numbers(below) : n < start[obs.round]
  BY DEF Numbers
<1>9. PICK S \in SUBSET Numbers(facts) : S = seqs
  BY <1>5
<1> HIDE DEF seqs, pc, below
<1>10. /\ obs' \in Observers /\ obs'.pc = pc /\ obs'.got = Facts(S) /\ obs'.next = 1
       /\ obs'.round = obs.round /\ obs'.status = obs.status
  BY <1>2, <1>4, <1>6, <1>7, <1>9 DEF Observers
<1>11. /\ status' = status /\ facts' = facts /\ round' = round /\ stream' = stream
       /\ start' = start /\ Numbers(facts)' = Numbers(facts) /\ \A k : Past(k)' = Past(k)
  BY <1>1 DEF db, exec, Past, Numbers
<1>12. ASSUME obs.round # 0 PROVE pc = "follow" /\ Watches(obs)'
  <2>1. pc = "follow" /\ S = Numbers(below)
    BY <1>9, <1>12 DEF pc, seqs
  <2>2. Precedes(S, obs)'
    BY <1>3, <1>8, <1>10, <1>11, <1>12, <2>1 DEF Precedes
  <2>3. obs.round \in 1..round /\ Len(stream[obs.round]) \in Nat
    BY <1>2, <1>12, Bounds DEF IInv, TypeOK
  <2>4. Len(Facts(S)) \in Nat
    BY <1>6, <1>9
  <2>5. Joined(obs, Facts(S))'
    BY <1>10, <2>4 DEF Joined
  <2> QED BY <1>10, <1>11, <2>1, <2>2, <2>3, <2>5 DEF Watches
<1>13. ASSUME obs.round = 0 PROVE pc = "done" /\ S = Numbers(facts)'
  BY <1>9, <1>11, <1>13 DEF pc, seqs
<1>14. ObserverInv'
  BY <1>1, <1>2, <1>7, <1>10, <1>11, <1>12, <1>13 DEF ObserverInv
<1> QED BY <1>1, <1>10, <1>14, BackendStays DEF IInv

LEMMA DeliverKeeps == ASSUME IInv, Deliver PROVE IInv'
<1>1. /\ obs.pc \in {"follow", "attached"} /\ obs.next <= Len(stream[obs.round])
      /\ gate' = gate /\ UNCHANGED <<db, exec, broken>>
  BY DEF Deliver, Following
<1>0. obs \in Observers /\ gate # "read" /\ Watches(obs)
  BY <1>1 DEF IInv, ObserverInv
<1> PICK S \in SUBSET Numbers(facts) : Precedes(S, obs) /\ Joined(obs, Facts(S))
  BY <1>0 DEF Watches
<1> DEFINE s == stream[obs.round]
           a == s[obs.next]
           h == Facts(S)
<1>2. /\ obs \in Observers /\ gate # "read" /\ Watches(obs) /\ obs.status # "final"
      /\ obs.round \in Rounds /\ s \in Seq(Frames) /\ obs.got \in Seq(Frames)
      /\ obs.next \in Nat \ {0} /\ h \in Seq(Frames)
  <2>1. obs.round \in Rounds /\ obs.round # 0
    BY <1>0, Bounds DEF Watches, IInv, TypeOK
  <2>2. S \in SUBSET (1..MaxSeq)
    BY FactParts DEF IInv
  <2>3. h \in Seq(Frames)
    BY <2>2, FactsOf
  <2>4. obs.status # "final"
    BY <2>1 DEF IInv, ObserverInv
  <2> QED BY <1>0, <2>1, <2>3, <2>4 DEF IInv, TypeOK, Observers
<1>3. obs' = [[obs EXCEPT !.got = Append(obs.got, a)] EXCEPT !.next = obs.next + 1]
  BY DEF Deliver
<1>4. a \in Frames /\ Append(obs.got, a) \in Seq(Frames) /\ Len(obs.got) \in Nat
      /\ Len(Append(obs.got, a)) = Len(obs.got) + 1 /\ Append(obs.got, a)[Len(obs.got) + 1] = a
      /\ \A i \in 1..Len(obs.got) : Append(obs.got, a)[i] = obs.got[i]
  BY <1>1, <1>2
<1> HIDE DEF a
<1>5. /\ obs' \in Observers /\ obs'.pc = obs.pc /\ obs'.got = Append(obs.got, a)
      /\ obs'.next = obs.next + 1 /\ obs'.round = obs.round /\ obs'.status = obs.status
  <2> DEFINE g == Append(obs.got, a)
             n == obs.next + 1
  <2>1. obs \in Observers /\ g \in Seq(Frames) /\ n \in Nat \ {0}
    BY <1>2, <1>4
  <2>2. obs' = [[obs EXCEPT !.got = g] EXCEPT !.next = n]
    BY <1>3
  <2> HIDE DEF g, n
  <2>3. /\ obs' \in Observers /\ obs'.pc = obs.pc /\ obs'.got = g
        /\ obs'.next = n /\ obs'.round = obs.round /\ obs'.status = obs.status
    BY <2>1, <2>2 DEF Observers
  <2> QED BY <2>3 DEF g, n
<1>6. /\ status' = status /\ facts' = facts /\ round' = round /\ stream' = stream
      /\ start' = start /\ Numbers(facts)' = Numbers(facts) /\ \A k : Past(k)' = Past(k)
  BY <1>1 DEF db, exec, Past, Numbers
<1>7. Precedes(S, obs)'
  BY <1>5, <1>6 DEF Precedes
<1>8. /\ obs.round \in 1..round /\ obs.next - 1 <= Len(s) /\ Len(obs.got) = Len(h) + obs.next - 1
      /\ \A i \in 1..Len(h) : obs.got[i] = h[i]
      /\ \A i \in 1..(obs.next - 1) : obs.got[Len(h) + i] = s[i]
  BY <1>2 DEF Watches, Joined
<1>9. Len(h) \in Nat /\ Len(s) \in Nat
  BY <1>2
<1> DEFINE got == Append(obs.got, a)
<1>10. s[obs.next] = a
  BY DEF a
<1> HIDE DEF h, s
<1>11. \A i \in 1..Len(h) : got[i] = h[i]
  <2>1. \A i \in 1..Len(h) : i \in 1..Len(obs.got)
    BY <1>2, <1>8, <1>9
  <2> QED BY <1>4, <1>8, <2>1
<1>12. ASSUME NEW i \in 1..obs.next PROVE got[Len(h) + i] = s[i]
  <2>1. CASE i = obs.next
    BY <1>4, <1>8, <1>10, <2>1
  <2>2. CASE i # obs.next
    <3>1. i \in 1..(obs.next - 1) /\ Len(h) + i \in 1..Len(obs.got)
      BY <1>2, <1>8, <1>9, <2>2
    <3> QED BY <1>4, <1>8, <3>1
  <2> QED BY <2>1, <2>2
<1>13. Len(got) = Len(h) + obs.next /\ obs.next <= Len(s) /\ obs.next = (obs.next + 1) - 1
  BY <1>1, <1>2, <1>4, <1>8, <1>9 DEF s
<1> HIDE DEF got
<1>14. Watches(obs)'
  <2>1. /\ obs'.round \in 1..round' /\ obs'.next - 1 <= Len(s)
           /\ Len(obs'.got) = Len(h) + obs'.next - 1
        /\ \A i \in 1..Len(h) : obs'.got[i] = h[i]
        /\ \A i \in 1..(obs'.next - 1) : obs'.got[Len(h) + i] = s[i]
        /\ obs'.pc \notin {"done", "detached"}
    BY <1>1, <1>2, <1>5, <1>6, <1>8, <1>9, <1>11, <1>12, <1>13 DEF got
  <2>2. stream'[obs'.round] = s
    BY <1>5, <1>6 DEF s
  <2>3. Joined(obs, Facts(S))'
    BY <2>1, <2>2 DEF Joined, h
  <2> QED BY <1>6, <1>7, <2>1, <2>2, <2>3 DEF Watches
<1>15. ObserverInv'
  BY <1>1, <1>2, <1>5, <1>6, <1>14 DEF ObserverInv
<1> QED BY <1>1, <1>5, <1>15, BackendStays DEF IInv

LEMMA EndOfStreamKeeps == ASSUME IInv, EndOfStream PROVE IInv'
<1>1. /\ obs.pc \in {"follow", "attached"} /\ obs.next > Len(stream[obs.round])
      /\ obs.round \in closed /\ gate' = gate /\ UNCHANGED <<db, exec, broken>>
  BY DEF EndOfStream, Following
<1>2. /\ obs \in Observers /\ gate # "read" /\ Watches(obs) /\ obs.round # 0
      /\ obs.status # "final" /\ obs.next \in Nat
  <2>1. obs \in Observers /\ gate # "read" /\ Watches(obs)
    BY <1>1 DEF IInv, ObserverInv
  <2>2. obs.round # 0
    BY <2>1 DEF Watches
  <2> QED BY <2>1, <2>2 DEF IInv, ObserverInv, Observers
<1> DEFINE pc == IF obs.pc = "follow" THEN "done" ELSE "detached"
<1>3. obs' = [obs EXCEPT !.pc = pc] /\ pc \in {"done", "detached"}
  BY DEF EndOfStream
<1>4. (obs.pc = "follow" <=> pc = "done") /\ (obs.pc = "attached" <=> pc = "detached")
  BY <1>1
<1> HIDE DEF pc
<1>5. /\ obs' \in Observers /\ obs'.pc = pc /\ obs'.got = obs.got
      /\ obs'.next = obs.next /\ obs'.round = obs.round /\ obs'.status = obs.status
  BY <1>2, <1>3 DEF Observers
<1>6. /\ status' = status /\ facts' = facts /\ round' = round /\ stream' = stream
      /\ closed' = closed /\ start' = start /\ Numbers(facts)' = Numbers(facts)
      /\ \A k : Past(k)' = Past(k)
  BY <1>1 DEF db, exec, Past, Numbers
<1>8. obs.next = Len(stream[obs.round]) + 1
  <2>1. obs.next - 1 <= Len(stream[obs.round]) /\ Len(stream[obs.round]) \in Nat
    BY <1>2, Bounds DEF Watches, IInv, TypeOK
  <2> QED BY <1>1, <1>2, <2>1
<1>9. Watches(obs)'
  <2>1. PICK S \in SUBSET Numbers(facts) : Precedes(S, obs) /\ Joined(obs, Facts(S))
    BY <1>2 DEF Watches
  <2>2. /\ Precedes(S, obs)'
        /\ Joined(obs, Facts(S))'
        /\ S \in SUBSET Numbers(facts)'
    <3>1. Precedes(S, obs)'
      BY <1>1, <1>3, <1>4, <1>5, <1>6, <2>1 DEF Precedes
    <3>2. Joined(obs, Facts(S))'
      BY <1>5, <1>6, <2>1 DEF Joined
    <3> QED BY <1>6, <2>1, <3>1, <3>2
  <2>3. obs'.round \in 1..round' /\ obs'.next = Len(stream'[obs'.round]) + 1
        /\ obs'.next - 1 <= Len(stream'[obs'.round]) /\ obs'.round \in closed'
    BY <1>1, <1>2, <1>5, <1>6, <1>8 DEF Watches
  <2> QED BY <2>2, <2>3 DEF Watches
<1>10. ObserverInv'
  BY <1>1, <1>2, <1>3, <1>5, <1>6, <1>9 DEF ObserverInv
<1> QED BY <1>1, <1>5, <1>10, BackendStays DEF IInv

LEMMA DropKeeps == ASSUME IInv, Drop PROVE IInv'
<1>1. /\ obs.pc \notin {"idle", "read", "reread", "again"}
      /\ obs' = Watching("idle", "none", 0, <<>>) /\ gate' = gate /\ UNCHANGED <<db, exec, broken>>
  BY DEF Drop
<1>2. /\ obs'.pc = "idle" /\ obs'.status = "none" /\ obs'.round = 0 /\ obs'.got = <<>>
      /\ obs'.next = 1
  BY <1>1, WatchingFields
<1>3. obs' \in Observers
  <2>1. 0 \in 0..MaxRounds /\ "none" \in Active \cup {"none", "final"}
    BY Bounds
  <2> QED BY <1>1, <2>1, WatchingType
<1>4. gate # "read"
  BY <1>1 DEF IInv, ObserverInv
<1>5. ObserverInv'
  BY <1>1, <1>2, <1>3, <1>4 DEF ObserverInv
<1> QED BY <1>1, <1>3, <1>5, BackendStays DEF IInv

-----------------------------------------------------------------------------
(* The steps of an invocation that write and publish nothing.               *)

LEMMA RoundThere ==
  ASSUME TypeOK, StageInv, stage # "none"
  PROVE  /\ round \in Rounds /\ round \in 1..round /\ round # 0
         /\ stage # "done" => round \notin closed /\ closed = 1..(round-1)
  BY Bounds DEF TypeOK, StageInv

\* A step of the process that leaves tables and streams alone.
LEMMA QuietStep ==
  ASSUME IInv, UNCHANGED <<db, start, stream, round, obs>>, TypeOK', StageInv', OwedInv',
         stage \in Over => stage' \in Over, gate' = "read" <=> gate = "read",
         closed \subseteq closed', broken \subseteq broken',
         \A k \in closed' \ closed : k \in broken' \/ Via(k) \subseteq FactsIn(stream[k])
  PROVE  IInv'
<1>1. /\ status' = status /\ facts' = facts /\ counter' = counter /\ reserved' = reserved
      /\ pieces' = pieces /\ start' = start /\ stream' = stream /\ round' = round /\ obs' = obs
  BY DEF db
<1>2. \A k : Via(k)' = Via(k) /\ Past(k)' = Past(k)
  BY <1>1 DEF Via, Past
<1>3. NumberInv'
  BY <1>1, NumbersUnchanged DEF IInv
<1>4. StreamInv'
  BY <1>1, <1>2 DEF IInv, StreamInv, FrameOk
<1>5. Numbers(facts)' = Numbers(facts) /\ round \in Nat
  BY <1>1 DEF Numbers, IInv, TypeOK
<1>6. ObserverInv'
  BY <1>1, <1>2, <1>5, ObserverStays
<1> QED BY <1>3, <1>4, <1>6 DEF IInv

LEMMA InstallKeeps == ASSUME IInv, Install PROVE IInv'
<1>1. /\ stage = "begun" /\ stage' = "created" /\ installed' = round /\ gate' = "free"
      /\ UNCHANGED <<db, start, stream, round, obs>>
      /\ closed' = closed /\ owed' = owed /\ broken' = broken
  BY DEF Install
<1>2. /\ status' = status /\ facts' = facts /\ counter' = counter /\ reserved' = reserved
      /\ pieces' = pieces /\ start' = start /\ stream' = stream /\ round' = round /\ obs' = obs
  BY <1>1 DEF db
<1>3. gate = "op" /\ status = "running" /\ round \notin broken /\ owed.task = {} /\ owed.cancel = {}
      /\ closed = 1..(round-1) /\ broken \subseteq 1..round /\ round # 0
  BY <1>1 DEF IInv, StageInv, OwedInv
<1>4. TypeOK'
  BY <1>1, <1>2 DEF IInv, TypeOK, Stages
<1>5. StageInv'
  BY <1>1, <1>2, <1>3 DEF StageInv
<1>6. Via(round)' = Via(round)
  BY <1>2 DEF Via
<1>7. OwedInv'
  BY <1>1, <1>2, <1>3, <1>6 DEF IInv, OwedInv
<1> QED BY <1>1, <1>3, <1>4, <1>5, <1>7, QuietStep DEF Over

LEMMA StartFailsKeeps == ASSUME IInv, StartFails PROVE IInv'
<1>1. /\ stage = "begun" /\ stage' = "settle" /\ installed' = round /\ gate' = gate
      /\ UNCHANGED <<db, start, stream, round, obs>>
      /\ closed' = closed /\ owed' = NothingOwed /\ broken' = broken \cup {round}
  BY DEF StartFails
<1>2. /\ status' = status /\ facts' = facts /\ counter' = counter /\ reserved' = reserved
      /\ pieces' = pieces /\ start' = start /\ stream' = stream /\ round' = round /\ obs' = obs
  BY <1>1 DEF db
<1>3. gate = "op" /\ status = "running" /\ round \in Rounds /\ round \in 1..round
      /\ closed = 1..(round-1) /\ broken \subseteq 1..round /\ round # 0
  BY <1>1, RoundThere DEF IInv, StageInv
<1>4. /\ owed'.initial = {} /\ owed'.task = {} /\ owed'.cancel = {}
      /\ owed' \in [initial : SUBSET (1..MaxSeq), task : SUBSET (1..MaxSeq),
                    cancel : SUBSET (1..MaxSeq)]
  BY <1>1 DEF NothingOwed
<1>5. TypeOK'
  BY <1>1, <1>2, <1>3, <1>4 DEF IInv, TypeOK, Stages
<1>6. StageInv'
  BY <1>1, <1>2, <1>3 DEF StageInv
<1>7. OwedInv'
  BY <1>1, <1>2, <1>4 DEF OwedInv
<1> QED BY <1>1, <1>5, <1>6, <1>7, QuietStep DEF Over

LEMMA StartAttemptedKeeps == ASSUME IInv, StartAttempted PROVE IInv'
<1>1. /\ gate = "op" /\ stage # "begun" /\ gate' = "free"
      /\ UNCHANGED <<db, start, stream, round, obs>>
      /\ closed' = closed /\ owed' = owed /\ broken' = broken
      /\ stage' = stage /\ installed' = installed
  BY DEF StartAttempted, exec
<1>2. /\ status' = status /\ facts' = facts /\ counter' = counter /\ reserved' = reserved
      /\ pieces' = pieces /\ start' = start /\ stream' = stream /\ round' = round /\ obs' = obs
  BY <1>1 DEF db
<1>3. TypeOK'
  BY <1>1, <1>2 DEF IInv, TypeOK, Stages
<1>4. StageInv'
  BY <1>1, <1>2 DEF IInv, StageInv
<1>5. Via(round)' = Via(round)
  BY <1>2 DEF Via
<1>6. OwedInv'
  BY <1>1, <1>2, <1>5 DEF IInv, OwedInv
<1> QED BY <1>1, <1>3, <1>4, <1>6, QuietStep DEF Over

LEMMA GraphEndsKeeps == ASSUME IInv, GraphEnds PROVE IInv'
<1>1. /\ stage = "graph" /\ stage' = "settle" /\ gate' = gate
      /\ UNCHANGED <<db, start, stream, round, obs>>
      /\ closed' = closed /\ owed' = owed /\ broken' = broken /\ installed' = installed
  BY DEF GraphEnds
<1>2. /\ status' = status /\ facts' = facts /\ counter' = counter /\ reserved' = reserved
      /\ pieces' = pieces /\ start' = start /\ stream' = stream /\ round' = round /\ obs' = obs
  BY <1>1 DEF db
<1>3. TypeOK'
  BY <1>1, <1>2 DEF IInv, TypeOK, Stages
<1>4. StageInv'
  BY <1>1, <1>2 DEF IInv, StageInv
<1>5. Via(round)' = Via(round)
  BY <1>2 DEF Via
<1>6. OwedInv'
  BY <1>1, <1>2, <1>5 DEF IInv, OwedInv
<1> QED BY <1>1, <1>3, <1>4, <1>6, QuietStep DEF Over

LEMMA LoseOutcomeKeeps == ASSUME IInv, LoseOutcome PROVE IInv'
<1>1. /\ stage = "settle" /\ round \notin broken /\ stage' = "finish" /\ gate' = gate
      /\ UNCHANGED <<db, start, stream, round, obs>>
      /\ closed' = closed /\ owed' = owed /\ broken' = broken /\ installed' = installed
  BY DEF LoseOutcome
<1>2. /\ status' = status /\ facts' = facts /\ counter' = counter /\ reserved' = reserved
      /\ pieces' = pieces /\ start' = start /\ stream' = stream /\ round' = round /\ obs' = obs
  BY <1>1 DEF db
<1>3. TypeOK'
  BY <1>1, <1>2 DEF IInv, TypeOK, Stages
<1>4. StageInv'
  BY <1>1, <1>2 DEF IInv, StageInv
<1>5. Via(round)' = Via(round)
  BY <1>2 DEF Via
<1>6. OwedInv'
  BY <1>1, <1>2, <1>5 DEF IInv, OwedInv
<1> QED BY <1>1, <1>3, <1>4, <1>6, QuietStep DEF Over

\* Nothing is owed any more when the stream is closed.
LEMMA FinishKeeps == ASSUME IInv, Finish PROVE IInv'
<1>1. /\ stage = "finish" /\ gate # "cancel" /\ stage' = "done" /\ gate' = gate
      /\ UNCHANGED <<db, start, stream, round, obs>>
      /\ closed' = closed \cup {round} /\ owed' = owed /\ broken' = broken /\ installed' = 0
  BY DEF Finish
<1>2. /\ status' = status /\ facts' = facts /\ counter' = counter /\ reserved' = reserved
      /\ pieces' = pieces /\ start' = start /\ stream' = stream /\ round' = round /\ obs' = obs
  BY <1>1 DEF db
<1>3. round \in Rounds /\ round \in 1..round /\ round # 0 /\ closed = 1..(round-1)
      /\ owed.initial = {} /\ owed.task = {} /\ owed.cancel = {}
  BY <1>1, RoundThere DEF IInv, OwedInv
<1>4. TypeOK'
  BY <1>1, <1>2, <1>3 DEF IInv, TypeOK, Stages
<1>5. closed' = 1..round
  BY <1>1, <1>3
<1>6. StageInv'
  BY <1>1, <1>2, <1>5 DEF IInv, StageInv
<1>7. Via(round)' = Via(round)
  BY <1>2 DEF Via
<1>8. OwedInv'
  BY <1>1, <1>2, <1>3, <1>7 DEF IInv, OwedInv
<1>9. round \notin broken => Via(round) \subseteq FactsIn(stream[round])
  BY <1>3 DEF IInv, OwedInv
<1> QED BY <1>1, <1>4, <1>6, <1>8, <1>9, QuietStep DEF Over

-----------------------------------------------------------------------------
(* Publications.                                                            *)

\* What is published was owed: it is on the stream then, whoever owed it.
LEMMA PublishStep ==
  ASSUME IInv, NEW P, P \subseteq owed.initial \cup owed.task \cup owed.cancel,
         Publish(round, P), stage \notin {"none", "done"}, stage \in Over => stage' \in Over,
         UNCHANGED <<db, start, round, installed, closed, broken, obs>>,
         owed' \in [initial : SUBSET (1..MaxSeq), task : SUBSET (1..MaxSeq),
                    cancel : SUBSET (1..MaxSeq)],
         owed'.initial \subseteq owed.initial, owed'.task \subseteq owed.task,
         owed'.cancel \subseteq owed.cancel,
         owed.initial \cup owed.task \cup owed.cancel
           \subseteq P \cup owed'.initial \cup owed'.task \cup owed'.cancel,
         owed'.initial # {} => stage' \in {"begun", "created"},
         owed'.task # {} => stage' \in {"ingested", "settled"},
         owed'.cancel # {} => gate' = "cancel",
         gate' \in {"free", "op", "cancel", "read"}, gate' = "cancel" => gate = "cancel",
         gate' = "read" <=> gate = "read", stage' \in Stages, StageInv'
  PROVE  IInv'
<1>1. /\ status' = status /\ facts' = facts /\ counter' = counter /\ reserved' = reserved
      /\ pieces' = pieces /\ start' = start /\ round' = round /\ obs' = obs
      /\ installed' = installed /\ closed' = closed /\ broken' = broken
  BY DEF db
<1>2. /\ TypeOK /\ StageInv /\ OwedInv /\ NumberInv /\ round \in Rounds /\ round \notin closed
      /\ P \subseteq Via(round) /\ round \in Nat /\ round <= round
  BY RoundThere, Bounds DEF IInv, OwedInv
<1>3. /\ StreamInv'
      /\ stream'[round] = stream[round] \o Facts(P \ FactsIn(stream[round]))
      /\ \A k \in Rounds : k # round => stream'[k] = stream[k]
      /\ FactsIn(stream'[round]) = FactsIn(stream[round]) \cup P
  BY <1>1, <1>2, StreamsTake
<1>4. \A k : Via(k)' = Via(k) /\ Past(k)' = Past(k)
  BY <1>1 DEF Via, Past
<1>5. Facts(P \ FactsIn(stream[round])) \in Seq(Frames)
  <2>1. P \ FactsIn(stream[round]) \in SUBSET (1..MaxSeq)
    BY <1>2, FactParts
  <2> QED BY <2>1, FactsOf
<1>6. TypeOK'
  <2>1. \A k \in Rounds : stream'[k] \in Seq(Frames)
    BY <1>3 DEF StreamInv
  <2> QED BY <1>1, <1>2, <2>1 DEF TypeOK
<1>7. OwedInv'
  <2>1. owed'.initial \cup owed'.task \cup owed'.cancel \subseteq Via(round)'
    BY <1>2, <1>4 DEF OwedInv
  <2>2. round # 0 /\ round \notin broken =>
          Via(round)'
            \subseteq FactsIn(stream'[round]) \cup owed'.initial \cup owed'.task \cup owed'.cancel
    BY <1>2, <1>3, <1>4 DEF OwedInv
  <2> QED BY <1>1, <2>1, <2>2 DEF OwedInv
<1>8. NumberInv'
  BY <1>1, <1>2, NumbersUnchanged
<1>9. ObserverInv'
  <2>1. \A k \in Rounds : \/ stream'[k] = stream[k]
                          \/ k \notin closed /\ \E t \in Seq(Frames) : stream'[k] = stream[k] \o t
    BY <1>2, <1>3, <1>5
  <2>2. Numbers(facts)' = Numbers(facts)
    BY <1>1 DEF Numbers
  <2> QED BY <1>1, <1>2, <1>4, <2>1, <2>2, ObserverStays
<1> QED BY <1>3, <1>6, <1>7, <1>8, <1>9 DEF IInv

LEMMA TaskBeginsKeeps == ASSUME IInv, TaskBegins PROVE IInv'
<1>1. /\ stage = "created" /\ Publish(round, owed.initial)
      /\ owed' = [owed EXCEPT !.initial = {}] /\ stage' = "graph" /\ gate' = gate
      /\ UNCHANGED <<db, start, round, installed, closed, broken, obs>>
  BY DEF TaskBegins
<1>2. owed \in [initial : SUBSET (1..MaxSeq), task : SUBSET (1..MaxSeq),
                cancel : SUBSET (1..MaxSeq)]
  BY DEF IInv, TypeOK
<1>3. /\ owed' \in [initial : SUBSET (1..MaxSeq), task : SUBSET (1..MaxSeq),
                    cancel : SUBSET (1..MaxSeq)]
      /\ owed'.initial = {} /\ owed'.task = owed.task /\ owed'.cancel = owed.cancel
  BY <1>1, <1>2
<1>4. owed.task = {} /\ (owed.cancel # {} => gate = "cancel")
  BY <1>1 DEF IInv, OwedInv
<1>5. gate \in {"free", "op", "cancel", "read"} /\ stage' \in Stages
  BY <1>1 DEF IInv, TypeOK, Stages
<1>6. status' = status
  BY <1>1 DEF db
<1>7. StageInv'
  BY <1>1, <1>6 DEF IInv, StageInv
<1> QED BY <1>1, <1>3, <1>4, <1>5, <1>7, PublishStep DEF Over

LEMMA PublishTaskKeeps == ASSUME IInv, PublishTask PROVE IInv'
<1>1. /\ stage \in {"ingested", "settled"} /\ Publish(round, owed.task)
      /\ owed' = [owed EXCEPT !.task = {}] /\ gate' = gate
      /\ stage' = IF stage = "ingested" THEN "graph" ELSE "finish"
      /\ UNCHANGED <<db, start, round, installed, closed, broken, obs>>
  BY DEF PublishTask
<1>2. owed \in [initial : SUBSET (1..MaxSeq), task : SUBSET (1..MaxSeq),
                cancel : SUBSET (1..MaxSeq)]
  BY DEF IInv, TypeOK
<1>3. /\ owed' \in [initial : SUBSET (1..MaxSeq), task : SUBSET (1..MaxSeq),
                    cancel : SUBSET (1..MaxSeq)]
      /\ owed'.initial = owed.initial /\ owed'.task = {} /\ owed'.cancel = owed.cancel
  BY <1>1, <1>2
<1>4. owed.initial = {} /\ (owed.cancel # {} => gate = "cancel")
  BY <1>1 DEF IInv, OwedInv
<1>5. gate \in {"free", "op", "cancel", "read"} /\ stage' \in Stages
  BY <1>1 DEF IInv, TypeOK, Stages
<1>6. status' = status
  BY <1>1 DEF db
<1>7. StageInv'
  BY <1>1, <1>6 DEF IInv, StageInv
<1> QED BY <1>1, <1>3, <1>4, <1>5, <1>7, PublishStep DEF Over

LEMMA CancelPublishesKeeps == ASSUME IInv, CancelPublishes PROVE IInv'
<1>1. /\ gate = "cancel" /\ Publish(round, owed.cancel)
      /\ owed' = [owed EXCEPT !.cancel = {}] /\ gate' = "free" /\ stage' = stage
      /\ UNCHANGED <<db, start, round, installed, closed, broken, obs>>
  BY DEF CancelPublishes
<1>2. owed \in [initial : SUBSET (1..MaxSeq), task : SUBSET (1..MaxSeq),
                cancel : SUBSET (1..MaxSeq)]
  BY DEF IInv, TypeOK
<1>3. /\ owed' \in [initial : SUBSET (1..MaxSeq), task : SUBSET (1..MaxSeq),
                    cancel : SUBSET (1..MaxSeq)]
      /\ owed'.initial = owed.initial /\ owed'.task = owed.task /\ owed'.cancel = {}
  BY <1>1, <1>2
<1>4. /\ owed.initial # {} => stage \in {"begun", "created"}
      /\ owed.task # {} => stage \in {"ingested", "settled"}
  BY DEF IInv, OwedInv
<1>5. stage \in {"created", "graph", "settle", "finish"} /\ stage' \in Stages
  BY <1>1 DEF IInv, StageInv, TypeOK
<1>6. status' = status
  BY <1>1 DEF db
<1>7. StageInv'
  BY <1>1, <1>5, <1>6 DEF IInv, StageInv
<1> QED BY <1>1, <1>3, <1>4, <1>5, <1>7, PublishStep DEF Over

-----------------------------------------------------------------------------
(* Commits.                                                                 *)

\* What writes at numbers that are new or reserved, for an invocation whose stream is
\* open or for none, keeps all but types, stages and what is owed.
LEMMA WriteStep ==
  ASSUME IInv, NEW W, NEW via, Write(W, via),
         via = 0 \/ (via = round /\ round \notin closed), round # 0,
         W \subseteq reserved \cup ((counter + 1)..counter'),
         counter' \in Nat, counter <= counter',
         reserved' \subseteq (reserved \cup ((counter + 1)..counter')) \ W,
         UNCHANGED <<round, start, stream, closed, broken, obs>>,
         status # "final", via = 0 => status' = "final" /\ stage' \in Over,
         status' = "final" \/ \A n \in W : n >= start[round],
         gate' = "read" <=> gate = "read",
         pieces' \in [1..MaxSeq -> Nat], \A n \in 1..MaxSeq : pieces[n] <= pieces'[n],
         \A n \in 1..MaxSeq : n > counter' => pieces'[n] = 0
  PROVE  NumberInv' /\ StreamInv' /\ ObserverInv'
<1>1. TypeOK /\ NumberInv /\ StreamInv /\ via \in {0, round} /\ round \in Nat /\ round <= round
  BY DEF IInv, TypeOK
<1>2. NumberInv'
  BY <1>1, NumbersStay
<1>3. /\ \A k : Via(k)' = Via(k) \cup (IF k = via THEN W ELSE {})
      /\ \A k : via \notin 1..(k-1) => Past(k)' = Past(k)
      /\ Numbers(facts) \subseteq Numbers(facts)'
  BY Written
<1>4. \A k \in closed : k # via /\ k \in Rounds
  BY <1>1, Bounds DEF TypeOK
<1>5. \A k \in closed' \ broken' : Via(k)' \subseteq FactsIn(stream[k])
  BY <1>1, <1>3, <1>4 DEF StreamInv
<1>6. StreamInv'
  BY <1>1, <1>3, <1>5, StreamsStay
<1>7. \A k \in 1..round : Past(k)' = Past(k)
  BY <1>1, <1>3
<1>8. ObserverInv'
  BY <1>1, <1>3, <1>7, ObserverStays
<1> QED BY <1>2, <1>6, <1>8

LEMMA TakeNumbers ==
  ASSUME TypeOK, NEW n \in Nat, Take(n)
  PROVE  /\ counter \in Nat /\ counter' \in Nat /\ counter <= counter' /\ counter' \in 0..MaxSeq
         /\ counter' = counter + n
         /\ Fresh(n) = (counter + 1)..counter' /\ Fresh(n) \in SUBSET (1..MaxSeq)
<1>1. counter \in Nat /\ counter + n <= MaxSeq /\ counter' = counter + n /\ MaxSeq \in Nat
  BY Bounds DEF TypeOK, Take
<1>2. counter' \in Nat /\ counter <= counter' /\ counter' \in 0..MaxSeq
  BY <1>1
<1>3. Fresh(n) = (counter + 1)..counter'
  BY <1>1, FreshNumbers
<1>4. (counter + 1)..counter' \in SUBSET (1..MaxSeq)
  BY <1>1, <1>2
<1> QED BY <1>1, <1>2, <1>3, <1>4

LEMMA ReservedNumbers ==
  ASSUME TypeOK
  PROVE  reserved \in SUBSET (1..MaxSeq) /\ reserved \in SUBSET (1..counter)
  BY Bounds DEF TypeOK

LEMMA PiecesType ==
  ASSUME TypeOK
  PROVE  pieces \in [1..MaxSeq -> Nat] /\ \A n \in 1..MaxSeq : pieces[n] <= pieces[n]
  BY Bounds DEF TypeOK

LEMMA MaxOfTwo ==
  ASSUME NEW p \in Nat
  PROVE  Max({1, p}) \in {1, p} /\ Max({1, p}) >= 1 /\ Max({1, p}) >= p
<1>1. \E x \in {1, p} : \A y \in {1, p} : x >= y
  <2>1. CASE p >= 1
    BY <2>1
  <2>2. CASE ~(p >= 1)
    BY <2>2
  <2> QED BY <2>1, <2>2
<1>2. Max({1, p}) \in {1, p} /\ \A y \in {1, p} : Max({1, p}) >= y
  BY <1>1 DEF Max
<1> QED BY <1>2

LEMMA BeginKeeps == ASSUME IInv, Begin PROVE IInv'
<1>1. /\ gate = "free" /\ status \in {"absent", "interrupted"} /\ stage \in {"none", "done"}
      /\ round < MaxRounds /\ Take(2) /\ Write(Fresh(2), round + 1)
      /\ status' = "running" /\ round' = round + 1
      /\ start' = [start EXCEPT ![round + 1] = counter + 1]
      /\ owed' = [owed EXCEPT !.initial = Fresh(2)] /\ stage' = "begun" /\ gate' = "op"
      /\ UNCHANGED <<reserved, pieces, installed, stream, closed, obs, broken>>
  BY DEF Begin
<1>2. TypeOK /\ StageInv /\ NumberInv /\ OwedInv /\ StreamInv
  BY DEF IInv
<1>3. /\ counter \in Nat /\ counter' = counter + 2 /\ counter' \in 0..MaxSeq
      /\ Fresh(2) = (counter + 1)..counter' /\ Fresh(2) \in SUBSET (1..MaxSeq)
  BY <1>1, <1>2, TakeNumbers
<1>4. /\ round \in Nat /\ round' \in Rounds /\ round' \in 1..round' /\ round' \in 0..MaxRounds
      /\ round' # 0 /\ round <= round'
  BY <1>1, <1>2, Bounds DEF TypeOK
<1>5. installed = 0 /\ closed = 1..round /\ broken \subseteq 1..round
  BY <1>1, <1>2 DEF StageInv, TypeOK
<1>6. /\ start' \in [Rounds -> 0..MaxSeq] /\ start'[round'] = counter + 1
      /\ \A k \in Rounds : k # round' => start'[k] = start[k]
  BY <1>1, <1>2, <1>3, <1>4, Bounds DEF TypeOK
<1>7. /\ owed' \in [initial : SUBSET (1..MaxSeq), task : SUBSET (1..MaxSeq),
                    cancel : SUBSET (1..MaxSeq)]
      /\ owed'.initial = Fresh(2) /\ owed'.task = owed.task /\ owed'.cancel = owed.cancel
  BY <1>1, <1>2, <1>3 DEF TypeOK
<1>8. owed.task = {} /\ owed.cancel = {} /\ reserved' \subseteq 1..counter'
  BY <1>1, <1>2, <1>3, ReservedNumbers DEF OwedInv
<1> DEFINE W == Fresh(2)
<1>9. W # {} /\ \A n \in W : n \in Nat /\ n > counter /\ n <= counter'
  BY <1>3
<1>10. Write(W, round')
  BY <1>1
<1> HIDE DEF W
<1>11. /\ \A f \in facts' : f \in facts \/ (f.seq \in W /\ f.via = round')
       /\ facts \subseteq facts'
       /\ Numbers(facts)' = Numbers(facts) \cup W
       /\ \A k : Via(k)' = Via(k) \cup (IF k = round' THEN W ELSE {})
       /\ \A k : round' \notin 1..(k-1) => Past(k)' = Past(k)
  BY <1>10, Written
<1>12. \A f \in facts : /\ f.seq \in Nat /\ f.via \in Nat /\ f.seq <= counter
                        /\ f.via <= round /\ f.via # 0 /\ f.via \in 1..round
  BY <1>1, <1>2, FactParts DEF NumberInv
<1>13. \A f \in facts' : f.via = round' <=> f \notin facts
  BY <1>1, <1>4, <1>11, <1>12
<1>14. Via(round)' = W
  <2>1. ASSUME NEW n \in Via(round)' PROVE n \in W
    BY <1>11, <1>13 DEF Via
  <2>2. ASSUME NEW n \in W PROVE n \in Via(round)'
    <3>1. PICK f \in facts' : f.seq = n /\ f.via = round'
      BY <1>10, Written
    <3> QED BY <3>1 DEF Via
  <2> QED BY <2>1, <2>2
<1>15. TypeOK'
  <2>1. facts' \subseteq [seq : 1..MaxSeq, via : 0..MaxRounds]
    BY <1>2, <1>3, <1>4, <1>10, WrittenType DEF W
  <2> QED BY <1>1, <1>2, <1>3, <1>4, <1>5, <1>6, <1>7, <1>8, <2>1 DEF TypeOK, Stages, Active
<1>16. StageInv'
  BY <1>1, <1>4, <1>5 DEF StageInv
<1>17. NumberInv'
  <2>1. ASSUME NEW f \in facts', NEW g \in facts', f.seq = g.seq PROVE f = g
    <3>1. CASE f \in facts /\ g \in facts
      BY <1>2, <2>1, <3>1 DEF NumberInv
    <3>2. CASE f \in facts /\ g \notin facts
      BY <1>3, <1>9, <1>11, <1>12, <2>1, <3>2
    <3>3. CASE f \notin facts /\ g \in facts
      BY <1>3, <1>9, <1>11, <1>12, <2>1, <3>3
    <3>4. CASE f \notin facts /\ g \notin facts
      BY <1>10, <2>1, <3>4 DEF Write
    <3> QED BY <3>1, <3>2, <3>3, <3>4
  <2>2. \A f \in facts' : f.seq <= counter' /\ f.via <= round' /\ f.via # 0
    BY <1>1, <1>3, <1>4, <1>9, <1>11, <1>12
  <2>3. ASSUME NEW k \in 1..round' PROVE start'[k] <= counter' /\ start'[k] >= 1
    <3>1. CASE k = round'
      BY <1>3, <1>6, <3>1
    <3>2. CASE k # round'
      <4>1. k \in 1..round /\ k \in Rounds /\ start[k] \in Nat
        BY <1>1, <1>2, <1>4, <3>2, Bounds DEF TypeOK
      <4> QED BY <1>2, <1>3, <1>6, <3>2, <4>1 DEF NumberInv
    <3> QED BY <3>1, <3>2
  <2>4. ASSUME NEW k \in 1..round', NEW f \in facts', f.via \in 1..(k-1)
        PROVE  f.seq < start'[k]
    <3>1. CASE k = round'
      <4>1. start'[k] = counter + 1 /\ f \in facts
        BY <1>1, <1>4, <1>6, <1>13, <2>4, <3>1
      <4> QED BY <1>3, <1>12, <4>1
    <3>2. CASE k # round'
      <4>1. k \in 1..round /\ k \in Rounds /\ start'[k] = start[k]
        BY <1>1, <1>4, <1>6, <3>2, Bounds
      <4>2. f \in facts
        BY <1>1, <1>4, <1>13, <2>4, <4>1
      <4> QED BY <1>2, <2>4, <4>1, <4>2 DEF NumberInv
    <3> QED BY <3>1, <3>2
  <2>5. ASSUME NEW k \in 1..round', NEW f \in facts', f.seq < start'[k] PROVE f.via \in 1..(k-1)
    <3>1. CASE k = round'
      <4>1. start'[k] = counter + 1 /\ k - 1 = round
        BY <1>1, <1>4, <1>6, <3>1
      <4>2. CASE f \in facts
        BY <1>12, <4>1, <4>2
      <4>3. CASE f \notin facts
        BY <1>3, <1>9, <1>11, <2>5, <4>1, <4>3
      <4> QED BY <4>2, <4>3
    <3>2. CASE k # round'
      <4>1. k \in 1..round /\ k \in Rounds /\ start'[k] = start[k] /\ start[k] \in Nat
        BY <1>1, <1>2, <1>4, <1>6, <3>2, Bounds DEF TypeOK
      <4>2. CASE f \in facts
        BY <1>1, <1>2, <2>5, <4>1, <4>2 DEF NumberInv
      <4>3. CASE f \notin facts
        <5>1. f.seq \in Nat /\ f.seq > counter
          BY <1>9, <1>11, <4>3
        <5>2. start[k] <= counter
          BY <1>2, <4>1 DEF NumberInv
        <5> QED BY <1>3, <2>5, <4>1, <5>1, <5>2
      <4> QED BY <4>2, <4>3
    <3> QED BY <3>1, <3>2
  <2>6. ASSUME NEW j \in 1..round', NEW k \in 1..round', j <= k PROVE start'[j] <= start'[k]
    <3>1. CASE j = round'
      BY <1>3, <1>4, <1>6, <2>6, <3>1
    <3>2. CASE j # round'
      <4>1. j \in 1..round /\ j \in Rounds /\ start'[j] = start[j] /\ start[j] \in Nat
        BY <1>1, <1>2, <1>4, <1>6, <3>2, Bounds DEF TypeOK
      <4>2. CASE k = round'
        <5>1. start[j] <= counter
          BY <1>2, <4>1 DEF NumberInv
        <5> QED BY <1>3, <1>6, <4>1, <4>2, <5>1
      <4>3. CASE k # round'
        <5>1. k \in 1..round /\ k \in Rounds /\ start'[k] = start[k]
          BY <1>1, <1>4, <1>6, <4>3, Bounds
        <5> QED BY <1>2, <2>6, <4>1, <5>1 DEF NumberInv
      <4> QED BY <4>2, <4>3
    <3> QED BY <3>1, <3>2
  <2>7. \E f \in facts' : f.via = round' /\ f.seq >= start'[round']
    <3>1. counter + 1 \in W
      BY <1>3 DEF W
    <3>2. PICK f \in facts' : f.seq = counter + 1 /\ f.via = round'
      BY <1>10, <3>1, Written
    <3> QED BY <1>3, <1>6, <3>2
  <2>8. \A n \in 1..MaxSeq : n > counter' => pieces'[n] = 0
    BY <1>1, <1>2, <1>3 DEF NumberInv
  <2>9. \A n \in reserved' : n \notin Numbers(facts)'
    <3>1. \A n \in reserved : n \notin W /\ n \notin Numbers(facts)
      BY <1>2, <1>3, <1>9, ReservedNumbers DEF NumberInv
    <3> QED BY <1>1, <1>11, <3>1
  <2> QED BY <2>1, <2>2, <2>3, <2>4, <2>5, <2>6, <2>7, <2>8, <2>9 DEF NumberInv
<1>18. stream[round'] = <<>>
  BY <1>1, <1>2, <1>4 DEF StreamInv
<1>19. OwedInv'
  BY <1>1, <1>7, <1>8, <1>14 DEF OwedInv, W
<1>20. \A k \in 1..round : Past(k)' = Past(k) /\ Via(k)' = Via(k) /\ start'[k] = start[k]
  <2> SUFFICES ASSUME NEW k \in 1..round
               PROVE  Past(k)' = Past(k) /\ Via(k)' = Via(k) /\ start'[k] = start[k]
    OBVIOUS
  <2>1. k # round' /\ round' \notin 1..(k-1) /\ k \in Rounds
    BY <1>1, <1>4, Bounds
  <2> QED BY <1>6, <1>11, <2>1
<1>21. StreamInv'
  <2>1. \A k \in closed' \ broken' : Via(k)' \subseteq FactsIn(stream[k])
    BY <1>1, <1>2, <1>5, <1>20 DEF StreamInv
  <2>2. \A k : Via(k) \subseteq Via(k)'
    BY <1>11
  <2>3. pieces' \in [1..MaxSeq -> Nat] /\ \A n \in 1..MaxSeq : pieces[n] <= pieces'[n]
    BY <1>1, <1>2, PiecesType
  <2>4. counter' \in Nat /\ counter <= counter' /\ round' \in Nat
    BY <1>3, <1>4
  <2> QED BY <1>1, <1>2, <1>4, <1>20, <2>1, <2>2, <2>3, <2>4, StreamsStay
<1>22. ObserverInv'
  <2>1. Numbers(facts) \subseteq Numbers(facts)' /\ round' \in Nat
    BY <1>4, <1>11
  <2> QED BY <1>1, <1>4, <1>20, <2>1, ObserverStays
<1> QED BY <1>15, <1>16, <1>17, <1>19, <1>21, <1>22 DEF IInv

\* A number is taken for a preview; its first piece comes after all there is.
LEMMA ReserveKeeps == ASSUME IInv, Reserve PROVE IInv'
<1>1. /\ stage = "graph" /\ status = "running" /\ Take(1)
      /\ reserved' = reserved \cup Fresh(1) /\ pieces' = [pieces EXCEPT ![counter + 1] = 1]
      /\ Send(round, <<Piece(counter + 1, 1)>>)
      /\ UNCHANGED <<status, facts, gate, round, stage, installed, start, closed, owed, obs,
                     broken>>
  BY DEF Reserve
<1>2. TypeOK /\ StageInv /\ NumberInv /\ OwedInv /\ StreamInv
  BY DEF IInv
<1>3. /\ counter \in Nat /\ counter' = counter + 1 /\ counter' \in 0..MaxSeq /\ counter' \in Nat
      /\ counter <= counter' /\ counter + 1 \in 1..MaxSeq /\ Fresh(1) = {counter + 1}
  <2>1. counter \in Nat /\ counter' = counter + 1 /\ counter' \in 0..MaxSeq
        /\ Fresh(1) = (counter + 1)..(counter + 1)
    BY <1>1, <1>2, TakeNumbers
  <2> QED BY <2>1
<1>4. /\ round \in Rounds /\ round \in 1..round /\ round # 0 /\ round \notin closed
      /\ round \notin broken /\ round \in Nat /\ round <= round
  BY <1>1, <1>2, RoundThere, Bounds DEF StageInv
<1>5. /\ pieces' \in [1..MaxSeq -> 0..MaxPieces] /\ pieces' \in [1..MaxSeq -> Nat]
      /\ pieces'[counter + 1] = 1 /\ \A n \in 1..MaxSeq : n # counter + 1 => pieces'[n] = pieces[n]
  BY <1>1, <1>2, <1>3, Bounds DEF TypeOK
<1> DEFINE a == Piece(counter + 1, 1)
           t == <<a>>
<1>6. a \in Frames /\ a.seq = counter + 1 /\ a.piece = 1
  BY <1>3, Bounds DEF Piece, Frames
<1> HIDE DEF a
<1>7. t \in Seq(Frames) /\ Len(t) = 1 /\ t[1] = a
  BY <1>6
<1> HIDE DEF t
<1>8. start[round] <= counter /\ start[round] \in Nat
  BY <1>2, <1>4 DEF NumberInv, TypeOK
<1>9. ASSUME NEW i \in 1..Len(stream[round]) PROVE stream[round][i].seq # a.seq
  <2>1. FrameOk(round, stream[round][i])
    BY <1>2, <1>4 DEF StreamInv
  <2>2. stream[round][i].seq <= counter
    BY <2>1 DEF FrameOk
  <2> QED BY <1>3, <1>6, <2>2
<1>10. \A j \in 1..Len(t) : FitsNext(round, t[j])
  BY <1>1, <1>3, <1>5, <1>6, <1>7, <1>8 DEF FitsNext
<1>11. /\ \A i, j \in 1..Len(t) : i < j => Follows(t[i], t[j])
       /\ \A i \in 1..Len(stream[round]), j \in 1..Len(t) : Follows(stream[round][i], t[j])
  BY <1>7, <1>9 DEF Follows
<1>12. \A n \in 1..MaxSeq : pieces[n] <= pieces'[n] /\ (n > counter' => pieces'[n] = 0)
  <2>1. pieces[counter + 1] = 0
    BY <1>2, <1>3 DEF NumberInv
  <2>2. ASSUME NEW n \in 1..MaxSeq, n # counter + 1
        PROVE  pieces[n] <= pieces'[n] /\ (n > counter' => pieces'[n] = 0)
    <3>1. pieces[n] \in Nat /\ pieces'[n] = pieces[n]
      BY <1>2, <1>5, <2>2, Bounds DEF TypeOK
    <3>2. n > counter' => n > counter
      BY <1>3
    <3> QED BY <1>2, <3>1, <3>2 DEF NumberInv
  <2> QED BY <1>3, <1>5, <2>1, <2>2
<1>13. Send(round, t)
  BY <1>1 DEF a, t
<1>14. /\ StreamInv'
       /\ stream'[round] = stream[round] \o t
       /\ \A k \in Rounds : k # round => stream'[k] = stream[k]
  BY <1>1, <1>2, <1>3, <1>4, <1>5, <1>7, <1>10, <1>11, <1>12, <1>13, StreamsGrow
<1>15. TypeOK'
  <2>1. \A k \in Rounds : stream'[k] \in Seq(Frames)
    BY <1>14 DEF StreamInv
  <2>2. reserved' \subseteq 1..counter'
    <3>1. reserved \subseteq 1..counter /\ 1..counter \subseteq 1..counter'
          /\ counter + 1 \in 1..counter'
      BY <1>2, <1>3, ReservedNumbers
    <3> QED BY <1>1, <1>3, <3>1
  <2> QED BY <1>1, <1>2, <1>3, <1>5, <2>1, <2>2 DEF TypeOK
<1>16. StageInv'
  BY <1>1, <1>2 DEF StageInv
<1>17. Numbers(facts)' = Numbers(facts) /\ \A k : Via(k)' = Via(k) /\ Past(k)' = Past(k)
  BY <1>1 DEF Numbers, Via, Past
<1>18. NumberInv'
  <2>1. counter + 1 \notin Numbers(facts)
    BY <1>2, <1>3, FactParts DEF NumberInv, Numbers
  <2>2. \A k \in 1..round : start[k] <= counter'
    <3>1. \A k \in 1..round : start[k] <= counter /\ start[k] \in Nat
      BY <1>2, Bounds DEF NumberInv, TypeOK
    <3> QED BY <1>3, <3>1
  <2>3. \A f \in facts : f.seq <= counter'
    BY <1>2, <1>3, FactParts DEF NumberInv
  <2> QED BY <1>1, <1>2, <1>3, <1>12, <1>17, <2>1, <2>2, <2>3 DEF NumberInv
<1>19. OwedInv'
  <2>1. FactsIn(stream[round]) \subseteq FactsIn(stream'[round])
    BY <1>2, <1>4, <1>7, <1>14, FactsInConcat DEF TypeOK
  <2> QED BY <1>1, <1>2, <1>17, <2>1 DEF OwedInv
<1>20. ObserverInv'
  <2>1. \A k \in Rounds : \/ stream'[k] = stream[k]
                          \/ k \notin closed /\ \E u \in Seq(Frames) : stream'[k] = stream[k] \o u
    BY <1>4, <1>7, <1>14
  <2> QED BY <1>1, <1>4, <1>17, <2>1, ObserverStays
<1> QED BY <1>14, <1>15, <1>16, <1>18, <1>19, <1>20 DEF IInv

\* The next piece of a text comes after those before it.
LEMMA SpeakKeeps == ASSUME IInv, Speak PROVE IInv'
<1>1. /\ stage = "graph" /\ status = "running"
      /\ UNCHANGED <<status, facts, counter, reserved, gate, round, stage, installed, start,
                     closed, owed, obs, broken>>
  BY DEF Speak
<1>2. TypeOK /\ StageInv /\ NumberInv /\ OwedInv /\ StreamInv
  BY DEF IInv
<1>3. PICK n \in reserved : /\ n >= start[round]
                            /\ pieces[n] < MaxPieces
                            /\ pieces' = [pieces EXCEPT ![n] = @ + 1]
                            /\ Send(round, <<Piece(n, pieces[n] + 1)>>)
  BY DEF Speak, Held
<1>4. /\ round \in Rounds /\ round \in 1..round /\ round # 0 /\ round \notin closed
      /\ round \notin broken /\ round \in Nat /\ round <= round
  BY <1>1, <1>2, RoundThere, Bounds DEF StageInv
<1>5. /\ n \in 1..MaxSeq /\ n \in 1..counter /\ counter \in Nat /\ pieces[n] \in Nat
      /\ pieces[n] + 1 \in 0..MaxPieces /\ start[round] <= n /\ n \notin Numbers(facts)
  <2>1. n \in 1..MaxSeq /\ n \in 1..counter
    BY <1>2, ReservedNumbers
  <2>2. pieces[n] \in 0..MaxPieces /\ counter \in Nat
    BY <1>2, <2>1, Bounds DEF TypeOK
  <2>3. start[round] <= n /\ n \notin Numbers(facts)
    BY <1>2, <1>3, <1>4, <2>1, Bounds DEF NumberInv, TypeOK
  <2> QED BY <1>3, <2>1, <2>2, <2>3, Bounds
<1>6. /\ pieces' \in [1..MaxSeq -> 0..MaxPieces] /\ pieces' \in [1..MaxSeq -> Nat]
      /\ pieces'[n] = pieces[n] + 1 /\ \A m \in 1..MaxSeq : m # n => pieces'[m] = pieces[m]
  <2>1. pieces' \in [1..MaxSeq -> 0..MaxPieces]
    BY <1>2, <1>3, <1>5 DEF TypeOK
  <2>2. pieces'[n] = pieces[n] + 1 /\ \A m \in 1..MaxSeq : m # n => pieces'[m] = pieces[m]
    BY <1>2, <1>3, <1>5 DEF TypeOK
  <2> QED BY <2>1, <2>2, Bounds
<1> DEFINE a == Piece(n, pieces[n] + 1)
           t == <<a>>
<1>7. a \in Frames /\ a.seq = n /\ a.piece = pieces[n] + 1
  BY <1>5 DEF Piece, Frames
<1> HIDE DEF a
<1>8. t \in Seq(Frames) /\ Len(t) = 1 /\ t[1] = a
  BY <1>7
<1> HIDE DEF t
<1>9. ASSUME NEW i \in 1..Len(stream[round]) PROVE Follows(stream[round][i], a)
  <2>1. FrameOk(round, stream[round][i]) /\ stream[round][i] \in Frames
    BY <1>2, <1>4 DEF StreamInv
  <2> DEFINE b == stream[round][i]
  <2>2. b.piece \in Nat
    BY <2>1, Bounds DEF Frames
  <2> HIDE DEF b
  <2>3. (b.piece = 0 => b.seq \in Via(round)) /\ b.piece <= pieces[b.seq]
    BY <2>1 DEF FrameOk, b
  <2>4. n \notin Via(round)
    BY <1>5 DEF Via, Numbers
  <2> QED BY <1>5, <1>7, <2>2, <2>3, <2>4 DEF Follows, b
<1>10. \A j \in 1..Len(t) : FitsNext(round, t[j])
  BY <1>1, <1>5, <1>6, <1>7, <1>8 DEF FitsNext
<1>11. /\ \A i, j \in 1..Len(t) : i < j => Follows(t[i], t[j])
       /\ \A i \in 1..Len(stream[round]), j \in 1..Len(t) : Follows(stream[round][i], t[j])
  BY <1>8, <1>9
<1>12. \A m \in 1..MaxSeq : pieces[m] <= pieces'[m] /\ (m > counter => pieces'[m] = 0)
  <2> SUFFICES ASSUME NEW m \in 1..MaxSeq
               PROVE  pieces[m] <= pieces'[m] /\ (m > counter => pieces'[m] = 0)
    OBVIOUS
  <2>1. pieces[m] \in Nat
    BY <1>2, PiecesType
  <2>2. CASE m = n
    BY <1>5, <1>6, <2>1, <2>2
  <2>3. CASE m # n
    BY <1>2, <1>6, <2>1, <2>3 DEF NumberInv
  <2> QED BY <2>2, <2>3
<1>13. Send(round, t)
  BY <1>3 DEF a, t
<1>14. /\ StreamInv'
       /\ stream'[round] = stream[round] \o t
       /\ \A k \in Rounds : k # round => stream'[k] = stream[k]
  <2>1. counter' \in Nat /\ counter <= counter'
    BY <1>1, <1>5
  <2> QED BY <1>1, <1>2, <1>4, <1>6, <1>8, <1>10, <1>11, <1>12, <1>13, <2>1, StreamsGrow
<1>15. TypeOK'
  <2>1. \A k \in Rounds : stream'[k] \in Seq(Frames)
    BY <1>14 DEF StreamInv
  <2> QED BY <1>1, <1>2, <1>6, <2>1 DEF TypeOK
<1>16. StageInv'
  BY <1>1, <1>2 DEF StageInv
<1>17. Numbers(facts)' = Numbers(facts) /\ \A k : Via(k)' = Via(k) /\ Past(k)' = Past(k)
  BY <1>1 DEF Numbers, Via, Past
<1>18. NumberInv'
  BY <1>1, <1>2, <1>12, <1>17 DEF NumberInv
<1>19. OwedInv'
  <2>1. FactsIn(stream[round]) \subseteq FactsIn(stream'[round])
    BY <1>2, <1>4, <1>8, <1>14, FactsInConcat DEF TypeOK
  <2> QED BY <1>1, <1>2, <1>17, <2>1 DEF OwedInv
<1>20. ObserverInv'
  <2>1. \A k \in Rounds : \/ stream'[k] = stream[k]
                          \/ k \notin closed /\ \E u \in Seq(Frames) : stream'[k] = stream[k] \o u
    BY <1>4, <1>8, <1>14
  <2> QED BY <1>1, <1>4, <1>17, <2>1, ObserverStays
<1> QED BY <1>14, <1>15, <1>16, <1>18, <1>19, <1>20 DEF IInv

LEMMA IngestKeeps == ASSUME IInv, Ingest PROVE IInv'
<1>1. /\ stage = "graph" /\ status = "running" /\ stage' = "ingested"
      /\ UNCHANGED <<status, gate, round, installed, start, stream, closed, obs, broken>>
  BY DEF Ingest
<1>2. PICK n \in Held \cup Fresh(1) :
        /\ IF n \in Held THEN UNCHANGED counter ELSE MayProduce /\ Take(1)
        /\ reserved' = reserved \ {n}
        /\ pieces' = [pieces EXCEPT ![n] = Max({1, @})]
        /\ Write({n}, round)
        /\ owed' = [owed EXCEPT !.task = {n}]
  BY DEF Ingest
<1>3. TypeOK /\ StageInv /\ NumberInv /\ OwedInv /\ StreamInv
  BY DEF IInv
<1>4. /\ round \in Rounds /\ round # 0 /\ round \notin closed /\ round \notin broken
      /\ round \in 0..MaxRounds
  BY <1>1, <1>3, RoundThere, Bounds DEF StageInv, TypeOK
<1>5. /\ counter \in Nat /\ counter' \in Nat /\ counter <= counter' /\ counter' \in 0..MaxSeq
      /\ n \in 1..MaxSeq /\ n \in 1..counter'
      /\ {n} \subseteq reserved \cup ((counter + 1)..counter') /\ n >= start[round]
  <2>1. CASE n \in Held
    BY <1>2, <1>3, <2>1, ReservedNumbers, Bounds DEF TypeOK, Held
  <2>2. CASE n \notin Held
    <3>1. Take(1) /\ n \in Fresh(1)
      BY <1>2, <2>2
    <3>2. /\ counter \in Nat /\ counter' \in Nat /\ counter <= counter' /\ counter' \in 0..MaxSeq
          /\ Fresh(1) = (counter + 1)..counter' /\ Fresh(1) \in SUBSET (1..MaxSeq)
      BY <1>3, <3>1, TakeNumbers
    <3>3. start[round] <= counter /\ start[round] \in Nat
      <4>1. round \in 1..round
        BY <1>4, Bounds DEF TypeOK
      <4> QED BY <1>3, <1>4, <4>1 DEF NumberInv, TypeOK
    <3> QED BY <3>1, <3>2, <3>3
  <2> QED BY <2>1, <2>2
<1>6. /\ pieces' \in [1..MaxSeq -> 0..MaxPieces] /\ pieces' \in [1..MaxSeq -> Nat]
      /\ \A m \in 1..MaxSeq : pieces[m] <= pieces'[m] /\ (m > counter' => pieces'[m] = 0)
  <2> DEFINE new == Max({1, pieces[n]})
  <2>1. pieces[n] \in 0..MaxPieces /\ pieces \in [1..MaxSeq -> 0..MaxPieces]
    BY <1>3, <1>5 DEF TypeOK
  <2>2. new \in {1, pieces[n]} /\ new >= pieces[n]
    BY <2>1, Bounds, MaxOfTwo
  <2>3. new \in 0..MaxPieces
    BY <2>1, <2>2, Bounds
  <2>4. pieces' = [pieces EXCEPT ![n] = new]
    BY <1>2
  <2> HIDE DEF new
  <2>5. pieces' \in [1..MaxSeq -> 0..MaxPieces]
    BY <1>5, <2>1, <2>3, <2>4
  <2>6. ASSUME NEW m \in 1..MaxSeq PROVE pieces[m] <= pieces'[m] /\ (m > counter' => pieces'[m] = 0)
    <3>1. CASE m = n
      BY <1>5, <2>1, <2>2, <2>4, <3>1
    <3>2. CASE m # n
      <4>1. pieces'[m] = pieces[m] /\ pieces[m] \in Nat
        BY <2>1, <2>4, <3>2, Bounds
      <4>2. m > counter' => m > counter
        BY <1>5
      <4> QED BY <1>3, <4>1, <4>2 DEF NumberInv
    <3> QED BY <3>1, <3>2
  <2> QED BY <2>5, <2>6, Bounds
<1>7. /\ owed' \in [initial : SUBSET (1..MaxSeq), task : SUBSET (1..MaxSeq),
                    cancel : SUBSET (1..MaxSeq)]
      /\ owed'.initial = owed.initial /\ owed'.task = {n} /\ owed'.cancel = owed.cancel
  BY <1>2, <1>3, <1>5 DEF TypeOK
<1>8. owed.initial = {} /\ owed.task = {} /\ owed.cancel = {} /\ gate # "cancel"
  BY <1>1, <1>3 DEF OwedInv, StageInv
<1>9. NumberInv' /\ StreamInv' /\ ObserverInv'
  <2>1. reserved' \subseteq (reserved \cup ((counter + 1)..counter')) \ {n}
    BY <1>2
  <2> QED BY <1>1, <1>2, <1>4, <1>5, <1>6, <2>1, WriteStep
<1>10. TypeOK'
  <2>1. facts' \subseteq [seq : 1..MaxSeq, via : 0..MaxRounds]
    BY <1>2, <1>3, <1>4, <1>5, WrittenType
  <2>2. reserved' \subseteq 1..counter'
    BY <1>2, <1>3, <1>5, ReservedNumbers
  <2> QED BY <1>1, <1>3, <1>5, <1>6, <1>7, <2>1, <2>2 DEF TypeOK, Stages
<1>11. StageInv'
  BY <1>1, <1>3, <1>8 DEF StageInv
<1>12. Via(round)' = Via(round) \cup {n}
  BY <1>1, <1>2, Written DEF Via
<1>13. OwedInv'
  BY <1>1, <1>3, <1>7, <1>8, <1>12 DEF OwedInv
<1> QED BY <1>9, <1>10, <1>11, <1>13 DEF IInv

\* The highest number of a Run that was finished meanwhile is of its last invocation.
LEMMA LastFact ==
  ASSUME TypeOK, StageInv, NumberInv, stage = "settle"
  PROVE  Max(Numbers(facts)) \in Via(round)
<1>1. round \in Rounds /\ round \in 1..round /\ round \in Nat /\ round > 0
  BY RoundThere, Bounds
<1>2. PICK f \in facts : f.via = round /\ f.seq >= start[round]
  BY <1>1 DEF NumberInv
<1>3. Numbers(facts) \in SUBSET (1..MaxSeq) /\ f.seq \in Numbers(facts)
  BY FactParts DEF Numbers
<1>4. Max(Numbers(facts)) \in Numbers(facts) /\ Max(Numbers(facts)) >= f.seq
  BY <1>3, MaxOf
<1>5. PICK g \in facts : g.seq = Max(Numbers(facts))
  BY <1>4 DEF Numbers
<1>6. f.seq \in Nat /\ g.seq \in Nat /\ g.via \in Nat /\ start[round] \in Nat /\ g.seq >= f.seq
  <2>1. f.seq \in Nat /\ g.seq \in Nat /\ g.via \in Nat
    BY FactParts
  <2>2. start[round] \in Nat
    BY <1>1, Bounds DEF TypeOK
  <2> QED BY <1>4, <1>5, <2>1, <2>2
<1>7. ~(g.seq < start[round])
  BY <1>2, <1>6
<1>8. g.via \notin 1..(round-1) /\ g.via <= round
  BY <1>1, <1>7 DEF NumberInv
<1>9. g.via # 0
  BY DEF NumberInv, Over
<1>10. g.via = round
  BY <1>1, <1>6, <1>8, <1>9
<1> QED BY <1>5, <1>10 DEF Via

LEMMA SettleKeeps == ASSUME IInv, Settle PROVE IInv'
<1>1. /\ stage = "settle" /\ gate # "cancel" /\ stage' = "settled"
      /\ UNCHANGED <<pieces, gate, round, installed, start, stream, closed, obs, broken>>
  BY DEF Settle
<1>2. TypeOK /\ StageInv /\ NumberInv /\ OwedInv /\ StreamInv
  BY DEF IInv
<1>3. /\ round \in Rounds /\ round # 0 /\ round \notin closed /\ round \in 0..MaxRounds
      /\ owed.initial = {} /\ owed.task = {} /\ owed.cancel = {} /\ gate' # "cancel"
  BY <1>1, <1>2, RoundThere, Bounds DEF OwedInv, TypeOK
<1>4. owed \in [initial : SUBSET (1..MaxSeq), task : SUBSET (1..MaxSeq),
                cancel : SUBSET (1..MaxSeq)]
  BY <1>2 DEF TypeOK
<1>5. pieces' \in [1..MaxSeq -> Nat] /\ \A n \in 1..MaxSeq : pieces[n] <= pieces'[n]
  BY <1>1, <1>2, PiecesType
\* the fact that is there is published again
<1>6. CASE status # "running"
  <2> DEFINE last == Max(Numbers(facts))
  <2>1. owed' = [owed EXCEPT !.task = {last}] /\ UNCHANGED db
    BY <1>6 DEF Settle
  <2>2. last \in Via(round) /\ last \in 1..MaxSeq
    BY <1>1, <1>2, LastFact, FactParts
  <2> HIDE DEF last
  <2>3. /\ owed' \in [initial : SUBSET (1..MaxSeq), task : SUBSET (1..MaxSeq),
                      cancel : SUBSET (1..MaxSeq)]
        /\ owed'.initial = {} /\ owed'.task = {last} /\ owed'.cancel = {}
    BY <1>3, <1>4, <2>1, <2>2
  <2>4. /\ status' = status /\ facts' = facts /\ counter' = counter /\ reserved' = reserved
    BY <2>1 DEF db
  <2>5. TypeOK'
    BY <1>1, <1>2, <2>3, <2>4 DEF TypeOK, Stages
  <2>6. StageInv'
    BY <1>1, <1>2, <1>6, <2>4 DEF StageInv
  <2>7. Via(round)' = Via(round)
    BY <1>1, <2>4 DEF Via
  <2>8. OwedInv'
    BY <1>1, <1>2, <1>3, <2>2, <2>3, <2>7 DEF OwedInv
  <2> QED BY <1>1, <2>1, <2>5, <2>6, <2>8, QuietStep DEF Over
\* the Run ends, or pauses
<1>7. CASE status = "running"
  <2>1. PICK kept \in {{}, reserved}, n \in {1, 2} :
          /\ Take(n) /\ Write(kept \cup Fresh(n), round)
          /\ owed' = [owed EXCEPT !.task = kept \cup Fresh(n)]
          /\ \/ status' = "final" /\ reserved' = {}
             \/ /\ status' = "interrupted" /\ round \notin broken
                /\ kept = {} /\ reserved' = reserved
    <3>1. CASE \E kept \in {{}, reserved} :
                 /\ Take(1)
                 /\ status' = "final"
                 /\ Write(kept \cup Fresh(1), round)
                 /\ reserved' = {}
                 /\ owed' = [owed EXCEPT !.task = kept \cup Fresh(1)]
      BY <3>1
    <3>2. CASE /\ round \notin broken
               /\ Take(2)
               /\ status' = "interrupted"
               /\ Write(Fresh(2), round)
               /\ owed' = [owed EXCEPT !.task = Fresh(2)]
               /\ UNCHANGED reserved
      <4>1. {} \cup Fresh(2) = Fresh(2)
        OBVIOUS
      <4> QED BY <3>2, <4>1
    <3> QED BY <1>7, <3>1, <3>2 DEF Settle
  <2> DEFINE W == kept \cup Fresh(n)
  <2>2. /\ counter \in Nat /\ counter' \in Nat /\ counter <= counter' /\ counter' \in 0..MaxSeq
        /\ Fresh(n) = (counter + 1)..counter' /\ Fresh(n) \in SUBSET (1..MaxSeq)
    BY <1>2, <2>1, TakeNumbers
  <2>3. W \subseteq reserved \cup ((counter + 1)..counter') /\ W \in SUBSET (1..MaxSeq)
        /\ (status' # "final" => W = (counter + 1)..counter')
    BY <1>2, <2>1, <2>2, ReservedNumbers
  <2>4. Write(W, round) /\ owed' = [owed EXCEPT !.task = W]
    BY <2>1
  <2> HIDE DEF W
  <2>5. /\ owed' \in [initial : SUBSET (1..MaxSeq), task : SUBSET (1..MaxSeq),
                      cancel : SUBSET (1..MaxSeq)]
        /\ owed'.initial = {} /\ owed'.task = W /\ owed'.cancel = {}
    BY <1>3, <1>4, <2>3, <2>4
  <2>6. TypeOK'
    <3>1. facts' \subseteq [seq : 1..MaxSeq, via : 0..MaxRounds]
      BY <1>2, <1>3, <2>3, <2>4, WrittenType
    <3>2. reserved' \subseteq 1..counter'
      BY <1>2, <2>1, <2>2, ReservedNumbers
    <3> QED BY <1>1, <1>2, <2>1, <2>2, <2>5, <3>1, <3>2 DEF TypeOK, Stages, Active
  <2>7. StageInv'
    BY <1>1, <1>2, <2>1 DEF StageInv
  <2>8. NumberInv' /\ StreamInv' /\ ObserverInv'
    <3>1. \A m \in 1..MaxSeq : m > counter' => pieces'[m] = 0
      BY <1>1, <1>2, <2>2 DEF NumberInv
    <3>2. /\ reserved' \subseteq (reserved \cup ((counter + 1)..counter')) \ W
          /\ status # "final" /\ (round = 0 => status' = "final" /\ stage' \in Over)
      <4>1. \A m \in reserved : m \in 1..counter
        BY <1>2, ReservedNumbers
      <4>2. reserved \cap ((counter + 1)..counter') = {}
        BY <2>2, <4>1
      <4> QED BY <1>3, <1>7, <2>1, <2>3, <4>2
    <3>3. status' = "final" \/ \A m \in W : m >= start[round]
      <4>1. start[round] <= counter /\ start[round] \in Nat
        <5>1. round \in 1..round
          BY <1>3, Bounds DEF TypeOK
        <5> QED BY <1>2, <1>3, <5>1 DEF NumberInv, TypeOK
      <4> QED BY <2>2, <2>3, <4>1
    <3> QED BY <1>1, <1>3, <1>5, <2>1, <2>2, <2>3, <2>4, <3>1, <3>2, <3>3, WriteStep
  <2>9. Via(round)' = Via(round) \cup W
    BY <1>1, <2>4, Written DEF Via
  <2>10. OwedInv'
    BY <1>1, <1>2, <1>3, <2>5, <2>9 DEF OwedInv
  <2> QED BY <2>6, <2>7, <2>8, <2>10 DEF IInv
<1> QED BY <1>6, <1>7

LEMMA CancelCommitsKeeps == ASSUME IInv, CancelCommits PROVE IInv'
<1> DEFINE new == IF status = "interrupted" THEN 2 ELSE 1
           W == reserved \cup Fresh(new)
           mine == IF installed = 0 THEN {} ELSE W
<1>1. /\ gate = "free" /\ status \in Active /\ stage \notin {"ingested", "settled"}
      /\ Take(new) /\ Write(W, installed) /\ status' = "final" /\ reserved' = {}
      /\ owed' = [owed EXCEPT !.cancel = mine]
      /\ gate' = IF installed = 0 THEN "free" ELSE "cancel"
      /\ UNCHANGED <<pieces, round, stage, installed, start, stream, closed, obs, broken>>
  BY DEF CancelCommits
<1>2. TypeOK /\ StageInv /\ NumberInv /\ OwedInv /\ StreamInv
  BY DEF IInv
<1>3. /\ stage # "none" /\ stage # "begun" /\ (installed = 0 => stage = "done")
      /\ installed # 0 => installed = round /\ stage \in {"created", "graph", "settle", "finish"}
  BY <1>1, <1>2 DEF StageInv, TypeOK, Stages, Active
<1>4. /\ round \in Rounds /\ round # 0 /\ round \in 0..MaxRounds /\ installed \in 0..MaxRounds
      /\ installed = 0 \/ (installed = round /\ round \notin closed)
  <2>1. round \in Rounds /\ round # 0 /\ (stage # "done" => round \notin closed)
    BY <1>2, <1>3, RoundThere
  <2>2. round \in 0..MaxRounds /\ 0 \in 0..MaxRounds
    BY <1>2, Bounds DEF TypeOK
  <2> QED BY <1>3, <2>1, <2>2
<1>5. owed.cancel = {}
  BY <1>1, <1>2 DEF OwedInv
<1>6. new \in Nat
  OBVIOUS
<1> HIDE DEF new
<1>7. /\ counter \in Nat /\ counter' \in Nat /\ counter <= counter' /\ counter' \in 0..MaxSeq
      /\ Fresh(new) = (counter + 1)..counter' /\ Fresh(new) \in SUBSET (1..MaxSeq)
  BY <1>1, <1>2, <1>6, TakeNumbers
<1>8. W \subseteq reserved \cup ((counter + 1)..counter') /\ W \in SUBSET (1..MaxSeq)
  BY <1>2, <1>7, ReservedNumbers
<1> HIDE DEF W
<1>9. mine \in SUBSET (1..MaxSeq) /\ (installed = 0 => mine = {}) /\ (installed # 0 => mine = W)
  BY <1>8
<1> HIDE DEF mine
<1>10. /\ owed' \in [initial : SUBSET (1..MaxSeq), task : SUBSET (1..MaxSeq),
                     cancel : SUBSET (1..MaxSeq)]
       /\ owed'.initial = owed.initial /\ owed'.task = owed.task /\ owed'.cancel = mine
  BY <1>1, <1>2, <1>9 DEF TypeOK
<1>11. TypeOK'
  <2>1. facts' \subseteq [seq : 1..MaxSeq, via : 0..MaxRounds]
    BY <1>1, <1>2, <1>4, <1>8, WrittenType
  <2> QED BY <1>1, <1>2, <1>7, <1>10, <2>1 DEF TypeOK, Active
<1>12. StageInv'
  BY <1>1, <1>2, <1>3 DEF StageInv, Active
<1>13. NumberInv' /\ StreamInv' /\ ObserverInv'
  <2>1. pieces' \in [1..MaxSeq -> Nat] /\ \A n \in 1..MaxSeq : pieces[n] <= pieces'[n]
    BY <1>1, <1>2, PiecesType
  <2>2. \A m \in 1..MaxSeq : m > counter' => pieces'[m] = 0
    BY <1>1, <1>2, <1>7 DEF NumberInv
  <2>3. /\ reserved' \subseteq (reserved \cup ((counter + 1)..counter')) \ W
        /\ status # "final" /\ (installed = 0 => status' = "final" /\ stage' \in Over)
        /\ gate' = "read" <=> gate = "read"
    BY <1>1, <1>3 DEF Active, Over
  <2> QED BY <1>1, <1>4, <1>7, <1>8, <2>1, <2>2, <2>3, WriteStep
<1>14. Via(round)' = Via(round) \cup (IF installed = round THEN W ELSE {})
  BY <1>1, Written DEF Via
<1>15. OwedInv'
  <2>1. CASE installed = 0
    BY <1>1, <1>2, <1>4, <1>5, <1>9, <1>10, <1>14, <2>1 DEF OwedInv
  <2>2. CASE installed # 0
    BY <1>1, <1>2, <1>4, <1>5, <1>9, <1>10, <1>14, <2>2 DEF OwedInv
  <2> QED BY <2>1, <2>2
<1> QED BY <1>11, <1>12, <1>13, <1>15 DEF IInv

\* The fact of a Run that is given up is of no invocation.
LEMMA FailRecoveryKeeps == ASSUME IInv, FailRecovery PROVE IInv'
<1>1. /\ gate = "free" /\ status = "interrupted" /\ Take(1) /\ Write(Fresh(1), 0)
      /\ status' = "final" /\ UNCHANGED <<reserved, pieces, gate, obs, broken>>
      /\ UNCHANGED <<round, stage, installed, start, stream, closed, owed>>
  BY DEF FailRecovery, exec
<1>2. TypeOK /\ StageInv /\ NumberInv /\ OwedInv
  BY DEF IInv
<1>3. stage \in Over /\ round # 0
  BY <1>1, <1>2 DEF StageInv, Over
<1>4. /\ counter \in Nat /\ counter' \in Nat /\ counter <= counter' /\ counter' \in 0..MaxSeq
      /\ Fresh(1) = (counter + 1)..counter' /\ Fresh(1) \in SUBSET (1..MaxSeq)
  BY <1>1, <1>2, TakeNumbers
<1>5. reserved \subseteq 1..counter' /\ reserved \cap Fresh(1) = {}
  <2>1. \A n \in reserved : n \in 1..counter
    BY <1>2, ReservedNumbers
  <2> QED BY <1>4, <2>1
<1>6. TypeOK'
  <2>1. facts' \subseteq [seq : 1..MaxSeq, via : 0..MaxRounds]
    <3>1. 0 \in 0..MaxRounds
      BY Bounds
    <3> QED BY <1>1, <1>2, <1>4, <3>1, WrittenType
  <2> QED BY <1>1, <1>2, <1>4, <1>5, <2>1 DEF TypeOK, Active
<1>7. StageInv'
  BY <1>1, <1>2, <1>3 DEF StageInv, Over
<1>8. NumberInv' /\ StreamInv' /\ ObserverInv'
  <2>1. pieces' \in [1..MaxSeq -> Nat] /\ \A n \in 1..MaxSeq : pieces[n] <= pieces'[n]
    BY <1>1, <1>2, PiecesType
  <2>2. \A m \in 1..MaxSeq : m > counter' => pieces'[m] = 0
    BY <1>1, <1>2, <1>4 DEF NumberInv
  <2>3. reserved' \subseteq (reserved \cup ((counter + 1)..counter')) \ Fresh(1)
    BY <1>1, <1>5
  <2> QED BY <1>1, <1>3, <1>4, <2>1, <2>2, <2>3, WriteStep
<1>9. Via(round)' = Via(round)
  BY <1>1, <1>3, Written DEF Via
<1>10. OwedInv'
  BY <1>1, <1>2, <1>9 DEF OwedInv
<1> QED BY <1>6, <1>7, <1>8, <1>10 DEF IInv

-----------------------------------------------------------------------------

LEMMA InitHolds == Init => IInv
<1> SUFFICES ASSUME Init PROVE IInv
  OBVIOUS
<1>1. /\ status = "absent" /\ facts = {} /\ counter = 0 /\ reserved = {} /\ gate = "free"
      /\ pieces = [n \in 1..MaxSeq |-> 0] /\ round = 0 /\ stage = "none" /\ installed = 0
      /\ start = [k \in Rounds |-> 0] /\ stream = [k \in Rounds |-> <<>>]
      /\ closed = {} /\ owed = NothingOwed /\ obs = Watching("idle", "none", 0, <<>>)
      /\ broken = {}
  BY DEF Init
<1>2. /\ obs.pc = "idle" /\ obs.status = "none" /\ obs.round = 0 /\ obs.got = <<>>
      /\ obs.next = 1
  BY <1>1, WatchingFields
<1>3. obs \in Observers
  <2>1. 0 \in 0..MaxRounds /\ "none" \in Active \cup {"none", "final"}
    BY Bounds
  <2> QED BY <1>1, <2>1, WatchingType
<1>4. /\ owed.initial = {} /\ owed.task = {} /\ owed.cancel = {}
      /\ owed \in [initial : SUBSET (1..MaxSeq), task : SUBSET (1..MaxSeq),
                   cancel : SUBSET (1..MaxSeq)]
  BY <1>1 DEF NothingOwed
<1>5. /\ stream \in [Rounds -> Seq(Frames)] /\ \A k \in Rounds : Len(stream[k]) = 0
  BY <1>1
<1>6. /\ start \in [Rounds -> 0..MaxSeq] /\ pieces \in [1..MaxSeq -> 0..MaxPieces]
  BY <1>1, Bounds
<1>7. TypeOK
  <2>1. \A k \in Rounds : stream[k] \in Seq(Frames)
    BY <1>5
  <2>2. obs.round \in 0..MaxRounds /\ obs.got \in Seq(Frames)
    BY <1>3 DEF Observers
  <2>3. counter \in 0..MaxSeq /\ round \in 0..MaxRounds
    BY <1>1, Bounds
  <2> QED BY <1>1, <1>4, <1>6, <2>1, <2>2, <2>3 DEF TypeOK, Stages
<1>8. StageInv
  BY <1>1 DEF StageInv
<1>9. NumberInv
  BY <1>1 DEF NumberInv
<1>10. OwedInv
  BY <1>1, <1>4 DEF OwedInv
<1>11. StreamInv
  BY <1>1, <1>5, Bounds DEF StreamInv
<1>12. ObserverInv
  BY <1>1, <1>2, <1>3 DEF ObserverInv
<1> QED BY <1>7, <1>8, <1>9, <1>10, <1>11, <1>12 DEF IInv

\* The invariant is kept by every step, of an observer that comes back included.
LEMMA StepKeeps == IInv /\ [Next \/ Drop]_vars => IInv'
<1> SUFFICES ASSUME IInv, [Next \/ Drop]_vars PROVE IInv'
  OBVIOUS
<1>1. CASE UNCHANGED vars
  <2>1. UNCHANGED <<db, exec, broken>> /\ gate' = gate /\ obs' = obs
    BY <1>1 DEF vars
  <2>2. obs' \in Observers
    BY <2>1 DEF IInv, ObserverInv
  <2>3. Numbers(facts)' = Numbers(facts) /\ \A k : Past(k)' = Past(k)
    BY <2>1 DEF Past, Numbers, db
  <2>4. ObserverInv'
    <3>1. /\ status' = status /\ facts' = facts /\ round' = round /\ stream' = stream
          /\ start' = start /\ closed' = closed /\ round \in Nat
      BY <2>1 DEF db, exec, IInv, TypeOK
    <3> QED BY <2>1, <2>3, <3>1, ObserverStays
  <2> QED BY <2>1, <2>2, <2>4, BackendStays DEF IInv
<1>2. CASE Drop
  BY <1>2, DropKeeps
<1>3. CASE Next
  BY <1>3, BeginKeeps, InstallKeeps, StartFailsKeeps, StartAttemptedKeeps, TaskBeginsKeeps,
    ReserveKeeps, SpeakKeeps, IngestKeeps, GraphEndsKeeps, SettleKeeps, LoseOutcomeKeeps,
    PublishTaskKeeps, FinishKeeps, CancelCommitsKeeps, CancelPublishesKeeps, FailRecoveryKeeps,
    AttachKeeps, ReadRunKeeps, LookupKeeps, ListKeeps, DeliverKeeps, EndOfStreamKeeps
    DEF Next
<1> QED BY <1>1, <1>2, <1>3

\* The inductive invariant holds for one observer.
THEOREM Inductive == Spec => []IInv
<1>1. IInv /\ [Next]_vars => IInv'
  BY StepKeeps
<1> QED BY InitHolds, <1>1, PTL DEF Spec

\* Every variable has its type.
THEOREM TypeCorrect == Spec => []TypeOK
<1>1. IInv => TypeOK
  BY DEF IInv
<1> QED BY <1>1, Inductive, PTL

-----------------------------------------------------------------------------
(* What an observer gets.                                                   *)

LEMMA ViaIs ==
  ASSUME NumberInv, NEW f \in facts
  PROVE  ViaOf(f.seq) = f.via
<1>1. \A g \in facts : g.seq = f.seq => g = f
  BY DEF NumberInv
<1> DEFINE g == CHOOSE g \in facts : g.seq = f.seq
<1>2. g \in facts /\ g.seq = f.seq
  OBVIOUS
<1> HIDE DEF g
<1>3. g = f
  BY <1>1, <1>2
<1> QED BY <1>3 DEF ViaOf, g

\* Of the facts of invocations that were followed by another, the later ones are of the
\* later invocations.
LEMMA ViaGrows ==
  ASSUME TypeOK, NumberInv, NEW k \in 1..round, NEW f \in facts, NEW g \in facts,
         f.via \in 1..(k-1), g.via \in 1..(k-1), f.seq < g.seq
  PROVE  f.via <= g.via
<1>1. /\ f.via \in 1..round /\ f.via \notin {0, round} /\ round \in Nat
      /\ f.seq \in Nat /\ g.seq \in Nat /\ f.via \in Nat /\ g.via \in Nat
      /\ start[f.via] \in Nat
  <2>1. f.seq \in Nat /\ g.seq \in Nat /\ f.via \in Rounds
    BY FactParts, Bounds
  <2>2. round \in Nat
    BY Bounds DEF TypeOK
  <2>3. start[f.via] \in Nat
    BY <2>1, Bounds DEF TypeOK
  <2> QED BY <2>1, <2>2, <2>3, Bounds
<1>2. ~(f.seq < start[f.via])
  BY <1>1 DEF NumberInv
<1>3. ~(g.seq < start[f.via])
  BY <1>1, <1>2
<1>4. g.via \notin 1..(f.via - 1)
  BY <1>1, <1>3 DEF NumberInv
<1> QED BY <1>1, <1>4

\* The frames an observer has, whatever part of an execution it has seen: the facts of
\* the history it was built on in order, then what is on the stream.
LEMMA HistoryThenStream ==
  ASSUME IInv, Watches(obs), NEW S \in SUBSET Numbers(facts), Joined(obs, Facts(S))
  PROVE  /\ obs.round \in 1..round /\ obs.round \in Rounds
         /\ LET h == Len(Facts(S))
            IN  /\ h \in Nat /\ obs.next \in Nat \ {0} /\ Len(obs.got) = h + (obs.next - 1)
                /\ \A i \in 1..h : obs.got[i].piece = 0 /\ obs.got[i].seq \in S
                /\ \A i, j \in 1..h : i < j => obs.got[i].seq < obs.got[j].seq
                /\ \A i \in 1..(obs.next - 1) :
                     i \in 1..Len(stream[obs.round]) /\ obs.got[h + i] = stream[obs.round][i]
<1>1. obs.round \in 1..round /\ obs.round \in Rounds /\ obs.next \in Nat \ {0}
  BY Bounds DEF Watches, IInv, TypeOK, ObserverInv, Observers
<1>2. S \in SUBSET (1..MaxSeq) /\ Len(stream[obs.round]) \in Nat
  BY <1>1, FactParts DEF IInv, TypeOK
<1> DEFINE H == Facts(S)
<1>3. /\ H \in Seq(Frames) /\ Len(H) \in Nat
      /\ \A i \in 1..Len(H) : H[i].piece = 0 /\ H[i].seq \in S
      /\ \A i, j \in 1..Len(H) : i < j => H[i].seq < H[j].seq
  BY <1>2, FactsOf
<1>4. /\ obs.next - 1 <= Len(stream[obs.round]) /\ Len(obs.got) = Len(H) + obs.next - 1
      /\ \A i \in 1..Len(H) : obs.got[i] = H[i]
      /\ \A i \in 1..(obs.next - 1) : obs.got[Len(H) + i] = stream[obs.round][i]
  BY DEF Watches, Joined
<1> HIDE DEF H
<1>5. Len(obs.got) = Len(H) + (obs.next - 1)
      /\ \A i \in 1..(obs.next - 1) : i \in 1..Len(stream[obs.round])
  BY <1>1, <1>2, <1>3, <1>4
<1>6. /\ \A i \in 1..Len(H) : obs.got[i].piece = 0 /\ obs.got[i].seq \in S
      /\ \A i, j \in 1..Len(H) : i < j => obs.got[i].seq < obs.got[j].seq
  BY <1>3, <1>4
<1> QED BY <1>1, <1>3, <1>4, <1>5, <1>6 DEF H

LEMMA OnceEach ==
  ASSUME IInv
  PROVE  EveryFrameOnce
<1> DEFINE Once(a, b, i, j) ==
      /\ a = b => a.piece = 0 /\ obs.round # 0 /\ Carried(a.seq)
                   /\ i <= FromHistory /\ FromHistory < j
      /\ a.seq = b.seq /\ a # b => a.piece # 0 /\ (b.piece = 0 \/ b.piece > a.piece)
      /\ obs.round # 0 /\ a.piece = 0 /\ b.piece = 0 /\ ~Carried(a.seq) /\ ~Carried(b.seq)
           => ViaOf(a.seq) <= ViaOf(b.seq)
<1>1. SUFFICES ASSUME NEW i \in 1..Len(obs.got), NEW j \in 1..Len(obs.got), i < j
               PROVE  Once(obs.got[i], obs.got[j], i, j)
  BY DEF EveryFrameOnce
<1>2. TypeOK /\ NumberInv /\ StreamInv /\ ObserverInv /\ obs \in Observers
  BY DEF IInv, ObserverInv
<1> DEFINE a == obs.got[i]
           b == obs.got[j]
<1>3. CASE obs.pc = "done" /\ obs.round = 0
  <2>1. PICK S \in SUBSET Numbers(facts) : obs.got = Facts(S)
    BY <1>2, <1>3 DEF ObserverInv
  <2>2. S \in SUBSET (1..MaxSeq)
    BY <1>2, FactParts
  <2>3. a.seq < b.seq /\ a.seq \in S /\ b.seq \in S
    BY <1>1, <2>1, <2>2, FactsOf
  <2> HIDE DEF a, b
  <2>4. a.seq \in Nat /\ b.seq \in Nat
    <3>1. \A n \in S : n \in Nat
      BY <2>2
    <3> QED BY <2>3, <3>1
  <2>5. Once(a, b, i, j)
    BY <1>3, <2>3, <2>4
  <2> QED BY <2>5 DEF a, b
<1>4. CASE obs.round # 0 /\ Watches(obs)
  <2> PICK S \in SUBSET Numbers(facts) : Precedes(S, obs) /\ Joined(obs, Facts(S))
    BY <1>4 DEF Watches
  <2> DEFINE h == Len(Facts(S))
             k == obs.round
             n == obs.next - 1
             s == stream[k]
  <2>1. /\ k \in 1..round /\ k \in Rounds /\ h \in Nat /\ obs.next \in Nat \ {0}
        /\ Len(obs.got) = h + n
        /\ \A m \in 1..h : obs.got[m].piece = 0 /\ obs.got[m].seq \in S
        /\ \A m, o \in 1..h : m < o => obs.got[m].seq < obs.got[o].seq
        /\ \A m \in 1..n : m \in 1..Len(s) /\ obs.got[h + m] = s[m]
    BY <1>4, HistoryThenStream
  <2>2. n \in Nat /\ FromHistory = h
    BY <2>1 DEF FromHistory
  <2>3. /\ \A m \in 1..Len(s) : FrameOk(k, s[m]) /\ s[m] \in Frames
        /\ \A m, o \in 1..Len(s) : m < o => Follows(s[m], s[o])
    BY <1>2, <2>1 DEF StreamInv
  <2> HIDE DEF h, n, s
  <2>4. start[k] \in Nat /\ k \in Nat
    BY <1>2, <2>1, Bounds DEF TypeOK
  <2>5. ASSUME NEW m \in 1..Len(s)
        PROVE  /\ s[m].seq \in Nat /\ s[m].piece \in Nat
               /\ s[m].piece # 0 => s[m].seq >= start[k]
               /\ s[m].piece = 0 => \E f \in facts : f.seq = s[m].seq /\ f.via = k
    <3>1. s[m] \in Frames /\ FrameOk(k, s[m])
      BY <2>3
    <3>2. s[m].seq \in Nat /\ s[m].piece \in Nat
      BY <3>1, Bounds DEF Frames
    <3> QED BY <2>4, <3>1, <3>2 DEF FrameOk, Via
  <2>6. ASSUME NEW m \in 1..h
        PROVE  \E f \in facts : f.seq = obs.got[m].seq /\ f.seq < start[k] /\ f.seq \in Nat
    <3>1. obs.got[m].seq \in S /\ S # {}
      BY <2>1
    <3>2. obs.got[m].seq < start[k]
      BY <3>1 DEF Precedes
    <3>3. PICK f \in facts : f.seq = obs.got[m].seq
      BY <3>1 DEF Numbers
    <3> QED BY <1>2, <3>2, <3>3, FactParts
  <2>7. CASE i \in 1..h /\ j \in 1..h
    <3>1. PICK f \in facts : f.seq = a.seq /\ f.seq < start[k] /\ f.seq \in Nat
      BY <2>6, <2>7
    <3>2. PICK g \in facts : g.seq = b.seq /\ g.seq < start[k] /\ g.seq \in Nat
      BY <2>6, <2>7
    <3>3. a.seq < b.seq
      BY <1>1, <2>1, <2>7
    <3> HIDE DEF a, b
    <3>4. ViaOf(a.seq) = f.via /\ ViaOf(b.seq) = g.via
      BY <1>2, <3>1, <3>2, ViaIs
    <3>5. ~Carried(a.seq) /\ ~Carried(b.seq) => f.via <= g.via
      BY <1>2, <2>1, <3>1, <3>2, <3>3, <3>4, ViaGrows DEF Carried
    <3>6. a.seq # b.seq
      BY <3>1, <3>2, <3>3
    <3>7. Once(a, b, i, j)
      BY <3>4, <3>5, <3>6
    <3> QED BY <3>7 DEF a, b
  <2>8. CASE i \in 1..h /\ j \notin 1..h
    <3>1. j - h \in 1..n /\ j = h + (j - h) /\ i <= h /\ h < j
      BY <2>1, <2>2, <2>8
    <3>2. b = s[j - h] /\ j - h \in 1..Len(s)
      BY <2>1, <3>1
    <3>3. PICK f \in facts : f.seq = a.seq /\ f.seq < start[k] /\ f.seq \in Nat
      BY <2>6, <2>8
    <3>4. b.seq \in Nat /\ (b.piece # 0 => b.seq >= start[k]) /\ b \in Frames
      BY <2>3, <2>5, <3>2
    <3>5. b.piece = 0 => \E g \in facts : g.seq = b.seq /\ g.via = k
      BY <2>5, <3>2
    <3>6. a.piece = 0 /\ a \in Frames
      <4>1. obs.got \in Seq(Frames)
        BY <1>2 DEF TypeOK
      <4> QED BY <2>1, <2>8, <4>1
    <3> HIDE DEF a, b
    <3>7. b.piece = 0 => ViaOf(b.seq) = k
      BY <1>2, <3>5, ViaIs
    <3>8. a = b => Carried(a.seq)
      <4>1. k \notin 1..(k-1)
        BY <2>4
      <4> QED BY <3>3, <3>6, <3>7, <4>1 DEF Carried
    <3>9. a.seq = b.seq => a = b
      <4>1. a.seq = b.seq => b.piece = 0
        BY <2>4, <3>3, <3>4
      <4> QED BY <3>4, <3>6, <4>1 DEF Frames
    <3>10. b.piece = 0 /\ ~Carried(a.seq) => ViaOf(a.seq) <= ViaOf(b.seq)
      <4>1. ~Carried(a.seq) => ViaOf(a.seq) \in 1..(k-1)
        BY <3>3 DEF Carried
      <4> QED BY <2>4, <3>7, <4>1
    <3>11. k # 0
      BY <2>1
    <3>12. Once(a, b, i, j)
      BY <2>2, <3>1, <3>6, <3>8, <3>9, <3>10, <3>11
    <3> QED BY <3>12 DEF a, b
  <2>9. CASE i \notin 1..h
    <3>1. /\ i - h \in 1..n /\ i = h + (i - h) /\ j - h \in 1..n /\ j = h + (j - h)
          /\ i - h < j - h
      BY <1>1, <2>1, <2>2, <2>9
    <3>2. /\ a = s[i - h] /\ i - h \in 1..Len(s) /\ b = s[j - h] /\ j - h \in 1..Len(s)
      BY <2>1, <3>1
    <3>3. Follows(a, b)
      BY <2>3, <3>1, <3>2
    <3>4. a.piece = 0 => \E f \in facts : f.seq = a.seq /\ f.via = k
      BY <2>5, <3>2
    <3>5. b.piece = 0 => \E g \in facts : g.seq = b.seq /\ g.via = k
      BY <2>5, <3>2
    <3>6. a.piece \in Nat
      BY <2>5, <3>2
    <3> HIDE DEF a, b
    <3>7. a.piece = 0 /\ b.piece = 0 => ViaOf(a.seq) <= ViaOf(b.seq)
      <4>1. a.piece = 0 => ViaOf(a.seq) = k
        BY <1>2, <3>4, ViaIs
      <4>2. b.piece = 0 => ViaOf(b.seq) = k
        BY <1>2, <3>5, ViaIs
      <4> QED BY <2>4, <4>1, <4>2
    <3>8. a # b
      BY <3>3, <3>6 DEF Follows
    <3>9. Once(a, b, i, j)
      BY <3>3, <3>7, <3>8 DEF Follows
    <3> QED BY <3>9 DEF a, b
  <2> QED BY <2>7, <2>8, <2>9
<1>5. obs.got # <<>>
  BY <1>1, <1>2 DEF Observers
<1>6. (obs.pc = "done" /\ obs.round = 0) \/ Watches(obs)
  BY <1>2, <1>5 DEF ObserverInv, Observers
<1>7. Watches(obs) => obs.round # 0
  BY DEF Watches
<1> QED BY <1>3, <1>4, <1>6, <1>7

LEMMA NoneMissed ==
  ASSUME IInv
  PROVE  NothingMissed
<1> DEFINE upTo(k) == Numbers({f \in facts : f.via \in 1..k})
<1>1. SUFFICES ASSUME obs.round \notin broken
      PROVE  LET got == FactsIn(obs.got)
             IN  /\ obs.pc = "detached" => got = Numbers({f \in facts : f.via = obs.round})
                 /\ obs.pc = "done" /\ obs.round # 0 =>
                      /\ upTo(obs.round) \subseteq got
                      /\ \A n \in got \ upTo(obs.round) : n < start[obs.round]
                 /\ obs.pc = "done" /\ obs.status = "final" => got = Numbers(facts)
  BY DEF NothingMissed
<1>2. TypeOK /\ NumberInv /\ StreamInv /\ ObserverInv /\ obs \in Observers
  BY DEF IInv, ObserverInv
<1>3. CASE obs.pc = "done" /\ obs.round = 0
  <2>1. PICK S \in SUBSET Numbers(facts) : /\ obs.got = Facts(S)
                                           /\ obs.status = "final" => S = Numbers(facts)
    BY <1>2, <1>3 DEF ObserverInv
  <2>2. S \in SUBSET (1..MaxSeq)
    BY <1>2, FactParts
  <2>3. FactsIn(obs.got) = S
    BY <2>1, <2>2, FactsInFacts
  <2> QED BY <1>3, <2>1, <2>3
<1>4. CASE obs.pc = "detached" \/ (obs.pc = "done" /\ obs.round # 0)
  <2>1. Watches(obs) /\ obs.round # 0
    BY <1>2, <1>4 DEF ObserverInv, Watches
  <2> PICK S \in SUBSET Numbers(facts) : Precedes(S, obs) /\ Joined(obs, Facts(S))
    BY <2>1 DEF Watches
  <2> DEFINE k == obs.round
             s == stream[k]
             H == Facts(S)
  <2>2. k \in closed /\ obs.next = Len(s) + 1 /\ k \in Rounds /\ s \in Seq(Frames)
    BY <1>2, <1>4, <2>1, HistoryThenStream DEF Watches, StreamInv
  <2>3. FactsIn(s) = Via(k)
    <3>1. Via(k) \subseteq FactsIn(s)
      BY <1>1, <1>2, <2>2 DEF StreamInv
    <3>2. \A i \in 1..Len(s) : s[i].piece = 0 => s[i].seq \in Via(k)
      BY <1>2, <2>2 DEF StreamInv, FrameOk
    <3>3. FactsIn(s) = {s[i].seq : i \in {j \in 1..Len(s) : s[j].piece = 0}}
      BY <2>2, FactsInSeq
    <3> HIDE DEF s
    <3> QED BY <3>1, <3>2, <3>3
  <2>4. H \in Seq(Frames) /\ FactsIn(H) = S
    <3>1. S \in SUBSET (1..MaxSeq)
      BY <1>2, FactParts
    <3> QED BY <3>1, FactsOf, FactsInFacts
  <2>5. obs.got = H \o s
    <3>1. /\ Len(obs.got) = Len(H) + obs.next - 1
          /\ \A i \in 1..Len(H) : obs.got[i] = H[i]
          /\ \A i \in 1..(obs.next - 1) : obs.got[Len(H) + i] = s[i]
      BY DEF Joined
    <3>2. obs.got \in Seq(Frames)
      BY <1>2 DEF TypeOK
    <3> HIDE DEF H, s
    <3>3. /\ Len(H) \in Nat /\ Len(s) \in Nat /\ obs.next - 1 = Len(s)
          /\ Len(obs.got) = Len(H) + Len(s)
      BY <2>2, <2>4, <3>1
    <3>4. H \o s \in Seq(Frames) /\ Len(H \o s) = Len(H) + Len(s)
      BY <2>2, <2>4
    <3>5. ASSUME NEW i \in 1..Len(obs.got) PROVE obs.got[i] = (H \o s)[i]
      <4>1. CASE i \in 1..Len(H)
        BY <2>2, <2>4, <3>1, <4>1
      <4>2. CASE i \notin 1..Len(H)
        <5>1. i - Len(H) \in 1..Len(s) /\ i = Len(H) + (i - Len(H))
          BY <3>3, <4>2
        <5>2. obs.got[i] = s[i - Len(H)]
          BY <3>1, <3>3, <5>1
        <5>3. (H \o s)[i] = s[i - Len(H)]
          BY <2>2, <2>4, <3>3, <4>2, <5>1
        <5> QED BY <5>2, <5>3
      <4> QED BY <4>1, <4>2
    <3>6. Len(obs.got) = Len(H \o s)
      BY <3>3, <3>4
    <3> DEFINE t == H \o s
               g == obs.got
    <3>7. g \in Seq(Frames) /\ t \in Seq(Frames) /\ Len(g) = Len(t)
          /\ \A i \in 1..Len(g) : g[i] = t[i]
      BY <3>2, <3>4, <3>5, <3>6
    <3> HIDE DEF t, g
    <3>8. g = t
      BY <3>7
    <3> QED BY <3>8 DEF t, g
  <2> HIDE DEF H, s
  <2>6. FactsIn(obs.got) = S \cup Via(k)
    BY <2>2, <2>3, <2>4, <2>5, FactsInConcat
  <2>7. Past(k) \cup Via(k) = upTo(k)
    <3>1. \A v \in Nat : v \in 1..k <=> v \in 1..(k-1) \/ v = k
      BY <2>1, <2>2, Bounds
    <3>2. \A f \in facts : f.via \in Nat
      BY <1>2, FactParts
    <3> QED BY <3>1, <3>2 DEF Past, Via, Numbers
  <2>8. Via(k) = Numbers({f \in facts : f.via = k})
    BY DEF Via, Numbers
  <2>9. obs.status # "final"
    BY <1>2, <2>1 DEF ObserverInv
  <2> HIDE DEF upTo
  <2>10. CASE obs.pc = "detached"
    <3>1. S = {}
      BY <2>10 DEF Precedes
    <3> QED BY <2>6, <2>8, <2>9, <2>10, <3>1
  <2>11. CASE obs.pc = "done"
    <3>1. Past(k) \subseteq S /\ \A n \in S : n < start[k]
      BY <2>11 DEF Precedes
    <3> QED BY <2>6, <2>7, <2>9, <2>11, <3>1
  <2> QED BY <1>4, <2>10, <2>11
<1> QED BY <1>3, <1>4

\* The join of history and stream is exact: no observer misses a fact, and none gets a
\* frame twice, however often the Run is paused, with previews open or without,
\* cancelled, failed or settled by another between the reads its history and its stream
\* come from (run_observation.py:71-104).  The one repetition is a fact whose number a
\* Run carried over a pause: once with the history and once by the stream of the later
\* invocation that made a message of it (run_events.py:57, 91).
THEOREM JoinIsExact == Spec => []ObserverGetsAll
<1>1. IInv => ObserverGetsAll
  BY OnceEach, NoneMissed DEF ObserverGetsAll
<1> QED BY <1>1, Inductive, PTL

-----------------------------------------------------------------------------
(* The pieces of a text on a stream.                                        *)

LEMMA RangeIs ==
  ASSUME NEW s \in Seq(Frames)
  PROVE  Range(s) = {s[i] : i \in 1..Len(s)}
  BY DEF Range

LEMMA RangeConcat ==
  ASSUME NEW s \in Seq(Frames), NEW t \in Seq(Frames)
  PROVE  Range(s \o t) = Range(s) \cup Range(t)
<1> DEFINE both == s \o t
<1>1. both \in Seq(Frames) /\ Len(both) = Len(s) + Len(t) /\ Len(s) \in Nat /\ Len(t) \in Nat
  OBVIOUS
<1>2. \A i \in 1..Len(s) : both[i] = s[i] /\ i \in 1..Len(both)
  BY <1>1
<1>3. \A i \in 1..Len(t) : both[Len(s) + i] = t[i] /\ Len(s) + i \in 1..Len(both)
  BY <1>1
<1>4. \A i \in 1..Len(both) : \/ i \in 1..Len(s) /\ both[i] = s[i]
                              \/ i - Len(s) \in 1..Len(t) /\ both[i] = t[i - Len(s)]
  BY <1>1
<1> HIDE DEF both
<1>5. Range(both) \subseteq Range(s) \cup Range(t)
  BY <1>1, <1>4, RangeIs
<1>6. Range(s) \subseteq Range(both)
  BY <1>1, <1>2, RangeIs
<1>7. Range(t) \subseteq Range(both)
  <2> SUFFICES ASSUME NEW i \in 1..Len(t) PROVE t[i] \in Range(both)
    BY RangeIs
  <2>1. both[Len(s) + i] = t[i] /\ Len(s) + i \in 1..Len(both)
    BY <1>3
  <2> QED BY <1>1, <2>1, RangeIs
<1> QED BY <1>5, <1>6, <1>7 DEF both

\* Before a piece of a text comes the piece before it.
Preceded(s) ==
  \A i \in 1..Len(s) : s[i].piece > 1 =>
    \E j \in 1..(i-1) : s[j] = Piece(s[i].seq, s[i].piece - 1)

LEMMA PrecededConcat ==
  ASSUME NEW s \in Seq(Frames), NEW t \in Seq(Frames), Preceded(s),
         \A i \in 1..Len(t) : t[i].piece > 1 => Piece(t[i].seq, t[i].piece - 1) \in Range(s)
  PROVE  Preceded(s \o t)
<1> DEFINE both == s \o t
<1>1. both \in Seq(Frames) /\ Len(both) = Len(s) + Len(t) /\ Len(s) \in Nat /\ Len(t) \in Nat
  OBVIOUS
<1>2. \A i \in 1..Len(s) : both[i] = s[i]
  BY <1>1
<1>3. \A i \in 1..Len(both) : \/ i \in 1..Len(s) /\ both[i] = s[i]
                              \/ i > Len(s) /\ i - Len(s) \in 1..Len(t) /\ both[i] = t[i - Len(s)]
  BY <1>1
<1> HIDE DEF both
<1>4. ASSUME NEW i \in 1..Len(both), both[i].piece > 1
      PROVE  \E j \in 1..(i-1) : both[j] = Piece(both[i].seq, both[i].piece - 1)
  <2>1. CASE i \in 1..Len(s) /\ both[i] = s[i]
    <3>1. PICK j \in 1..(i-1) : s[j] = Piece(s[i].seq, s[i].piece - 1)
      BY <1>4, <2>1 DEF Preceded
    <3>2. j \in 1..Len(s)
      BY <1>1, <2>1
    <3> QED BY <1>2, <2>1, <3>1, <3>2
  <2>2. CASE i > Len(s) /\ i - Len(s) \in 1..Len(t) /\ both[i] = t[i - Len(s)]
    <3>1. Piece(both[i].seq, both[i].piece - 1) \in Range(s)
      BY <1>4, <2>2
    <3>2. PICK j \in 1..Len(s) : s[j] = Piece(both[i].seq, both[i].piece - 1)
      BY <3>1, RangeIs
    <3>3. j \in 1..(i-1)
      BY <1>1, <2>2
    <3> QED BY <1>2, <3>2, <3>3
  <2> QED BY <1>3, <2>1, <2>2
<1> QED BY <1>4 DEF Preceded, both

\* The text of a preview is on the stream of the invocation as far as it was produced.
PieceInv ==
  /\ \A n \in Held : pieces[n] >= 1 /\ Piece(n, pieces[n]) \in Range(stream[round])
  /\ \A k \in Rounds : Preceded(stream[k])

LEMMA PiecesKept ==
  ASSUME PieceInv, stream' = stream,
         \A n \in Held' : n \in Held /\ pieces'[n] = pieces[n] /\ round' = round
  PROVE  PieceInv'
<1>1. \A k \in Rounds : Preceded(stream[k])'
  BY DEF PieceInv, Preceded
<1>2. ASSUME NEW n \in Held'
      PROVE  pieces'[n] >= 1 /\ Piece(n, pieces'[n]) \in Range(stream'[round'])
  BY DEF PieceInv
<1> QED BY <1>1, <1>2 DEF PieceInv

LEMMA PiecesSent ==
  ASSUME IInv, PieceInv, NEW t \in Seq(Frames), Send(round, t), stage \notin {"none", "done"},
         round' = round,
         \A i \in 1..Len(t) : t[i].piece > 1 =>
           Piece(t[i].seq, t[i].piece - 1) \in Range(stream[round]),
         \A n \in Held' : \/ n \in Held /\ pieces'[n] = pieces[n]
                          \/ pieces'[n] >= 1 /\ Piece(n, pieces'[n]) \in Range(t)
  PROVE  PieceInv'
<1>1. round \in Rounds /\ round \notin closed /\ stream \in [Rounds -> Seq(Frames)]
  BY RoundThere DEF IInv, StreamInv
<1>2. /\ stream'[round] = stream[round] \o t /\ stream[round] \in Seq(Frames)
      /\ \A k \in Rounds : k # round => stream'[k] = stream[k]
  BY <1>1 DEF Send
<1>3. Preceded(stream[round] \o t) /\ Range(stream[round] \o t) = Range(stream[round]) \cup Range(t)
  BY <1>1, <1>2, PrecededConcat, RangeConcat DEF PieceInv
<1>4. ASSUME NEW k \in Rounds PROVE Preceded(stream'[k])
  BY <1>2, <1>3 DEF PieceInv
<1>5. ASSUME NEW n \in Held'
      PROVE  pieces'[n] >= 1 /\ Piece(n, pieces'[n]) \in Range(stream'[round'])
  BY <1>2, <1>3 DEF PieceInv
<1> QED BY <1>4, <1>5 DEF PieceInv, Preceded

\* The publication of facts.
LEMMA PiecesPublished ==
  ASSUME IInv, PieceInv, NEW P \in SUBSET (1..MaxSeq), Publish(round, P),
         stage \notin {"none", "done"}, UNCHANGED <<round, start, reserved, pieces>>
  PROVE  PieceInv'
<1> DEFINE t == Facts(P \ FactsIn(stream[round]))
<1>1. /\ t \in Seq(Frames) /\ \A i \in 1..Len(t) : t[i].piece = 0
      /\ Send(round, t)
  <2>1. P \ FactsIn(stream[round]) \in SUBSET (1..MaxSeq)
    OBVIOUS
  <2> QED BY <2>1, FactsOf DEF Publish
<1> HIDE DEF t
<1>2. \A i \in 1..Len(t) : ~(t[i].piece > 1)
  BY <1>1
<1>3. Held' = Held
  BY DEF Held
<1> QED BY <1>1, <1>2, <1>3, PiecesSent

LEMMA OwedNumbers ==
  ASSUME IInv
  PROVE  /\ owed.initial \in SUBSET (1..MaxSeq) /\ owed.task \in SUBSET (1..MaxSeq)
         /\ owed.cancel \in SUBSET (1..MaxSeq)
  BY DEF IInv, TypeOK

LEMMA ReservePieces == ASSUME IInv, PieceInv, Reserve PROVE PieceInv'
<1>1. /\ stage = "graph" /\ Take(1) /\ reserved' = reserved \cup Fresh(1)
      /\ pieces' = [pieces EXCEPT ![counter + 1] = 1] /\ round' = round
      /\ start' = start
      /\ Send(round, <<Piece(counter + 1, 1)>>)
  BY DEF Reserve
<1>2. TypeOK
  BY DEF IInv
<1>3. counter \in Nat /\ counter + 1 \in 1..MaxSeq /\ Fresh(1) = {counter + 1}
  <2>1. counter \in Nat /\ counter' = counter + 1 /\ counter' \in 0..MaxSeq
        /\ Fresh(1) = (counter + 1)..(counter + 1)
    BY <1>1, <1>2, TakeNumbers
  <2> QED BY <2>1
<1>4. pieces'[counter + 1] = 1 /\ \A n \in reserved : pieces'[n] = pieces[n]
  <2>1. \A n \in reserved : n # counter + 1 /\ n \in 1..MaxSeq
    <3>1. \A n \in reserved : n \in 1..counter /\ n \in 1..MaxSeq
      BY <1>2, ReservedNumbers
    <3> QED BY <1>3, <3>1
  <2> QED BY <1>1, <1>2, <1>3, <2>1 DEF TypeOK
<1> DEFINE a == Piece(counter + 1, 1)
           t == <<a>>
<1>5. a \in Frames /\ a.seq = counter + 1 /\ a.piece = 1
  BY <1>3, Bounds DEF Piece, Frames
<1> HIDE DEF a
<1>6. t \in Seq(Frames) /\ Len(t) = 1 /\ t[1] = a
  BY <1>5
<1> HIDE DEF t
<1>7. a \in Range(t)
  BY <1>6, RangeIs
<1>8. \A i \in 1..Len(t) : ~(t[i].piece > 1)
  BY <1>5, <1>6
<1>9. ASSUME NEW n \in Held'
      PROVE  \/ n \in Held /\ pieces'[n] = pieces[n]
             \/ pieces'[n] >= 1 /\ Piece(n, pieces'[n]) \in Range(t)
  <2>1. (n \in reserved /\ n \in Held) \/ n = counter + 1
    BY <1>1, <1>3 DEF Held
  <2> QED BY <1>4, <1>7, <2>1 DEF a
<1>10. Send(round, t)
  BY <1>1 DEF a, t
<1> QED BY <1>1, <1>6, <1>8, <1>9, <1>10, PiecesSent

LEMMA SpeakPieces == ASSUME IInv, PieceInv, Speak PROVE PieceInv'
<1>1. stage = "graph" /\ Held' = Held /\ round' = round
  BY DEF Speak, Held
<1>2. PICK n \in Held : /\ pieces[n] < MaxPieces
                        /\ pieces' = [pieces EXCEPT ![n] = @ + 1]
                        /\ Send(round, <<Piece(n, pieces[n] + 1)>>)
  BY DEF Speak
<1>3. n \in 1..MaxSeq /\ pieces[n] \in Nat /\ pieces[n] + 1 \in 0..MaxPieces
  <2>1. n \in 1..MaxSeq /\ pieces[n] \in Nat
    BY PiecesType, ReservedNumbers DEF IInv, Held
  <2> QED BY <1>2, <2>1, Bounds
<1>4. pieces'[n] = pieces[n] + 1 /\ \A m \in Held : m # n => pieces'[m] = pieces[m]
  <2>1. \A m \in Held : m \in 1..MaxSeq
    BY ReservedNumbers DEF IInv, Held
  <2> QED BY <1>2, <1>3, <2>1 DEF IInv, TypeOK
<1>5. pieces[n] >= 1 /\ Piece(n, pieces[n]) \in Range(stream[round])
  BY DEF PieceInv
<1> DEFINE a == Piece(n, pieces[n] + 1)
           t == <<a>>
<1>6. a \in Frames /\ a.seq = n /\ a.piece = pieces[n] + 1 /\ a.piece - 1 = pieces[n]
  BY <1>3 DEF Piece, Frames
<1>7. a = Piece(n, pieces'[n])
  BY <1>4
<1> HIDE DEF a
<1>8. t \in Seq(Frames) /\ Len(t) = 1 /\ t[1] = a
  BY <1>6
<1>9. Send(round, t)
  BY <1>2 DEF a, t
<1> HIDE DEF t
<1>10. a \in Range(t)
  BY <1>8, RangeIs
<1>11. \A i \in 1..Len(t) : Piece(t[i].seq, t[i].piece - 1) \in Range(stream[round])
  BY <1>5, <1>6, <1>8
<1>12. pieces'[n] >= 1
  BY <1>3, <1>4
<1>13. \A m \in Held' : \/ m \in Held /\ pieces'[m] = pieces[m]
                        \/ pieces'[m] >= 1 /\ Piece(m, pieces'[m]) \in Range(t)
  BY <1>1, <1>4, <1>7, <1>10, <1>12
<1> QED BY <1>1, <1>8, <1>9, <1>11, <1>13, PiecesSent

LEMMA IngestPieces == ASSUME IInv, PieceInv, Ingest PROVE PieceInv'
<1>1. stream' = stream /\ round' = round /\ start' = start
  BY DEF Ingest
<1>2. PICK n \in Held \cup Fresh(1) : /\ reserved' = reserved \ {n}
                                      /\ pieces' = [pieces EXCEPT ![n] = Max({1, @})]
  BY DEF Ingest
<1>3. \A m \in reserved : m \in 1..MaxSeq
  BY ReservedNumbers DEF IInv
<1>4. \A m \in Held' : m \in Held /\ pieces'[m] = pieces[m]
  BY <1>1, <1>2, <1>3 DEF IInv, TypeOK, Held
<1> QED BY <1>1, <1>4, PiecesKept

\* No message of the new invocation has a number yet.
LEMMA BeginPieces == ASSUME IInv, PieceInv, Begin PROVE PieceInv'
<1>1. reserved' = reserved /\ stream' = stream /\ start'[round'] = counter + 1
  <2>1. round \in Nat /\ round < MaxRounds /\ round' = round + 1
    BY Bounds DEF Begin, IInv, TypeOK
  <2>2. round' \in Rounds
    BY <2>1, Bounds
  <2> QED BY <2>1, <2>2 DEF Begin, IInv, TypeOK
<1>2. \A n \in reserved : n \in 1..counter /\ counter \in Nat
  BY ReservedNumbers, Bounds DEF IInv, TypeOK
<1>3. Held' = {}
  BY <1>1, <1>2 DEF Held
<1> QED BY <1>1, <1>3, PiecesKept

LEMMA SettlePieces == ASSUME IInv, PieceInv, Settle PROVE PieceInv'
<1>1. /\ stream' = stream /\ round' = round /\ start' = start /\ pieces' = pieces
      /\ reserved' \subseteq reserved
  BY DEF Settle, db
<1>2. Held' \subseteq Held
  BY <1>1 DEF Held
<1> QED BY <1>1, <1>2, PiecesKept

LEMMA CancelPieces == ASSUME IInv, PieceInv, CancelCommits PROVE PieceInv'
<1>1. stream' = stream /\ reserved' = {}
  BY DEF CancelCommits
<1>2. Held' = {}
  BY <1>1 DEF Held
<1> QED BY <1>1, <1>2, PiecesKept

LEMMA PiecesStep == ASSUME IInv, PieceInv, [Next \/ Drop]_vars PROVE PieceInv'
<1>1. ASSUME \/ Install \/ StartFails \/ StartAttempted \/ GraphEnds \/ LoseOutcome \/ Finish
             \/ Attach \/ ReadRun \/ Lookup \/ List \/ Deliver \/ EndOfStream \/ Drop
             \/ FailRecovery \/ UNCHANGED vars
      PROVE  PieceInv'
  <2>1. /\ stream' = stream /\ reserved' = reserved /\ pieces' = pieces /\ round' = round
        /\ start' = start
    BY <1>1 DEF Install, StartFails, StartAttempted, GraphEnds, LoseOutcome, Finish,
      Attach, ReadRun, Lookup, List, Deliver, EndOfStream, Drop, FailRecovery, vars, db, exec
  <2>2. Held' = Held
    BY <2>1 DEF Held
  <2> QED BY <2>1, <2>2, PiecesKept
<1>2. CASE TaskBegins
  <2>1. /\ stage = "created" /\ Publish(round, owed.initial)
        /\ UNCHANGED <<round, start, reserved, pieces>>
    BY <1>2 DEF TaskBegins, db
  <2> QED BY <2>1, OwedNumbers, PiecesPublished
<1>3. CASE PublishTask
  <2>1. /\ stage \in {"ingested", "settled"} /\ Publish(round, owed.task)
        /\ UNCHANGED <<round, start, reserved, pieces>>
    BY <1>3 DEF PublishTask, db
  <2> QED BY <2>1, OwedNumbers, PiecesPublished
<1>4. CASE CancelPublishes
  <2>1. /\ gate = "cancel" /\ Publish(round, owed.cancel)
        /\ UNCHANGED <<round, start, reserved, pieces>>
    BY <1>4 DEF CancelPublishes, db
  <2>2. stage \notin {"none", "done"}
    BY <2>1 DEF IInv, StageInv
  <2> QED BY <2>1, <2>2, OwedNumbers, PiecesPublished
<1> QED BY <1>1, <1>2, <1>3, <1>4, BeginPieces, ReservePieces, SpeakPieces, IngestPieces,
       SettlePieces, CancelPieces DEF Next

-----------------------------------------------------------------------------
(* What no step takes back.                                                 *)

\* Texts grow until they are messages, and a Run that has ended has no new facts.
Grows ==
  /\ Numbers(facts) \subseteq Numbers(facts)'
  /\ \A n \in 1..MaxSeq : pieces[n] <= pieces'[n]
  /\ \A n \in Numbers(facts) : pieces'[n] = pieces[n]
  /\ status = "final" => status' = "final" /\ Numbers(facts)' = Numbers(facts)

LEMMA NothingGrows ==
  ASSUME IInv, UNCHANGED <<facts, pieces, status>>
  PROVE  Grows
  BY PiecesType DEF IInv, Grows, Numbers

LEMMA FactsGrow ==
  ASSUME IInv, NEW W, NEW via, Write(W, via), pieces' = pieces, status # "final"
  PROVE  Grows
  BY Written, PiecesType DEF IInv, Grows

LEMMA IngestGrows == ASSUME IInv, Ingest PROVE Grows
<1>1. PICK n \in Held \cup Fresh(1) :
        /\ IF n \in Held THEN UNCHANGED counter ELSE MayProduce /\ Take(1)
        /\ pieces' = [pieces EXCEPT ![n] = Max({1, @})] /\ Write({n}, round)
  BY DEF Ingest
<1>2. status = "running"
  BY DEF Ingest
<1>3. n \in 1..MaxSeq /\ n \notin Numbers(facts)
  <2>1. CASE n \in Held
    BY <2>1, ReservedNumbers DEF IInv, NumberInv, Held
  <2>2. CASE n \notin Held
    <3>1. n \in Fresh(1) /\ Take(1)
      BY <1>1, <2>2
    <3>2. n \in 1..MaxSeq /\ counter \in Nat /\ n > counter
      BY <3>1, TakeNumbers DEF IInv
    <3> QED BY <3>2, FactParts DEF IInv, NumberInv, Numbers
  <2> QED BY <2>1, <2>2
<1> DEFINE new == Max({1, pieces[n]})
<1>4. pieces[n] \in Nat /\ new >= pieces[n]
  <2>1. pieces[n] \in Nat
    BY <1>3, PiecesType DEF IInv
  <2> QED BY <2>1, MaxOfTwo
<1> HIDE DEF new
<1>5. pieces' = [pieces EXCEPT ![n] = new]
  BY <1>1 DEF new
<1>6. pieces'[n] = new /\ \A m \in 1..MaxSeq : m # n => pieces'[m] = pieces[m]
  BY <1>3, <1>5 DEF IInv, TypeOK
<1>7. ASSUME NEW m \in 1..MaxSeq PROVE pieces[m] <= pieces'[m]
  BY <1>4, <1>6, PiecesType DEF IInv
<1>8. \A m \in Numbers(facts) : m \in 1..MaxSeq
  BY FactParts DEF IInv
<1> QED BY <1>1, <1>2, <1>3, <1>6, <1>7, <1>8, Written DEF Grows

LEMMA ReserveGrows == ASSUME IInv, Reserve PROVE Grows
<1>1. Take(1) /\ pieces' = [pieces EXCEPT ![counter + 1] = 1] /\ UNCHANGED <<status, facts>>
  BY DEF Reserve
<1>2. counter \in Nat /\ counter + 1 \in 1..MaxSeq
  <2>1. counter \in Nat /\ counter' = counter + 1 /\ counter' \in 0..MaxSeq
    BY <1>1, TakeNumbers DEF IInv
  <2> QED BY <2>1
<1>3. pieces[counter + 1] = 0
  BY <1>2 DEF IInv, NumberInv
<1>4. pieces'[counter + 1] = 1 /\ \A m \in 1..MaxSeq : m # counter + 1 => pieces'[m] = pieces[m]
  BY <1>1, <1>2 DEF IInv, TypeOK
<1>5. ASSUME NEW m \in 1..MaxSeq PROVE pieces[m] <= pieces'[m]
  <2>1. CASE m = counter + 1
    BY <1>3, <1>4, <2>1
  <2>2. CASE m # counter + 1
    BY <1>4, <2>2, PiecesType DEF IInv
  <2> QED BY <2>1, <2>2
<1>6. \A m \in Numbers(facts) : m \in 1..MaxSeq /\ m # counter + 1
  BY <1>2, FactParts DEF IInv, NumberInv, Numbers
<1> QED BY <1>1, <1>4, <1>5, <1>6 DEF Grows, Numbers

LEMMA SpeakGrows == ASSUME IInv, Speak PROVE Grows
<1>1. PICK n \in reserved : pieces' = [pieces EXCEPT ![n] = @ + 1]
  BY DEF Speak, Held
<1>2. UNCHANGED <<status, facts>>
  BY DEF Speak
<1>3. n \in 1..MaxSeq /\ pieces[n] \in Nat /\ n \notin Numbers(facts)
  BY PiecesType, ReservedNumbers DEF IInv, NumberInv
<1>4. pieces'[n] = pieces[n] + 1 /\ \A m \in 1..MaxSeq : m # n => pieces'[m] = pieces[m]
  BY <1>1, <1>3 DEF IInv, TypeOK
<1>5. ASSUME NEW m \in 1..MaxSeq PROVE pieces[m] <= pieces'[m]
  <2>1. CASE m = n
    BY <1>3, <1>4, <2>1
  <2>2. CASE m # n
    BY <1>4, <2>2, PiecesType DEF IInv
  <2> QED BY <2>1, <2>2
<1>6. \A m \in Numbers(facts) : m \in 1..MaxSeq /\ m # n
  BY <1>3, FactParts DEF IInv
<1> QED BY <1>2, <1>4, <1>5, <1>6 DEF Grows, Numbers

LEMMA SettleGrows == ASSUME IInv, Settle PROVE Grows
<1>1. pieces' = pieces
  BY DEF Settle, db
<1>2. CASE status # "running"
  BY <1>2, NothingGrows DEF Settle, db
<1>3. CASE status = "running"
  <2>1. \E W : Write(W, round)
    BY <1>3 DEF Settle
  <2> QED BY <1>1, <1>3, <2>1, FactsGrow
<1> QED BY <1>2, <1>3

LEMMA TablesGrow == ASSUME IInv, [Next \/ Drop]_vars PROVE Grows
<1>1. ASSUME \/ Install \/ StartFails \/ StartAttempted \/ GraphEnds \/ LoseOutcome \/ Finish
             \/ TaskBegins \/ PublishTask \/ CancelPublishes
             \/ Attach \/ ReadRun \/ Lookup \/ List \/ Deliver \/ EndOfStream \/ Drop
             \/ UNCHANGED vars
      PROVE  Grows
  <2>1. UNCHANGED <<facts, pieces, status>>
    BY <1>1 DEF Install, StartFails, StartAttempted, GraphEnds, LoseOutcome, Finish, TaskBegins,
      PublishTask, CancelPublishes, Attach, ReadRun, Lookup, List, Deliver, EndOfStream, Drop,
      vars, db
  <2> QED BY <2>1, NothingGrows
<1>2. CASE Begin
  <2>1. Write(Fresh(2), round + 1) /\ pieces' = pieces /\ status # "final"
    BY <1>2 DEF Begin
  <2> QED BY <2>1, FactsGrow
<1>3. CASE CancelCommits
  <2>1. pieces' = pieces /\ status # "final" /\ \E W : Write(W, installed)
    BY <1>3 DEF CancelCommits, Active
  <2> QED BY <2>1, FactsGrow
<1>4. CASE FailRecovery
  <2>1. Write(Fresh(1), 0) /\ pieces' = pieces /\ status # "final"
    BY <1>4 DEF FailRecovery
  <2> QED BY <2>1, FactsGrow
<1> QED BY <1>1, <1>2, <1>3, <1>4, ReserveGrows, SpeakGrows, IngestGrows, SettleGrows DEF Next

-----------------------------------------------------------------------------
(* The invariant of the window.                                             *)

Projections ==
  [text : [1..MaxSeq -> Seq(1..MaxPieces)], whole : SUBSET (1..MaxSeq),
   events : SUBSET (1..MaxSeq), conflict : BOOLEAN]

WindowTypes ==
  /\ view \in Projections
  /\ ask \in [kind : {"none", "history", "saved"}, seqs : SUBSET (1..MaxSeq)]
  /\ saved \in {"idle", "reading", "ready", "error"}
  /\ connections \in 0..MaxConnections /\ reads \in 0..MaxReads

\* What a projection shows is so: messages whole, previews a beginning.
Begins(v, n) ==
  /\ Len(v.text[n]) <= pieces[n]
  /\ \A i \in 1..Len(v.text[n]) : v.text[n][i] = i

Shown(v) ==
  /\ ~v.conflict
  /\ v.whole \subseteq SavedMessages
  /\ v.events \subseteq Numbers(facts)
  /\ v.events \cap SavedMessages \subseteq v.whole
  /\ \A n \in v.whole : v.text[n] = Text(n)
  /\ \A n \in (1..MaxSeq) \ v.whole : Begins(v, n)

\* A preview is made of the pieces that these frames have brought.
Brings(v, frames) ==
  /\ FactsIn(frames) \subseteq v.events
  /\ \A n \in (1..MaxSeq) \ v.whole : \A q \in 1..MaxPieces :
       q \in 1..Len(v.text[n]) <=> Piece(n, q) \in Range(frames)

ReadInv ==
  /\ ask.seqs \subseteq SavedMessages
  /\ ask.kind = "saved" => status = "final" /\ ask.seqs = SavedMessages
  /\ saved = "ready" => status = "final" /\ SavedMessages \subseteq view.whole

NoPreviews(v) == \A n \in (1..MaxSeq) \ v.whole : v.text[n] = <<>>

\* A window that has had no connection yet has no preview either.
NewWindow == connections = 0 => obs.pc = "idle" /\ NoPreviews(view)

WindowInv ==
  /\ WindowTypes
  /\ Shown(view)
  /\ Connected => Brings(view, obs.got)
  /\ ReadInv
  /\ NewWindow

ViewInv == IInv /\ PieceInv /\ WindowInv

-----------------------------------------------------------------------------
(* The projection.                                                          *)

LEMMA ListOf ==
  ASSUME NEW P, NEW p \in Nat, NEW t \in [1..p -> P]
  PROVE  t \in Seq(P) /\ Len(t) = p
  OBVIOUS

LEMMA TextIs ==
  ASSUME TypeOK, NEW n \in 1..MaxSeq
  PROVE  /\ pieces[n] \in 0..MaxPieces /\ pieces[n] \in Nat
         /\ Text(n) \in Seq(1..MaxPieces) /\ Len(Text(n)) = pieces[n]
         /\ \A i \in 1..pieces[n] : Text(n)[i] = i
<1>1. pieces[n] \in 0..MaxPieces /\ pieces[n] \in Nat
  BY Bounds DEF TypeOK
<1>2. Text(n) \in [1..pieces[n] -> 1..MaxPieces]
  BY <1>1, Bounds DEF Text
<1>3. Text(n) \in Seq(1..MaxPieces) /\ Len(Text(n)) = pieces[n]
  BY <1>1, <1>2, ListOf
<1> QED BY <1>1, <1>3 DEF Text

LEMMA SavedNumbers ==
  ASSUME TypeOK
  PROVE  /\ Numbers(facts) \in SUBSET (1..MaxSeq) /\ SavedMessages \in SUBSET (1..MaxSeq)
         /\ \A n : n \in SavedMessages <=> n \in Numbers(facts) /\ IsMessage(n)
<1>1. Numbers(facts) \in SUBSET (1..MaxSeq)
  BY FactParts
<1> QED BY <1>1 DEF SavedMessages

\* A projection stays right while the tables grow.
LEMMA ShownStays ==
  ASSUME TypeOK, Grows, TypeOK', NEW v \in Projections, Shown(v), view' = v
  PROVE  Shown(view)'
<1>1. /\ v.whole \in SUBSET (1..MaxSeq) /\ v.events \in SUBSET (1..MaxSeq)
  BY DEF Projections
<1>2. \A n \in Numbers(facts) : IsMessage(n)' <=> IsMessage(n)
  BY DEF Grows, IsMessage
<1>3. \A n \in Numbers(facts) : Text(n)' = Text(n)
  BY DEF Grows, Text
<1>4. \A n : n \in SavedMessages' <=> n \in Numbers(facts)' /\ IsMessage(n)'
  BY DEF SavedMessages
<1>5. /\ SavedMessages \subseteq SavedMessages'
      /\ \A n \in Numbers(facts) : n \in SavedMessages' => n \in SavedMessages
  BY <1>2, <1>4, SavedNumbers DEF Grows
<1>6. ~v.conflict /\ v.whole \subseteq SavedMessages' /\ v.events \subseteq Numbers(facts)'
  BY <1>5 DEF Shown, Grows
<1>7. v.events \cap SavedMessages' \subseteq v.whole
  BY <1>5 DEF Shown
<1>8. \A n \in v.whole : v.text[n] = Text(n)'
  BY <1>3, SavedNumbers DEF Shown
<1>9. ASSUME NEW n \in (1..MaxSeq) \ v.whole
      PROVE  Len(v.text[n]) <= pieces'[n] /\ \A i \in 1..Len(v.text[n]) : v.text[n][i] = i
  <2> DEFINE len == Len(v.text[n])
  <2>1. v.text[n] \in Seq(1..MaxPieces)
    BY DEF Projections
  <2>2. len \in Nat
    BY <2>1
  <2>3. len <= pieces[n] /\ \A i \in 1..len : v.text[n][i] = i
    BY DEF Shown, Begins
  <2>4. pieces[n] \in Nat /\ pieces'[n] \in Nat /\ pieces[n] <= pieces'[n]
    BY PiecesType, Bounds DEF Grows, TypeOK
  <2> HIDE DEF len
  <2>5. len <= pieces'[n]
    BY <2>2, <2>3, <2>4
  <2> QED BY <2>3, <2>5 DEF len
<1> QED BY <1>6, <1>7, <1>8, <1>9 DEF Shown, Begins

\* Messages that are saved are merged: they have their whole text, and contradict nothing.
LEMMA MergesMessages ==
  ASSUME TypeOK, NEW v \in Projections, Shown(v), NEW S \in SUBSET SavedMessages
  PROVE  LET w == MergeMessages(v, S)
         IN  /\ w \in Projections /\ Shown(w)
             /\ w.whole = v.whole \cup S /\ w.events = v.events
             /\ \A n \in 1..MaxSeq : n \notin S => w.text[n] = v.text[n]
<1> DEFINE text == [n \in 1..MaxSeq |-> IF n \in S THEN Text(n) ELSE v.text[n]]
           whole == v.whole \cup S
           conflict == v.conflict \/ \E n \in S : Contradicts(v, n)
           w == [text |-> text, whole |-> whole, events |-> v.events, conflict |-> conflict]
<1>1. SavedMessages \in SUBSET (1..MaxSeq)
  BY SavedNumbers
<1>2. text \in [1..MaxSeq -> Seq(1..MaxPieces)]
  BY TextIs DEF Projections
<1>3. conflict = FALSE
  BY DEF Shown, Contradicts
<1>4. whole \in SUBSET (1..MaxSeq) /\ v.events \in SUBSET (1..MaxSeq)
  BY <1>1 DEF Projections
<1>5. MergeMessages(v, S) = w
  <2>1. MergeMessages(v, S) = [[[v EXCEPT !.text = text] EXCEPT !.whole = whole]
                                 EXCEPT !.conflict = conflict]
    BY DEF MergeMessages, Projections
  <2> HIDE DEF text, whole, conflict
  <2> QED BY <2>1 DEF Projections
<1>6. \A n \in 1..MaxSeq : text[n] = IF n \in S THEN Text(n) ELSE v.text[n]
  OBVIOUS
<1> HIDE DEF text, conflict
<1>7. w \in Projections
  BY <1>2, <1>3, <1>4 DEF Projections
<1>8. w.text = text /\ w.whole = whole /\ w.events = v.events /\ w.conflict = FALSE
  BY <1>3
<1> HIDE DEF w
<1>9. w.whole \subseteq SavedMessages /\ w.events \subseteq Numbers(facts)
      /\ w.events \cap SavedMessages \subseteq w.whole
  BY <1>8 DEF Shown
<1>10. \A n \in w.whole : w.text[n] = Text(n)
  BY <1>1, <1>6, <1>8, <1>9 DEF Shown
<1>11. \A n \in (1..MaxSeq) \ w.whole : Begins(w, n)
  BY <1>6, <1>8 DEF Shown, Begins
<1>12. Shown(w)
  BY <1>8, <1>9, <1>10, <1>11 DEF Shown
<1> QED BY <1>5, <1>6, <1>7, <1>8, <1>12

\* Facts that are committed are merged: those that are messages have their text.
LEMMA MergesEvents ==
  ASSUME TypeOK, NEW v \in Projections, Shown(v), NEW S \in SUBSET Numbers(facts)
  PROVE  LET w == MergeEvents(v, S)
         IN  /\ w \in Projections /\ Shown(w)
             /\ v.whole \subseteq w.whole /\ w.events = v.events \cup S
             /\ \A n \in 1..MaxSeq : n \notin w.whole => w.text[n] = v.text[n]
<1> DEFINE new == S \ v.events
           M == {n \in new : IsMessage(n)}
           m == MergeMessages(v, M)
           odd == \E n \in new : ~IsMessage(n) /\ v.text[n] # <<>>
           w == [text |-> m.text, whole |-> m.whole, events |-> m.events \cup new,
                 conflict |-> m.conflict \/ odd]
<1>1. Numbers(facts) \in SUBSET (1..MaxSeq)
  BY SavedNumbers
<1>2. M \in SUBSET SavedMessages
  BY SavedNumbers
<1>3. /\ m \in Projections /\ Shown(m) /\ m.whole = v.whole \cup M /\ m.events = v.events
      /\ \A n \in 1..MaxSeq : n \notin M => m.text[n] = v.text[n]
  BY <1>2, MergesMessages
<1> HIDE DEF m
<1>4. ASSUME NEW n \in new, ~IsMessage(n) PROVE v.text[n] = <<>>
  <2>1. n \in 1..MaxSeq
    BY <1>1
  <2>2. n \notin v.whole
    BY <1>4, SavedNumbers DEF Shown
  <2>3. Len(v.text[n]) <= pieces[n] /\ ~(pieces[n] > 0)
    BY <1>4, <2>1, <2>2 DEF Shown, Begins, IsMessage
  <2>4. v.text[n] \in Seq(1..MaxPieces) /\ pieces[n] \in Nat
    BY <2>1, PiecesType DEF Projections
  <2>5. Len(v.text[n]) = 0
    BY <2>3, <2>4
  <2> QED BY <2>4, <2>5
<1>5. odd = FALSE
  BY <1>4
<1> HIDE DEF odd
<1>6. MergeEvents(v, S) = w
  <2>1. MergeEvents(v, S) = [[m EXCEPT !.events = m.events \cup new]
                               EXCEPT !.conflict = m.conflict \/ odd]
    BY DEF MergeEvents, m, odd
  <2> QED BY <1>3, <2>1 DEF Projections
<1>7. m.conflict = FALSE /\ m.events \cup new \in SUBSET (1..MaxSeq)
  BY <1>1, <1>3 DEF Shown, Projections
<1>8. w \in Projections
  BY <1>3, <1>5, <1>7 DEF Projections
<1>9. w.text = m.text /\ w.whole = m.whole /\ w.events = m.events \cup new /\ w.conflict = FALSE
  BY <1>5, <1>7
<1> HIDE DEF w
<1>10. w.whole \subseteq SavedMessages /\ w.events \subseteq Numbers(facts)
  BY <1>3, <1>9 DEF Shown
<1>11. w.events \cap SavedMessages \subseteq w.whole
  <2>1. new \cap SavedMessages \subseteq M
    BY SavedNumbers
  <2> QED BY <1>3, <1>9, <2>1 DEF Shown
<1>12. \A n \in w.whole : w.text[n] = Text(n)
  BY <1>3, <1>9 DEF Shown
<1>13. \A n \in (1..MaxSeq) \ w.whole : Begins(w, n)
  BY <1>3, <1>9 DEF Shown, Begins
<1>14. Shown(w)
  BY <1>9, <1>10, <1>11, <1>12, <1>13 DEF Shown
<1>15. /\ v.whole \subseteq w.whole /\ w.events = v.events \cup S
       /\ \A n \in 1..MaxSeq : n \notin w.whole => w.text[n] = v.text[n]
  BY <1>3, <1>9
<1> QED BY <1>6, <1>8, <1>14, <1>15

\* The next piece of a text that is not whole.
LEMMA AddsPiece ==
  ASSUME TypeOK, NEW v \in Projections, Shown(v), NEW n \in 1..MaxSeq, NEW p \in 1..MaxPieces,
         p <= pieces[n], n \notin v.whole, p = Len(v.text[n]) + 1
  PROVE  LET w == Delta(v, n, p)
         IN  /\ w \in Projections /\ Shown(w)
             /\ w.whole = v.whole /\ w.events = v.events /\ Len(w.text[n]) = p
             /\ \A m \in 1..MaxSeq : m # n => w.text[m] = v.text[m]
<1> DEFINE longer == Append(v.text[n], p)
           text == [v.text EXCEPT ![n] = longer]
           conflict == v.conflict \/ n \in v.events
           w == [text |-> text, whole |-> v.whole, events |-> v.events, conflict |-> conflict]
<1>1. v.text[n] \in Seq(1..MaxPieces) /\ v.text \in [1..MaxSeq -> Seq(1..MaxPieces)]
  BY DEF Projections
<1>2. /\ longer \in Seq(1..MaxPieces) /\ Len(longer) = p
      /\ \A i \in 1..p : longer[i] = IF i = p THEN p ELSE v.text[n][i]
  BY <1>1
<1> HIDE DEF longer
<1>3. /\ text \in [1..MaxSeq -> Seq(1..MaxPieces)] /\ text[n] = longer
      /\ \A m \in 1..MaxSeq : m # n => text[m] = v.text[m]
  BY <1>1, <1>2
<1>4. n \notin v.events
  <2>1. IsMessage(n)
    BY PiecesType DEF IsMessage
  <2> QED BY <2>1, SavedNumbers DEF Shown
<1>5. conflict = FALSE
  BY <1>4 DEF Shown
<1>6. Delta(v, n, p) = w
  <2>1. Delta(v, n, p) = [[v EXCEPT !.text = text] EXCEPT !.conflict = conflict]
    BY DEF Delta, longer, Projections
  <2> QED BY <2>1 DEF Projections
<1> HIDE DEF text, conflict
<1>7. w \in Projections
  BY <1>3, <1>5 DEF Projections
<1>8. w.text = text /\ w.whole = v.whole /\ w.events = v.events /\ w.conflict = FALSE
  BY <1>5
<1> HIDE DEF w
<1>9. Begins(w, n)
  <2>1. \A i \in 1..Len(v.text[n]) : v.text[n][i] = i
    BY DEF Shown, Begins
  <2>2. \A i \in 1..p : i = p \/ i \in 1..Len(v.text[n])
    BY <1>1
  <2>3. \A i \in 1..p : longer[i] = i
    BY <1>2, <2>1, <2>2
  <2> QED BY <1>2, <1>3, <1>8, <2>3 DEF Begins
<1>10. \A m \in (1..MaxSeq) \ w.whole : Begins(w, m)
  <2> SUFFICES ASSUME NEW m \in (1..MaxSeq) \ w.whole, m # n PROVE Begins(w, m)
    BY <1>9
  <2>1. Begins(v, m) /\ w.text[m] = v.text[m]
    BY <1>3, <1>8 DEF Shown
  <2> QED BY <2>1 DEF Begins
<1>11. \A m \in w.whole : w.text[m] = Text(m)
  <2> SUFFICES ASSUME NEW m \in w.whole PROVE w.text[m] = Text(m)
    OBVIOUS
  <2>1. m \in v.whole /\ m \in 1..MaxSeq /\ m # n
    BY <1>8 DEF Projections
  <2> QED BY <1>3, <1>8, <2>1 DEF Shown
<1>12. Shown(w)
  BY <1>8, <1>10, <1>11 DEF Shown
<1> QED BY <1>2, <1>3, <1>6, <1>7, <1>8, <1>12

LEMMA Resets ==
  ASSUME TypeOK, NEW v \in Projections, Shown(v)
  PROVE  LET w == ResetPreview(v)
         IN  /\ w \in Projections /\ Shown(w) /\ NoPreviews(w)
             /\ w.whole = v.whole /\ w.events = v.events
<1> DEFINE text == [n \in 1..MaxSeq |-> IF n \in v.whole THEN v.text[n] ELSE <<>>]
           w == [text |-> text, whole |-> v.whole, events |-> v.events, conflict |-> v.conflict]
<1>1. <<>> \in Seq(1..MaxPieces) /\ Len(<<>>) = 0
  OBVIOUS
<1>2. /\ text \in [1..MaxSeq -> Seq(1..MaxPieces)]
      /\ \A n \in 1..MaxSeq : text[n] = IF n \in v.whole THEN v.text[n] ELSE <<>>
  BY <1>1 DEF Projections
<1>3. ResetPreview(v) = w
  <2>1. ResetPreview(v) = [v EXCEPT !.text = text]
    BY DEF ResetPreview, Projections
  <2> HIDE DEF text
  <2> QED BY <2>1 DEF Projections
<1> HIDE DEF text
<1>4. w \in Projections
  BY <1>2 DEF Projections
<1>5. w.text = text /\ w.whole = v.whole /\ w.events = v.events /\ w.conflict = v.conflict
  OBVIOUS
<1> HIDE DEF w
<1>6. NoPreviews(w)
  BY <1>2, <1>5 DEF NoPreviews
<1>7. \A n \in w.whole : w.text[n] = Text(n)
  BY <1>2, <1>5 DEF Shown, Projections
<1>8. ASSUME NEW n \in (1..MaxSeq) \ w.whole PROVE Begins(w, n)
  <2>1. w.text[n] = <<>> /\ pieces[n] \in Nat
    BY <1>6, PiecesType DEF NoPreviews
  <2> QED BY <1>1, <2>1 DEF Begins
<1>9. Shown(w)
  BY <1>5, <1>7, <1>8 DEF Shown
<1> QED BY <1>3, <1>4, <1>5, <1>6, <1>9

-----------------------------------------------------------------------------
(* The steps.                                                               *)

LEMMA SavedGrow ==
  ASSUME TypeOK, TypeOK', Grows
  PROVE  /\ SavedMessages \subseteq SavedMessages'
         /\ status = "final" => SavedMessages' = SavedMessages
<1>1. \A n \in Numbers(facts) : IsMessage(n)' <=> IsMessage(n)
  BY DEF Grows, IsMessage
<1>2. \A n : n \in SavedMessages' <=> n \in Numbers(facts)' /\ IsMessage(n)'
  BY DEF SavedMessages
<1> QED BY <1>1, <1>2, SavedNumbers DEF Grows

\* What stays when the tables grow and the projection changes for the better.
LEMMA WindowStays ==
  ASSUME ViewInv, TypeOK', Grows, NEW v \in Projections, Shown(v), view' = v,
         view.whole \subseteq v.whole, UNCHANGED <<ask, saved>>
  PROVE  Shown(view)' /\ ReadInv'
<1>1. TypeOK
  BY DEF ViewInv, IInv
<1>2. Shown(view)'
  BY <1>1, ShownStays
<1>3. SavedMessages \subseteq SavedMessages' /\ (status = "final" => SavedMessages' = SavedMessages)
  BY <1>1, SavedGrow
<1>4. status = "final" => status' = "final"
  BY DEF Grows
<1>5. ReadInv'
  BY <1>3, <1>4 DEF ViewInv, WindowInv, ReadInv
<1> QED BY <1>2, <1>5

LEMMA ViewStep ==
  ASSUME ViewNext
  PROVE  [Next \/ Drop]_vars
<1>1. Connect => ReadRun
  BY DEF Connect
<1>2. Answer \/ OpenRebuilt \/ OpenPosted \/ Receive \/ End \/ Backend => Next
  BY DEF Answer, OpenRebuilt, OpenPosted, Receive, End, Backend, Next
<1>3. Disconnect => Drop
  BY DEF Disconnect, Drop
<1>4. AskCommitted \/ AskSaved \/ MergeAnswer \/ FailSaved => UNCHANGED vars
  BY DEF AskCommitted, AskSaved, Ask, MergeAnswer, FailSaved
<1> QED BY <1>1, <1>2, <1>3, <1>4 DEF ViewNext, Next

\* What every step may use.
Step == ViewInv /\ IInv' /\ Grows

LEMMA StepFacts ==
  ASSUME Step
  PROVE  /\ TypeOK /\ TypeOK' /\ Grows /\ ViewInv /\ view \in Projections /\ Shown(view)
         /\ obs \in Observers /\ obs' \in Observers
  BY DEF Step, ViewInv, IInv, ObserverInv, WindowInv, WindowTypes

LEMMA BackendKeeps == ASSUME Step, Backend PROVE WindowInv'
<1>1. UNCHANGED window /\ obs' = obs
  BY DEF Backend, Begin, Install, StartFails, StartAttempted, TaskBegins, Reserve, Speak, Ingest,
    GraphEnds, Settle, LoseOutcome, PublishTask, Finish, CancelCommits, CancelPublishes,
    FailRecovery, exec
<1>2. view' = view /\ UNCHANGED <<ask, saved, connections, reads>>
  BY <1>1 DEF window
<1>3. Shown(view)' /\ ReadInv'
  BY <1>2, StepFacts, WindowStays
<1>4. WindowTypes'
  BY <1>2 DEF Step, ViewInv, WindowInv, WindowTypes
<1>5. Connected' => Brings(view, obs.got)'
  BY <1>1, <1>2 DEF Step, ViewInv, WindowInv, Connected, Brings
<1>6. NewWindow'
  BY <1>1, <1>2 DEF Step, ViewInv, WindowInv, NewWindow, NoPreviews
<1> QED BY <1>3, <1>4, <1>5, <1>6 DEF WindowInv

LEMMA ConnectKeeps == ASSUME Step, Connect PROVE WindowInv'
<1>1. view' = view /\ UNCHANGED <<ask, saved, reads>>
  BY DEF Connect
<1>2. Shown(view)' /\ ReadInv'
  BY <1>1, StepFacts, WindowStays
<1>3. obs.pc \in {"idle", "again"} /\ obs'.pc \in {"read", "reread"}
  BY WatchingFields DEF Connect, ReadRun
<1>4. connections' \in 0..MaxConnections /\ connections' # 0
  <2>1. connections \in Nat /\ connections \in 0..MaxConnections /\ MaxConnections \in Nat
    BY MessageViewConstants DEF Step, ViewInv, WindowInv, WindowTypes
  <2>2. CASE obs.pc = "again"
    BY <2>1, <2>2 DEF Connect, Step, ViewInv, WindowInv, NewWindow
  <2>3. CASE obs.pc # "again"
    BY <2>1, <2>3 DEF Connect
  <2> QED BY <2>2, <2>3
<1>5. WindowTypes'
  BY <1>1, <1>4 DEF Step, ViewInv, WindowInv, WindowTypes
<1>6. ~Connected' /\ NewWindow'
  BY <1>3, <1>4 DEF Connected, NewWindow
<1> QED BY <1>2, <1>5, <1>6 DEF WindowInv

\* A step that leaves the window alone, on a connection that is not open or was open before.
LEMMA WindowRests ==
  ASSUME Step, UNCHANGED window, obs.pc # "idle",
         Connected' => Connected /\ obs'.got = obs.got
  PROVE  WindowInv'
<1>1. view' = view /\ UNCHANGED <<ask, saved, connections, reads>>
  BY DEF window
<1>2. Shown(view)' /\ ReadInv'
  BY <1>1, StepFacts, WindowStays
<1>3. WindowTypes'
  BY <1>1 DEF Step, ViewInv, WindowInv, WindowTypes
<1>4. Connected' => Brings(view, obs.got)'
  BY <1>1 DEF Step, ViewInv, WindowInv, Brings
<1>5. NewWindow'
  BY <1>1 DEF Step, ViewInv, WindowInv, NewWindow
<1> QED BY <1>2, <1>3, <1>4, <1>5 DEF WindowInv

LEMMA AnswerKeeps == ASSUME Step, Answer PROVE WindowInv'
<1>1. obs.pc \in {"read", "reread"} /\ UNCHANGED window
  BY DEF Answer, Lookup
<1>2. obs'.pc \in {"list", "unavailable", "again"}
  BY StepFacts DEF Answer, Lookup, Observers
<1> QED BY <1>1, <1>2, WindowRests DEF Connected

LEMMA EndKeeps == ASSUME Step, End PROVE WindowInv'
<1>1. obs.pc \in {"follow", "attached"} /\ UNCHANGED window
  BY DEF End, EndOfStream, Following
<1>2. obs'.got = obs.got
  BY StepFacts DEF End, EndOfStream, Observers
<1> QED BY <1>1, <1>2, WindowRests DEF Connected

LEMMA DisconnectKeeps == ASSUME Step, Disconnect PROVE WindowInv'
<1>1. obs.pc # "idle" /\ UNCHANGED window /\ obs'.pc = "idle"
  BY WatchingFields DEF Disconnect
<1> QED BY <1>1, WindowRests DEF Connected

\* The history is merged into a projection without previews: the connection has brought
\* facts only.
LEMMA OpenRebuiltKeeps == ASSUME Step, OpenRebuilt PROVE WindowInv'
<1>1. obs.pc = "list" /\ obs'.pc \in {"done", "follow"} /\ UNCHANGED <<ask, saved, connections,
                                                                       reads>>
  BY StepFacts DEF OpenRebuilt, List, Observers
<1>2. \E S \in SUBSET Numbers(facts) : obs'.got = Facts(S)
  <2> DEFINE history == IF obs.round = 0 THEN facts
                        ELSE {f \in facts : f.seq < Boundary(obs.round)}
  <2>1. obs'.got = Facts(Numbers(history))
    BY StepFacts DEF OpenRebuilt, List, Observers
  <2>2. Numbers(history) \in SUBSET Numbers(facts)
    BY DEF Numbers
  <2> QED BY <2>1, <2>2
<1>3. PICK S \in SUBSET Numbers(facts) : obs'.got = Facts(S)
  BY <1>2
<1>4. S \in SUBSET (1..MaxSeq) /\ FactsIn(obs'.got) = S
  BY <1>3, StepFacts, SavedNumbers, FactsInFacts
<1>5. ASSUME NEW n, NEW q \in 1..MaxPieces PROVE Piece(n, q) \notin Range(obs'.got)
  <2>1. Facts(S) \in Seq(Frames) /\ \A i \in 1..Len(Facts(S)) : Facts(S)[i].piece = 0
    BY <1>4, FactsOf
  <2>2. Piece(n, q).piece # 0
    BY DEF Piece
  <2> QED BY <1>3, <2>1, <2>2, RangeIs
<1> DEFINE u == ResetPreview(view)
           w == MergeEvents(u, S)
<1>6. /\ u \in Projections /\ Shown(u) /\ NoPreviews(u) /\ u.whole = view.whole
      /\ u.events = view.events
  BY StepFacts, Resets
<1>7. view' = w
  BY <1>4 DEF OpenRebuilt, OnMetadata
<1> HIDE DEF u
<1>8. /\ w \in Projections /\ Shown(w) /\ u.whole \subseteq w.whole /\ w.events = u.events \cup S
      /\ \A n \in 1..MaxSeq : n \notin w.whole => w.text[n] = u.text[n]
  BY <1>3, <1>6, StepFacts, MergesEvents
<1> HIDE DEF w
<1>9. Shown(view)' /\ ReadInv'
  BY <1>1, <1>6, <1>7, <1>8, StepFacts, WindowStays
<1>10. WindowTypes'
  BY <1>1, <1>7, <1>8 DEF Step, ViewInv, WindowInv, WindowTypes
<1>11. Brings(view, obs.got)'
  <2>1. ASSUME NEW n \in (1..MaxSeq) \ w.whole PROVE w.text[n] = <<>>
    BY <1>6, <1>8 DEF NoPreviews
  <2>2. \A n \in (1..MaxSeq) \ w.whole : \A q \in 1..MaxPieces :
          q \in 1..Len(w.text[n]) <=> Piece(n, q) \in Range(obs'.got)
    BY <1>5, <2>1
  <2> QED BY <1>4, <1>7, <1>8, <2>2 DEF Brings
<1>12. NewWindow'
  BY <1>1 DEF Step, ViewInv, WindowInv, NewWindow
<1> QED BY <1>9, <1>10, <1>11, <1>12 DEF WindowInv

LEMMA OpenPostedKeeps == ASSUME Step, OpenPosted PROVE WindowInv'
<1>1. /\ UNCHANGED <<ask, saved, reads>> /\ connections < MaxConnections
      /\ connections' = connections + 1 /\ view' = OnMetadata(view, obs'.round > 1)
      /\ obs'.round = 1 => connections = 0
  BY DEF OpenPosted
<1>2. obs'.pc = "attached" /\ obs'.got = <<>> /\ obs'.round \in 1..round
  <2>1. PICK k \in 1..round : obs' = Watching("attached", "running", k, <<>>)
    BY DEF OpenPosted, Attach
  <2> QED BY <2>1, WatchingFields
<1>3. connections' \in 0..MaxConnections /\ connections' # 0
  <2>1. connections \in Nat /\ connections \in 0..MaxConnections /\ MaxConnections \in Nat
    BY MessageViewConstants DEF Step, ViewInv, WindowInv, WindowTypes
  <2> QED BY <1>1, <2>1
<1>4. \E w \in Projections : view' = w /\ Shown(w) /\ NoPreviews(w) /\ w.whole = view.whole
  <2>1. CASE obs'.round > 1
    BY <1>1, <2>1, StepFacts, Resets DEF OnMetadata
  <2>2. CASE ~(obs'.round > 1)
    <3>1. obs'.round = 1
      BY <1>2, <2>2, StepFacts, Bounds DEF TypeOK
    <3>2. NoPreviews(view)
      BY <1>1, <3>1 DEF Step, ViewInv, WindowInv, NewWindow
    <3>3. view' = view
      BY <1>1, <2>2 DEF OnMetadata
    <3> QED BY <3>2, <3>3, StepFacts
  <2> QED BY <2>1, <2>2
<1>5. PICK w \in Projections : view' = w /\ Shown(w) /\ NoPreviews(w) /\ w.whole = view.whole
  BY <1>4
<1>6. Shown(view)' /\ ReadInv'
  BY <1>1, <1>5, StepFacts, WindowStays
<1>7. WindowTypes'
  BY <1>1, <1>3, <1>5 DEF Step, ViewInv, WindowInv, WindowTypes
<1>8. Brings(view, obs.got)'
  <2>1. <<>> \in Seq(Frames) /\ Len(<<>>) = 0
    OBVIOUS
  <2>2. Range(obs'.got) = {} /\ FactsIn(obs'.got) = {}
    <3> DEFINE e == <<>>
    <3>1. e \in Seq(Frames) /\ 1..Len(e) = {}
      BY <2>1
    <3> HIDE DEF e
    <3>2. Range(e) = {}
      BY <3>1, RangeIs
    <3>3. FactsIn(e) = {}
      BY <3>1, FactsInSeq
    <3> QED BY <1>2, <3>2, <3>3 DEF e
  <2>3. \A n \in (1..MaxSeq) \ w.whole : w.text[n] = <<>>
    BY <1>5 DEF NoPreviews
  <2>4. \A n \in (1..MaxSeq) \ w.whole : \A q \in 1..MaxPieces :
          q \in 1..Len(w.text[n]) <=> Piece(n, q) \in Range(obs'.got)
    BY <2>2, <2>3
  <2> QED BY <1>5, <2>2, <2>4 DEF Brings
<1>9. NewWindow'
  BY <1>3 DEF NewWindow
<1> QED BY <1>6, <1>7, <1>8, <1>9 DEF WindowInv

\* The pieces an observer has are those on the stream that were delivered.
LEMMA PiecesGot ==
  ASSUME IInv, Watches(obs), obs.round # 0, NEW b, b.piece # 0
  PROVE  b \in Range(obs.got) <=> \E j \in 1..(obs.next - 1) : stream[obs.round][j] = b
<1> PICK S \in SUBSET Numbers(facts) : Precedes(S, obs) /\ Joined(obs, Facts(S))
  BY DEF Watches
<1> DEFINE h == Len(Facts(S))
           m == obs.next - 1
           s == stream[obs.round]
           g == obs.got
<1>1. /\ h \in Nat /\ m \in Nat /\ Len(g) = h + m
      /\ \A i \in 1..h : g[i].piece = 0
      /\ \A i \in 1..m : g[h + i] = s[i]
  BY HistoryThenStream
<1>2. g \in Seq(Frames)
  BY DEF IInv, TypeOK
<1> HIDE DEF h, m, s, g
<1>3. b \in Range(g) <=> \E i \in 1..Len(g) : g[i] = b
  BY <1>2, RangeIs
<1>4. \A i \in 1..Len(g) : i \in 1..h \/ (i - h \in 1..m /\ i = h + (i - h))
  BY <1>1
<1>5. \A j \in 1..m : h + j \in 1..Len(g)
  BY <1>1
<1>6. ASSUME NEW i \in 1..Len(g), g[i] = b PROVE \E j \in 1..m : s[j] = b
  <2>1. i \notin 1..h
    BY <1>1, <1>6
  <2>2. i - h \in 1..m /\ g[h + (i - h)] = b
    BY <1>4, <1>6, <2>1
  <2> QED BY <1>1, <2>2
<1>7. ASSUME NEW j \in 1..m, s[j] = b PROVE \E i \in 1..Len(g) : g[i] = b
  BY <1>1, <1>5, <1>7
<1> QED BY <1>3, <1>6, <1>7 DEF m, s, g

\* The frame that is delivered: a fact that is committed, or the piece of a text that
\* comes after those the connection has brought.
LEMMA NextFrame ==
  ASSUME ViewInv, Deliver
  PROVE  LET a == stream[obs.round][obs.next]
         IN  /\ a \in Frames
             /\ a.piece = 0 => a.seq \in Numbers(facts)
             /\ a.piece <= pieces[a.seq]
             /\ a.piece # 0 => a \notin Range(obs.got)
             /\ a.piece > 1 => Piece(a.seq, a.piece - 1) \in Range(obs.got)
<1> DEFINE k == obs.round
           i == obs.next
           a == stream[k][i]
<1>1. IInv /\ PieceInv /\ Watches(obs) /\ obs.pc \in {"follow", "attached"} /\ i <= Len(stream[k])
  BY DEF ViewInv, Deliver, Following, IInv, ObserverInv
<1>2. k # 0 /\ k \in Rounds /\ i \in Nat \ {0} /\ stream[k] \in Seq(Frames)
  BY <1>1, Bounds DEF Watches, IInv, TypeOK, ObserverInv, Observers
<1>3. i \in 1..Len(stream[k]) /\ a \in Frames
  BY <1>1, <1>2
<1>4. FrameOk(k, a) /\ \A j \in 1..Len(stream[k]) : j < i => Follows(stream[k][j], a)
  BY <1>1, <1>2, <1>3 DEF IInv, StreamInv
<1>5. a.piece = 0 => a.seq \in Numbers(facts)
  BY <1>4 DEF FrameOk, Via, Numbers
<1>6. a.piece <= pieces[a.seq]
  BY <1>4 DEF FrameOk
<1>7. a.piece \in Nat
  BY <1>3, Bounds DEF Frames
<1>8. ASSUME a.piece # 0 PROVE a \notin Range(obs.got)
  <2> SUFFICES ASSUME NEW j \in 1..(i - 1), stream[k][j] = a PROVE FALSE
    BY <1>1, <1>2, <1>8, PiecesGot
  <2>1. j \in 1..Len(stream[k]) /\ j < i
    BY <1>2, <1>3
  <2>2. Follows(a, a)
    BY <1>4, <2>1
  <2> HIDE DEF a
  <2> QED BY <1>7, <1>8, <2>2 DEF Follows
<1>9. ASSUME a.piece > 1 PROVE Piece(a.seq, a.piece - 1) \in Range(obs.got)
  <2> DEFINE b == Piece(a.seq, a.piece - 1)
  <2>1. \E j \in 1..(i - 1) : stream[k][j] = b
    BY <1>1, <1>2, <1>3, <1>9 DEF PieceInv, Preceded
  <2>2. b.piece # 0
    <3>1. b.piece = a.piece - 1
      BY DEF Piece
    <3> HIDE DEF a, b
    <3> QED BY <1>7, <1>9, <3>1
  <2> HIDE DEF b
  <2> QED BY <1>1, <1>2, <2>1, <2>2, PiecesGot DEF b
<1> QED BY <1>3, <1>5, <1>6, <1>8, <1>9

\* A fact that is delivered is merged.
LEMMA FactArrives ==
  ASSUME ViewInv, Connected, NEW a \in Frames, a.piece = 0, a.seq \in Numbers(facts),
         NEW got \in Seq(Frames), FactsIn(got) = FactsIn(obs.got) \cup {a.seq},
         Range(got) = Range(obs.got) \cup {a}
  PROVE  LET w == MergeEvents(view, {a.seq})
         IN  w \in Projections /\ Shown(w) /\ view.whole \subseteq w.whole /\ Brings(w, got)
<1> DEFINE w == MergeEvents(view, {a.seq})
<1>1. TypeOK /\ view \in Projections /\ Shown(view) /\ Brings(view, obs.got)
  BY DEF ViewInv, IInv, WindowInv, WindowTypes
<1>2. /\ w \in Projections /\ Shown(w) /\ view.whole \subseteq w.whole
      /\ w.events = view.events \cup {a.seq}
      /\ \A n \in 1..MaxSeq : n \notin w.whole => w.text[n] = view.text[n]
  BY <1>1, MergesEvents
<1> HIDE DEF w
<1>3. FactsIn(got) \subseteq w.events
  BY <1>1, <1>2 DEF Brings
<1>4. ASSUME NEW n \in (1..MaxSeq) \ w.whole, NEW q \in 1..MaxPieces
      PROVE  q \in 1..Len(w.text[n]) <=> Piece(n, q) \in Range(got)
  <2>1. n \in (1..MaxSeq) \ view.whole /\ w.text[n] = view.text[n]
    BY <1>2
  <2>2. q \in 1..Len(view.text[n]) <=> Piece(n, q) \in Range(obs.got)
    BY <1>1, <2>1 DEF Brings
  <2>3. Piece(n, q) # a
    BY DEF Piece
  <2> QED BY <2>1, <2>2, <2>3
<1> QED BY <1>2, <1>3, <1>4 DEF Brings, w

\* A piece is added to its preview, or dropped when its message is there.
LEMMA PieceArrives ==
  ASSUME ViewInv, Connected, NEW a \in Frames, a.piece # 0, a.piece <= pieces[a.seq],
         a \notin Range(obs.got),
         a.piece > 1 => Piece(a.seq, a.piece - 1) \in Range(obs.got),
         NEW got \in Seq(Frames), FactsIn(got) = FactsIn(obs.got),
         Range(got) = Range(obs.got) \cup {a}
  PROVE  LET w == Delta(view, a.seq, a.piece)
         IN  w \in Projections /\ Shown(w) /\ view.whole \subseteq w.whole /\ Brings(w, got)
<1> DEFINE n == a.seq
           p == a.piece
           w == Delta(view, n, p)
           len == Len(view.text[n])
<1>1. TypeOK /\ view \in Projections /\ Shown(view) /\ Brings(view, obs.got)
  BY DEF ViewInv, IInv, WindowInv, WindowTypes
<1>2. n \in 1..MaxSeq /\ p \in 1..MaxPieces /\ a = Piece(n, p)
  BY Bounds DEF Frames, Piece
<1>3. \A m, q : m # n => Piece(m, q) # a
  BY <1>2 DEF Piece
<1>4. \A q : q # p => Piece(n, q) # a
  BY <1>2 DEF Piece
<1>5. CASE n \in view.whole
  <2>1. w = view
    BY <1>5 DEF Delta
  <2>2. ASSUME NEW m \in (1..MaxSeq) \ view.whole, NEW q \in 1..MaxPieces
        PROVE  q \in 1..Len(view.text[m]) <=> Piece(m, q) \in Range(got)
    BY <1>1, <1>3, <1>5 DEF Brings
  <2>3. Brings(view, got)
    BY <1>1, <2>2 DEF Brings
  <2> QED BY <1>1, <2>1, <2>3
<1>6. CASE n \notin view.whole
  <2> HIDE DEF n, p
  <2>1. \A q \in 1..MaxPieces : q \in 1..len <=> Piece(n, q) \in Range(obs.got)
    BY <1>1, <1>2, <1>6 DEF Brings
  <2>2. len \in Nat /\ pieces[n] \in 0..MaxPieces
    BY <1>1, <1>2 DEF Projections, TypeOK
  <2> HIDE DEF len
  <2>3. p = len + 1
    <3>1. p \notin 1..len
      BY <1>2, <2>1
    <3>2. p > 1 => p - 1 \in 1..len
      <4> SUFFICES ASSUME p > 1 PROVE p - 1 \in 1..len
        OBVIOUS
      <4>1. p - 1 \in 1..MaxPieces
        BY <1>2, Bounds
      <4> QED BY <2>1, <4>1 DEF n, p
    <3> QED BY <1>2, <2>2, <3>1, <3>2, Bounds
  <2>4. p <= pieces[n]
    BY DEF n, p
  <2>5. /\ w \in Projections /\ Shown(w) /\ w.whole = view.whole /\ w.events = view.events
        /\ Len(w.text[n]) = p /\ \A m \in 1..MaxSeq : m # n => w.text[m] = view.text[m]
    BY <1>1, <1>2, <1>6, <2>3, <2>4, AddsPiece DEF len
  <2> HIDE DEF w
  <2>6. ASSUME NEW q \in 1..MaxPieces
        PROVE  q \in 1..Len(w.text[n]) <=> Piece(n, q) \in Range(got)
    <3>1. q \in 1..p <=> q \in 1..len \/ q = p
      BY <1>2, <2>2, <2>3
    <3> QED BY <1>2, <1>4, <2>1, <2>5, <3>1
  <2>7. ASSUME NEW m \in (1..MaxSeq) \ w.whole, NEW q \in 1..MaxPieces
        PROVE  q \in 1..Len(w.text[m]) <=> Piece(m, q) \in Range(got)
    <3>1. CASE m = n
      BY <2>6, <3>1
    <3>2. CASE m # n
      BY <1>1, <1>3, <2>5, <3>2 DEF Brings
    <3> QED BY <3>1, <3>2
  <2>8. Brings(w, got)
    BY <1>1, <2>5, <2>7 DEF Brings
  <2> QED BY <2>5, <2>8 DEF w, n, p
<1> QED BY <1>5, <1>6

LEMMA ReceiveKeeps == ASSUME Step, Receive PROVE WindowInv'
<1> DEFINE a == stream[obs.round][obs.next]
           got == Append(obs.got, a)
<1>1. /\ UNCHANGED <<ask, saved, connections, reads>> /\ Deliver
      /\ view' = IF Last(obs'.got).piece = 0 THEN MergeEvents(view, {Last(obs'.got).seq})
                 ELSE Delta(view, Last(obs'.got).seq, Last(obs'.got).piece)
  BY DEF Receive
<1>2. obs'.got = got /\ obs'.pc = obs.pc /\ obs.pc \in {"follow", "attached"}
  BY <1>1, StepFacts DEF Deliver, Following, Observers
<1>3. /\ a \in Frames /\ (a.piece = 0 => a.seq \in Numbers(facts)) /\ a.piece <= pieces[a.seq]
      /\ a.piece # 0 => a \notin Range(obs.got)
      /\ a.piece > 1 => Piece(a.seq, a.piece - 1) \in Range(obs.got)
  BY <1>1, StepFacts, NextFrame
<1> HIDE DEF a
<1>4. obs.got \in Seq(Frames)
  BY StepFacts DEF Observers
<1>5. got \in Seq(Frames) /\ Last(got) = a
  BY <1>3, <1>4 DEF Last
<1>6. /\ Range(got) = Range(obs.got) \cup {a}
      /\ FactsIn(got) = FactsIn(obs.got) \cup {f.seq : f \in {g \in {a} : g.piece = 0}}
  <2> DEFINE one == <<a>>
  <2>1. one \in Seq(Frames) /\ Len(one) = 1 /\ one[1] = a
    BY <1>3
  <2>2. got = obs.got \o one
    BY <1>3, <1>4
  <2> HIDE DEF one, got
  <2>3. Range(one) = {a}
    BY <2>1, RangeIs
  <2>4. FactsIn(one) = {f.seq : f \in {g \in {a} : g.piece = 0}}
    BY <2>3 DEF FactsIn
  <2> QED BY <1>4, <2>1, <2>2, <2>3, <2>4, RangeConcat, FactsInConcat
<1> HIDE DEF got
<1>7. ViewInv /\ Connected
  BY <1>2, StepFacts DEF Connected
<1>8. view' \in Projections /\ Shown(view') /\ view.whole \subseteq view'.whole
      /\ Brings(view', got)
  <2>1. CASE a.piece = 0
    <3>1. view' = MergeEvents(view, {a.seq})
      BY <1>1, <1>2, <1>5, <2>1
    <3>2. FactsIn(got) = FactsIn(obs.got) \cup {a.seq}
      BY <1>6, <2>1
    <3> QED BY <1>3, <1>5, <1>6, <1>7, <2>1, <3>1, <3>2, FactArrives
  <2>2. CASE a.piece # 0
    <3>1. view' = Delta(view, a.seq, a.piece)
      BY <1>1, <1>2, <1>5, <2>2
    <3>2. FactsIn(got) = FactsIn(obs.got)
      BY <1>6, <2>2
    <3> QED BY <1>3, <1>5, <1>6, <1>7, <2>2, <3>1, <3>2, PieceArrives
  <2> QED BY <2>1, <2>2
<1>9. Shown(view)' /\ ReadInv'
  BY <1>1, <1>8, StepFacts, WindowStays
<1>10. WindowTypes'
  BY <1>1, <1>8 DEF Step, ViewInv, WindowInv, WindowTypes
<1>11. Brings(view, obs.got)'
  BY <1>2, <1>8 DEF Brings
<1>12. NewWindow'
  BY <1>1, <1>2 DEF Step, ViewInv, WindowInv, NewWindow
<1> QED BY <1>9, <1>10, <1>11, <1>12 DEF WindowInv

LEMMA AsksKeep == ASSUME Step, AskCommitted \/ AskSaved PROVE WindowInv'
<1>1. UNCHANGED <<vars, view, connections>>
  BY DEF AskCommitted, AskSaved, Ask
<1>2. PICK kind \in {"history", "saved"} :
        /\ reads < MaxReads /\ reads' = reads + 1
        /\ ask' = [kind |-> kind, seqs |-> SavedMessages]
        /\ kind = "saved" => status = "final"
        /\ saved' = saved \/ saved' = "reading"
  BY DEF AskCommitted, AskSaved, Ask
<1>3. /\ UNCHANGED <<status, facts, pieces, obs>> /\ view' = view /\ connections' = connections
  BY <1>1 DEF vars, db
<1>4. SavedMessages' = SavedMessages
  BY <1>3 DEF SavedMessages, IsMessage
<1>5. Shown(view)'
  BY <1>3, StepFacts, ShownStays
<1>6. WindowTypes'
  <2>1. reads \in Nat /\ MaxReads \in Nat /\ reads \in 0..MaxReads
    BY MessageViewConstants DEF Step, ViewInv, WindowInv, WindowTypes
  <2>2. reads' \in 0..MaxReads
    BY <1>2, <2>1
  <2>3. SavedMessages \in SUBSET (1..MaxSeq)
    BY StepFacts, SavedNumbers
  <2>4. ask' \in [kind : {"none", "history", "saved"}, seqs : SUBSET (1..MaxSeq)]
    BY <1>2, <2>3
  <2> QED BY <1>2, <1>3, <2>2, <2>4 DEF Step, ViewInv, WindowInv, WindowTypes
<1>7. ReadInv'
  <2>1. ask'.seqs = SavedMessages /\ (ask'.kind = "saved" => status = "final")
    BY <1>2
  <2> QED BY <1>2, <1>3, <1>4, <2>1 DEF Step, ViewInv, WindowInv, ReadInv
<1>8. Connected' => Brings(view, obs.got)'
  BY <1>3 DEF Step, ViewInv, WindowInv, Connected, Brings
<1>9. NewWindow'
  BY <1>3 DEF Step, ViewInv, WindowInv, NewWindow, NoPreviews
<1> QED BY <1>5, <1>6, <1>7, <1>8, <1>9 DEF WindowInv

LEMMA MergeAnswerKeeps == ASSUME Step, MergeAnswer PROVE WindowInv'
<1> DEFINE w == MergeMessages(view, ask.seqs)
<1>1. /\ view' = w /\ UNCHANGED <<vars, connections, reads>>
      /\ ask' = [kind |-> "none", seqs |-> {}]
      /\ saved' = IF ask.kind = "saved" THEN SavedAfter(view') ELSE saved
  BY DEF MergeAnswer, NoAsk
<1>2. /\ UNCHANGED <<status, facts, pieces, obs>> /\ connections' = connections /\ reads' = reads
  BY <1>1 DEF vars, db
<1>3. /\ w \in Projections /\ Shown(w) /\ w.whole = view.whole \cup ask.seqs
      /\ w.events = view.events
      /\ \A n \in 1..MaxSeq : n \notin ask.seqs => w.text[n] = view.text[n]
  <2>1. ask.seqs \in SUBSET SavedMessages
    BY DEF Step, ViewInv, WindowInv, ReadInv
  <2> QED BY <2>1, StepFacts, MergesMessages
<1> HIDE DEF w
<1>4. Shown(view)'
  BY <1>1, <1>3, StepFacts, ShownStays
<1>5. WindowTypes'
  <2>1. SavedAfter(view') \in {"error", "ready"}
    BY DEF SavedAfter
  <2>2. ask' \in [kind : {"none", "history", "saved"}, seqs : SUBSET (1..MaxSeq)]
    BY <1>1
  <2>3. saved' \in {"idle", "reading", "ready", "error"}
    BY <1>1, <2>1 DEF Step, ViewInv, WindowInv, WindowTypes
  <2> QED BY <1>1, <1>2, <1>3, <2>2, <2>3 DEF Step, ViewInv, WindowInv, WindowTypes
<1>6. ReadInv'
  <2>1. SavedMessages' = SavedMessages
    BY <1>2 DEF SavedMessages, IsMessage
  <2>2. saved' = "ready" => status = "final" /\ SavedMessages \subseteq w.whole
    BY <1>1, <1>3 DEF Step, ViewInv, WindowInv, ReadInv
  <2> QED BY <1>1, <1>2, <2>1, <2>2 DEF ReadInv
<1>7. Connected' => Brings(view, obs.got)'
  <2> SUFFICES ASSUME Connected PROVE Brings(w, obs.got)
    BY <1>1, <1>2 DEF Connected, Brings
  <2>1. Brings(view, obs.got)
    BY DEF Step, ViewInv, WindowInv
  <2> QED BY <1>3, <2>1 DEF Brings
<1>8. NewWindow'
  <2> SUFFICES ASSUME connections = 0 PROVE obs.pc = "idle" /\ NoPreviews(w)
    BY <1>1, <1>2 DEF NewWindow, NoPreviews
  <2>1. obs.pc = "idle" /\ NoPreviews(view)
    BY DEF Step, ViewInv, WindowInv, NewWindow
  <2> QED BY <1>3, <2>1 DEF NoPreviews
<1> QED BY <1>4, <1>5, <1>6, <1>7, <1>8 DEF WindowInv

LEMMA FailSavedKeeps == ASSUME Step, FailSaved PROVE WindowInv'
<1>1. /\ UNCHANGED <<vars, view, connections, reads>> /\ saved' = "error"
      /\ ask' = [kind |-> "none", seqs |-> {}]
  BY DEF FailSaved, NoAsk
<1>2. UNCHANGED <<obs>> /\ view' = view /\ connections' = connections /\ reads' = reads
  BY <1>1 DEF vars
<1>3. Shown(view)'
  BY <1>2, StepFacts, ShownStays
<1>4. WindowTypes'
  <2>1. ask' \in [kind : {"none", "history", "saved"}, seqs : SUBSET (1..MaxSeq)]
    BY <1>1
  <2> QED BY <1>1, <1>2, <2>1 DEF Step, ViewInv, WindowInv, WindowTypes
<1>5. ReadInv'
  BY <1>1 DEF ReadInv
<1>6. Connected' => Brings(view, obs.got)'
  BY <1>2 DEF Step, ViewInv, WindowInv, Connected, Brings
<1>7. NewWindow'
  BY <1>2 DEF Step, ViewInv, WindowInv, NewWindow, NoPreviews
<1> QED BY <1>3, <1>4, <1>5, <1>6, <1>7 DEF WindowInv

LEMMA ViewStutters == ASSUME Step, UNCHANGED allVars PROVE WindowInv'
<1>1. /\ UNCHANGED <<vars, view, ask, saved, connections, reads>>
  BY DEF allVars, window
<1>2. obs' = obs
  BY <1>1 DEF vars
<1>3. Shown(view)' /\ ReadInv'
  BY <1>1, StepFacts, WindowStays
<1>4. WindowTypes'
  BY <1>1 DEF Step, ViewInv, WindowInv, WindowTypes
<1>5. Connected' => Brings(view, obs.got)'
  BY <1>1, <1>2 DEF Step, ViewInv, WindowInv, Connected, Brings
<1>6. NewWindow'
  BY <1>1, <1>2 DEF Step, ViewInv, WindowInv, NewWindow, NoPreviews
<1> QED BY <1>3, <1>4, <1>5, <1>6 DEF WindowInv

LEMMA ViewStarts == ViewInit => ViewInv
<1> SUFFICES ASSUME ViewInit PROVE ViewInv
  OBVIOUS
<1>1. IInv
  BY InitHolds DEF ViewInit
<1>2. /\ reserved = {} /\ stream = [k \in Rounds |-> <<>>] /\ facts = {}
      /\ obs = Watching("idle", "none", 0, <<>>) /\ status = "absent"
  BY DEF ViewInit, Init
<1>3. /\ view = [text |-> [n \in 1..MaxSeq |-> <<>>], whole |-> {}, events |-> {},
                 conflict |-> FALSE]
      /\ ask = [kind |-> "none", seqs |-> {}] /\ saved = "idle" /\ connections = 0 /\ reads = 0
  BY DEF ViewInit, NoAsk
<1>4. <<>> \in Seq(1..MaxPieces) /\ Len(<<>>) = 0 /\ 1..0 = {}
  OBVIOUS
<1>5. PieceInv
  <2>1. \A k \in Rounds : stream[k] = <<>>
    BY <1>2
  <2>2. ASSUME NEW k \in Rounds PROVE Preceded(stream[k])
    BY <1>4, <2>1 DEF Preceded
  <2>3. Held = {}
    BY <1>2 DEF Held
  <2> QED BY <2>2, <2>3 DEF PieceInv
<1>6. WindowTypes
  <2>1. view \in Projections
    BY <1>3, <1>4 DEF Projections
  <2>2. ask \in [kind : {"none", "history", "saved"}, seqs : SUBSET (1..MaxSeq)]
    BY <1>3
  <2>3. 0 \in 0..MaxConnections /\ 0 \in 0..MaxReads
    BY MessageViewConstants
  <2> QED BY <1>3, <2>1, <2>2, <2>3 DEF WindowTypes
<1>7. \A n \in 1..MaxSeq : view.text[n] = <<>>
  BY <1>3
<1>8. Shown(view)
  <2>1. Numbers(facts) = {} /\ SavedMessages = {}
    BY <1>2 DEF Numbers, SavedMessages
  <2>2. ASSUME NEW n \in 1..MaxSeq PROVE Begins(view, n)
    <3>1. pieces[n] \in Nat
      BY <1>1, PiecesType DEF IInv
    <3> QED BY <1>4, <1>7, <3>1 DEF Begins
  <2> QED BY <1>3, <2>1, <2>2 DEF Shown
<1>9. ReadInv
  BY <1>3 DEF ReadInv
<1>10. ~Connected /\ NewWindow
  BY <1>2, <1>7, WatchingFields DEF Connected, NewWindow, NoPreviews
<1> QED BY <1>1, <1>5, <1>6, <1>8, <1>9, <1>10 DEF ViewInv, WindowInv

LEMMA ViewKeeps == ViewInv /\ [ViewNext]_allVars => ViewInv'
<1> SUFFICES ASSUME ViewInv, [ViewNext]_allVars PROVE ViewInv'
  OBVIOUS
<1>1. [Next \/ Drop]_vars
  <2>1. CASE ViewNext
    BY <2>1, ViewStep
  <2>2. CASE UNCHANGED allVars
    BY <2>2 DEF allVars
  <2> QED BY <2>1, <2>2
<1>2. IInv /\ PieceInv
  BY DEF ViewInv
<1>3. IInv' /\ PieceInv' /\ Grows
  BY <1>1, <1>2, StepKeeps, PiecesStep, TablesGrow
<1>4. Step
  BY <1>3 DEF Step
<1>5. WindowInv'
  BY <1>4, BackendKeeps, ConnectKeeps, AnswerKeeps, OpenRebuiltKeeps, OpenPostedKeeps,
    ReceiveKeeps, EndKeeps, DisconnectKeeps, AsksKeep, MergeAnswerKeeps, FailSavedKeeps,
    ViewStutters DEF ViewNext
<1> QED BY <1>3, <1>5 DEF ViewInv

\* The invariant of the window that composes with the backend.
THEOREM ViewInductive == ViewSpec => []ViewInv
  BY ViewStarts, ViewKeeps, PTL DEF ViewSpec

-----------------------------------------------------------------------------
(* What a window shows.                                                     *)

\* Every variable of the backend and of the window has its type, and what the window
\* takes for facts is committed.
THEOREM ViewTypeCorrect == ViewSpec => []ViewTypeOK
<1>1. ViewInv => ViewTypeOK
  <2> SUFFICES ASSUME ViewInv PROVE ViewTypeOK
    OBVIOUS
  <2>1. TypeOK /\ WindowTypes /\ Shown(view) /\ ReadInv
    BY DEF ViewInv, IInv, WindowInv
  <2>2. SavedMessages \subseteq Numbers(facts)
    BY DEF SavedMessages
  <2>3. view.whole \cup view.events \subseteq Numbers(facts)
    BY <2>1, <2>2 DEF Shown
  <2>4. ask.seqs \subseteq Numbers(facts)
    BY <2>1, <2>2 DEF ReadInv
  <2>5. /\ view.text \in [1..MaxSeq -> Seq(1..MaxPieces)] /\ view.conflict \in BOOLEAN
        /\ ask.kind \in {"none", "history", "saved"}
    BY <2>1 DEF WindowTypes, Projections
  <2> QED BY <2>1, <2>3, <2>4, <2>5 DEF ViewTypeOK, WindowTypes
<1> QED BY <1>1, ViewInductive, PTL

\* Each connection of the window misses nothing and is given every frame once, but for a
\* fact carried over a pause, on the second connection as on the first
\* (run_observation.py:71-104).
THEOREM ConnectionsAreExact == ViewSpec => []ObserverGetsAll
<1>1. ViewInv => ObserverGetsAll
  BY OnceEach, NoneMissed DEF ViewInv, ObserverGetsAll
<1> QED BY <1>1, ViewInductive, PTL

\* Two texts that agree piece by piece are a text and its beginning.
LEMMA PrefixOf ==
  ASSUME NEW P, NEW s \in Seq(P), NEW t \in Seq(P), Len(s) <= Len(t),
         \A i \in 1..Len(s) : s[i] = t[i]
  PROVE  IsPrefix(s, t)
<1> DEFINE u == SubSeq(s, 1, Len(s))
           v == SubSeq(t, 1, Len(s))
<1>1. u \in Seq(P) /\ v \in Seq(P) /\ Len(u) = Len(s) /\ Len(v) = Len(s)
  OBVIOUS
<1>2. \A i \in 1..Len(s) : u[i] = s[i] /\ v[i] = t[i]
  OBVIOUS
<1> HIDE DEF u, v
<1>3. u = v
  BY <1>1, <1>2
<1> QED BY <1>3 DEF IsPrefix, u, v

\* What a preview is made of is what the connection has brought.
LEMMA PreviewIsBrought ==
  ASSUME TypeOK, ObserverInv, NEW n \in (1..MaxSeq) \ view.whole, view \in Projections,
         Shown(view), Brings(view, obs.got)
  PROVE  Range(view.text[n]) = Brought(n)
<1> DEFINE t == view.text[n]
           len == Len(t)
<1>1. /\ t \in Seq(1..MaxPieces) /\ len <= pieces[n] /\ pieces[n] \in 0..MaxPieces
      /\ \A i \in 1..len : t[i] = i
  BY DEF Projections, Shown, Begins, TypeOK
<1>2. len \in Nat /\ \A q \in 1..len : q \in 1..MaxPieces
  BY <1>1, Bounds
<1>3. Range(t) = 1..len
  <2>1. Range(t) = {t[i] : i \in 1..len}
    BY <1>1 DEF Range
  <2> HIDE DEF t, len
  <2> QED BY <1>1, <2>1
<1>4. \A q \in 1..MaxPieces : q \in 1..len <=> Piece(n, q) \in Range(obs.got)
  BY DEF Brings
<1> HIDE DEF t, len
<1>5. ASSUME NEW f \in Range(obs.got), f.seq = n, f.piece # 0
      PROVE  f.piece \in 1..len
  <2>1. f \in Frames
    BY RangeIs DEF TypeOK
  <2>2. f.piece \in 1..MaxPieces /\ f = Piece(n, f.piece)
    BY <1>5, <2>1, Bounds DEF Frames, Piece
  <2> QED BY <1>4, <2>2
<1>6. ASSUME NEW q \in 1..len PROVE q \in Brought(n)
  <2>1. Piece(n, q) \in Range(obs.got) /\ q # 0
    BY <1>2, <1>4
  <2>2. Piece(n, q).seq = n /\ Piece(n, q).piece = q
    BY DEF Piece
  <2> QED BY <2>1, <2>2 DEF Brought
<1> QED BY <1>3, <1>5, <1>6 DEF Brought, t

\* What is on show of a reply is that reply or how it begins, whatever connections break,
\* whichever of its pieces, its message and a read of it come first, and whatever
\* becomes of the Run meanwhile (run-projection.ts:148-219).
THEOREM RepliesAreShown == ViewSpec => []ReplyIsShown
<1>1. ViewInv => ReplyIsShown
  <2> SUFFICES ASSUME ViewInv PROVE ReplyIsShown
    OBVIOUS
  <2>1. TypeOK /\ ObserverInv /\ view \in Projections /\ Shown(view) /\ ReadInv
    BY DEF ViewInv, IInv, WindowInv, WindowTypes
  <2>2. Connected => Brings(view, obs.got)
    BY DEF ViewInv, WindowInv
  <2>3. ASSUME NEW n \in Previews(view)
        PROVE  /\ IsPrefix(view.text[n], Text(n))
               /\ Connected => Range(view.text[n]) = Brought(n)
    <3>1. n \in (1..MaxSeq) \ view.whole
      BY DEF Previews
    <3>2. view.text[n] \in Seq(1..MaxPieces) /\ Begins(view, n)
      BY <2>1, <3>1 DEF Projections, Shown
    <3>3. /\ Text(n) \in Seq(1..MaxPieces) /\ Len(Text(n)) = pieces[n] /\ pieces[n] \in Nat
          /\ \A i \in 1..pieces[n] : Text(n)[i] = i
      BY <2>1, <3>1, TextIs
    <3>4. Len(view.text[n]) <= Len(Text(n))
          /\ \A i \in 1..Len(view.text[n]) : view.text[n][i] = Text(n)[i]
      BY <3>2, <3>3 DEF Begins
    <3> QED BY <2>1, <2>2, <3>1, <3>2, <3>3, <3>4, PrefixOf, PreviewIsBrought
  <2>4. /\ ~view.conflict /\ \A n \in view.whole : view.text[n] = Text(n)
        /\ view.events \cap SavedMessages \subseteq view.whole
    BY <2>1 DEF Shown
  <2>5. Connected => FactsIn(obs.got) \subseteq view.events
    BY <2>2 DEF Brings
  <2>6. saved = "ready" => SavedMessages \subseteq view.whole
    BY <2>1 DEF ReadInv
  <2> QED BY <2>3, <2>4, <2>5, <2>6 DEF ReplyIsShown
<1> QED BY <1>1, ViewInductive, PTL
=============================================================================
