-------------------------- MODULE MemorizeProofs --------------------------
(***************************************************************************)
(* For any messages, requests, senders, resends and boundaries: what was   *)
(* acknowledged is kept, folded once, and answered with its episodes, and  *)
(* a flush leaves no chat message.                                         *)
(***************************************************************************)
EXTENDS Memorize, FiniteSetTheorems, SequenceTheorems, TLAPS

-----------------------------------------------------------------------------
(* Ranks in a finite set of numbers *)

UpTo(S, s) == {k \in S : k <= s}

LEMMA UpToCounts ==
    ASSUME NEW S, S \subseteq Nat, IsFiniteSet(S), NEW s \in S
    PROVE  /\ IsFiniteSet(UpTo(S, s)) /\ UpTo(S, s) \subseteq S
           /\ Cardinality(UpTo(S, s)) \in 1..Cardinality(S)
  <1>1. UpTo(S, s) \in SUBSET S /\ s \in UpTo(S, s)
    BY DEF UpTo
  <1>2. /\ IsFiniteSet(UpTo(S, s)) /\ Cardinality(UpTo(S, s)) <= Cardinality(S)
        /\ Cardinality(S) \in Nat
    BY <1>1, FS_Subset, FS_CardinalityType
  <1>3. Cardinality(UpTo(S, s)) \in Nat /\ Cardinality(UpTo(S, s)) # 0
    BY <1>1, <1>2, FS_EmptySet, FS_CardinalityType
  <1>4. QED
    BY <1>1, <1>2, <1>3

LEMMA UpToGrows ==
    ASSUME NEW S, S \subseteq Nat, IsFiniteSet(S), NEW s \in S, NEW t \in S, s < t
    PROVE  Cardinality(UpTo(S, s)) < Cardinality(UpTo(S, t))
  <1>1. IsFiniteSet(UpTo(S, s)) /\ IsFiniteSet(UpTo(S, t))
    BY UpToCounts
  <1>2. /\ UpTo(S, s) \in SUBSET UpTo(S, t)
        /\ t \in UpTo(S, t) /\ t \notin UpTo(S, s)
    <2>1. s \in Nat /\ t \in Nat /\ \A k \in S : k \in Nat
      OBVIOUS
    <2>2. ASSUME NEW k \in S, k <= s PROVE k <= t
      BY <2>1, <2>2
    <2>3. t <= t /\ ~ (t <= s)
      BY <2>1
    <2>4. QED
      BY <2>2, <2>3 DEF UpTo
  <1>3. /\ Cardinality(UpTo(S, s)) <= Cardinality(UpTo(S, t))
        /\ Cardinality(UpTo(S, s)) # Cardinality(UpTo(S, t))
    BY <1>1, <1>2, FS_Subset
  <1>4. Cardinality(UpTo(S, s)) \in Nat /\ Cardinality(UpTo(S, t)) \in Nat
    BY <1>1, FS_CardinalityType
  <1>5. QED
    BY <1>3, <1>4

\* Every rank is taken: ranks map the set one to one into 1..Cardinality(S).
LEMMA RankTaken ==
    ASSUME NEW S, S \subseteq Nat, IsFiniteSet(S), NEW i \in 1..Cardinality(S)
    PROVE  \E s \in S : Cardinality(UpTo(S, s)) = i
  <1> DEFINE n == Cardinality(S)
             rank == [s \in S |-> Cardinality(UpTo(S, s))]
  <1>1. n \in Nat
    BY FS_CardinalityType
  <1>2. IsFiniteSet(1..n) /\ Cardinality(1..n) = n
    BY <1>1, FS_Interval
  <1>3. rank \in [S -> 1..n]
    BY UpToCounts
  <1>4. ASSUME NEW s \in S, NEW t \in S, rank[s] = rank[t] PROVE s = t
    <2>1. s \in Nat /\ t \in Nat
      OBVIOUS
    <2>2. Cardinality(UpTo(S, s)) \in Nat /\ Cardinality(UpTo(S, t)) \in Nat
      BY UpToCounts, FS_CardinalityType
    <2>3. ~ (s < t)
      <3>1. s < t => Cardinality(UpTo(S, s)) < Cardinality(UpTo(S, t))
        BY UpToGrows
      <3>2. QED
        BY <1>4, <2>2, <3>1
    <2>4. ~ (t < s)
      <3>1. t < s => Cardinality(UpTo(S, t)) < Cardinality(UpTo(S, s))
        BY UpToGrows
      <3>2. QED
        BY <1>4, <2>2, <3>1
    <2>5. QED
      BY <2>1, <2>3, <2>4
  <1>5. rank \in Injection(S, 1..n)
    BY <1>3, <1>4 DEF Injection, IsInjective
  <1>6. rank \in Surjection(S, 1..n)
    BY <1>2, <1>5, FS_Injection
  <1>7. QED
    BY <1>6 DEF Surjection

\* The i-th element, and the rank of an element.
LEMMA NthOf ==
    ASSUME NEW S, S \subseteq Nat, IsFiniteSet(S), NEW i \in 1..Cardinality(S)
    PROVE  Nth(S, i) \in S /\ Cardinality(UpTo(S, Nth(S, i))) = i
  <1>1. PICK s \in S : Cardinality(UpTo(S, s)) = i
    BY RankTaken
  <1>2. Cardinality({k \in S : k <= s}) = i
    BY <1>1 DEF UpTo
  <1>3. Nth(S, i) \in S /\ Cardinality({k \in S : k <= Nth(S, i)}) = i
    BY <1>2 DEF Nth
  <1>4. QED
    BY <1>3 DEF UpTo

LEMMA NthDiffers ==
    ASSUME NEW S, S \subseteq Nat, IsFiniteSet(S),
           NEW i \in 1..Cardinality(S), NEW j \in 1..Cardinality(S), i # j
    PROVE  Nth(S, i) # Nth(S, j)
  BY NthOf

LEMMA NthReaches ==
    ASSUME NEW S, S \subseteq Nat, IsFiniteSet(S), NEW s \in S
    PROVE  \E i \in 1..Cardinality(S) : Nth(S, i) = s
  <1>1. PICK i \in 1..Cardinality(S) : i = Cardinality(UpTo(S, s))
    BY UpToCounts
  <1>2. Nth(S, i) \in S /\ Cardinality(UpTo(S, Nth(S, i))) = i
    BY NthOf
  <1>3. ~ (Nth(S, i) < s) /\ ~ (s < Nth(S, i))
    <2>1. i \in Nat /\ ~ (i < i)
      BY FS_CardinalityType
    <2>2. QED
      BY <1>1, <1>2, <2>1, UpToGrows
  <1>4. Nth(S, i) = s
    <2>1. Nth(S, i) \in Nat /\ s \in Nat
      BY <1>2
    <2>2. QED
      BY <1>3, <2>1
  <1>5. QED
    BY <1>4

LEMMA GreatestOf ==
    ASSUME NEW S, S \subseteq Nat, IsFiniteSet(S), S # {}
    PROVE  \E s \in S : \A k \in S : k <= s
  <1>1. Cardinality(S) \in 1..Cardinality(S)
    BY FS_EmptySet, FS_CardinalityType
  <1>2. PICK s \in S : Cardinality(UpTo(S, s)) = Cardinality(S)
    BY <1>1, RankTaken
  <1>3. UpTo(S, s) = S
    BY <1>2, FS_Subset, UpToCounts
  <1>4. QED
    BY <1>3 DEF UpTo

LEMMA LeastOf ==
    ASSUME NEW S, S \subseteq Nat, IsFiniteSet(S), S # {}
    PROVE  \E s \in S : \A k \in S : s <= k
  <1>1. 1 \in 1..Cardinality(S)
    BY FS_EmptySet, FS_CardinalityType
  <1>2. PICK s \in S : Cardinality(UpTo(S, s)) = 1
    BY <1>1, RankTaken
  <1>3. ASSUME NEW k \in S, k < s PROVE FALSE
    <2>1. Cardinality(UpTo(S, k)) < 1 /\ Cardinality(UpTo(S, k)) \in 1..Cardinality(S)
      BY <1>2, <1>3, UpToGrows, UpToCounts
    <2>2. QED
      BY <2>1
  <1>4. QED
    BY <1>3

-----------------------------------------------------------------------------
(* Boundary detection *)

\* A slice that opens with a chat message, as every tail does.
Opens(merged) == \E m \in Chats(merged) : \A k \in merged : m <= k

LEMMA Slices ==
    ASSUME NEW merged \in SUBSET Messages
    PROVE  /\ merged \subseteq Nat /\ IsFiniteSet(merged)
           /\ Chats(merged) \subseteq merged
           /\ \A cut \in Cuts(merged) :
                 /\ Starts(merged, cut) \subseteq Chats(merged)
                 /\ Starts(merged, cut) \subseteq Nat
                 /\ IsFiniteSet(Starts(merged, cut))
  <1>1. merged \subseteq Nat /\ IsFiniteSet(merged)
    BY MessagesAssumption, FS_Subset
  <1>2. Chats(merged) \subseteq merged
    BY DEF Chats
  <1>3. ASSUME NEW cut \in Cuts(merged)
        PROVE  Starts(merged, cut) \subseteq Chats(merged)
    BY DEF Starts, Cuts
  <1>4. QED
    BY <1>1, <1>2, <1>3, FS_Subset

LEMMA ClosedAre ==
    ASSUME NEW S, S \subseteq Nat, IsFiniteSet(S), NEW final
    PROVE  /\ Closed(S, final) \subseteq S
           /\ Closed(S, final) \subseteq Nat /\ IsFiniteSet(Closed(S, final))
  <1>1. Closed(S, final) \subseteq S
    BY DEF Closed
  <1>2. QED
    BY <1>1, FS_Subset

\* A segment belongs to its start and to no other.
LEMMA SegmentsApart ==
    ASSUME NEW merged \in SUBSET Messages, NEW starts, starts \subseteq Nat,
           NEW s \in starts, NEW t \in starts, s # t
    PROVE  Segment(merged, starts, s) \cap Segment(merged, starts, t) = {}
  <1> SUFFICES ASSUME NEW m \in Segment(merged, starts, s),
                      m \in Segment(merged, starts, t)
               PROVE  FALSE
    OBVIOUS
  <1>1. /\ m \in Nat /\ s \in Nat /\ t \in Nat
    BY MessagesAssumption DEF Segment
  <1>2. /\ s <= m /\ t <= m
        /\ t > s => m < t
        /\ s > t => m < s
    BY DEF Segment
  <1>3. QED
    BY <1>1, <1>2

LEMMA SegmentHasStart ==
    ASSUME NEW merged \in SUBSET Messages, NEW starts, starts \subseteq merged,
           NEW s \in starts
    PROVE  s \in Segment(merged, starts, s) /\ Segment(merged, starts, s) \subseteq merged
  <1>1. \A k \in starts : k \in Nat
    BY MessagesAssumption
  <1>2. s \in merged /\ s <= s /\ \A k \in starts : k > s => s < k
    BY <1>1
  <1>3. QED
    BY <1>2 DEF Segment

\* The segments of a slice cover it from its first chat message on.
LEMMA SegmentsCover ==
    ASSUME NEW merged \in SUBSET Messages, NEW cut \in Cuts(merged), NEW m \in Headed(merged)
    PROVE  \E s \in Starts(merged, cut) : m \in Segment(merged, Starts(merged, cut), s)
  <1> DEFINE S == Starts(merged, cut)
             B == {k \in S : k <= m}
  <1>1. S \subseteq Nat /\ IsFiniteSet(S) /\ m \in merged /\ m \in Nat
    BY Slices DEF Headed
  <1>2. PICK m0 \in Chats(merged) : \A k \in Chats(merged) : m0 <= k
    <2>1. Chats(merged) \subseteq Nat /\ IsFiniteSet(Chats(merged)) /\ Chats(merged) # {}
      BY Slices, FS_Subset DEF Headed
    <2>2. QED
      BY <2>1, LeastOf
  <1>3. m0 \in S /\ m0 <= m
    <2>1. PICK k \in Chats(merged) : k <= m
      BY DEF Headed
    <2>2. m0 <= k /\ m0 \in Nat /\ k \in Nat
      BY <1>2, Slices
    <2>3. m0 \in S
      BY <1>2 DEF Starts
    <2>4. QED
      BY <1>1, <2>1, <2>2, <2>3
  <1>4. B \subseteq Nat /\ IsFiniteSet(B) /\ B # {}
    BY <1>1, <1>3, FS_Subset
  <1>5. PICK s \in B : \A k \in B : k <= s
    BY <1>4, GreatestOf
  <1>6. ASSUME NEW k \in S, k > s PROVE m < k
    <2>1. k \in Nat /\ s \in Nat
      BY <1>1, <1>5
    <2>2. k \notin B
      BY <1>5, <1>6, <2>1
    <2>3. QED
      BY <1>1, <2>1, <2>2
  <1>7. QED
    BY <1>1, <1>5, <1>6 DEF Segment

\* The end of a slice is what _slice_tail keeps of it.
LEMMA LastOfEnd ==
    ASSUME NEW merged \in SUBSET Messages, NEW T \in SUBSET merged,
           \A m \in T, k \in merged : k > m => k \in T
    PROVE  LastOf(merged, Cardinality(T)) = T
  <1>1. /\ IsFiniteSet(T) /\ Cardinality(T) \in Nat
        /\ merged \subseteq Nat /\ IsFiniteSet(merged)
    BY Slices, FS_Subset, FS_CardinalityType
  <1>2. ASSUME NEW m \in T PROVE Cardinality({k \in merged : k > m}) < Cardinality(T)
    <2> DEFINE A == {k \in merged : k > m}
    <2>1. A \in SUBSET T
      OBVIOUS
    <2>2. m \notin A
      BY <1>1
    <2>3. IsFiniteSet(A) /\ Cardinality(A) <= Cardinality(T) /\ Cardinality(A) # Cardinality(T)
      BY <1>1, <2>1, <2>2, FS_Subset
    <2>4. Cardinality(A) \in Nat
      BY <2>3, FS_CardinalityType
    <2>5. QED
      BY <1>1, <2>3, <2>4
  <1>3. ASSUME NEW m \in merged \ T
        PROVE  ~ (Cardinality({k \in merged : k > m}) < Cardinality(T))
    <2> DEFINE A == {k \in merged : k > m}
    <2>1. ASSUME NEW k \in T PROVE k > m
      <3>1. k \in Nat /\ m \in Nat /\ k # m
        BY <1>1
      <3>2. ~ (m > k)
        OBVIOUS
      <3>3. QED
        BY <3>1, <3>2
    <2>2. T \in SUBSET A
      BY <2>1
    <2>3. A \subseteq merged
      OBVIOUS
    <2>4. IsFiniteSet(A)
      BY <1>1, <2>3, FS_Subset
    <2>5. Cardinality(T) <= Cardinality(A) /\ Cardinality(A) \in Nat
      BY <2>2, <2>4, FS_Subset, FS_CardinalityType
    <2>6. QED
      BY <1>1, <2>5
  <1>4. QED
    BY <1>2, <1>3 DEF LastOf

LEMMA CellsAre ==
    ASSUME NEW merged \in SUBSET Messages, NEW cut \in Cuts(merged), NEW final \in BOOLEAN
    PROVE  LET starts == Starts(merged, cut)
               closed == Closed(starts, final)
               parts == Cells(merged, cut, final)
           IN  /\ parts \in Seq((SUBSET merged) \ {{}})
               /\ Len(parts) = Cardinality(closed)
               /\ \A i, j \in DOMAIN parts : i # j => parts[i] \cap parts[j] = {}
               /\ UNION {parts[i] : i \in DOMAIN parts}
                    = UNION {Segment(merged, starts, s) : s \in closed}
               /\ parts = <<>> <=> closed = {}
  <1> DEFINE starts == Starts(merged, cut)
             closed == Closed(starts, final)
             parts == Cells(merged, cut, final)
  <1>1. /\ starts \subseteq merged /\ starts \subseteq Nat /\ IsFiniteSet(starts)
        /\ closed \subseteq starts /\ closed \subseteq Nat /\ IsFiniteSet(closed)
        /\ Cardinality(closed) \in Nat
    <2>1. starts \subseteq merged /\ starts \subseteq Nat /\ IsFiniteSet(starts)
      BY Slices
    <2>2. closed \subseteq starts /\ closed \subseteq Nat /\ IsFiniteSet(closed)
      BY <2>1, ClosedAre
    <2>3. QED
      BY <2>1, <2>2, FS_CardinalityType
  <1>2. parts = [i \in 1..Cardinality(closed) |-> Segment(merged, starts, Nth(closed, i))]
    BY DEF Cells
  <1> HIDE DEF starts, closed, parts
  <1>3. ASSUME NEW i \in 1..Cardinality(closed)
        PROVE  Nth(closed, i) \in starts /\ parts[i] \in (SUBSET merged) \ {{}}
    <2>1. Nth(closed, i) \in closed
      BY <1>1, NthOf
    <2>2. Nth(closed, i) \in starts
      BY <1>1, <2>1
    <2>3. /\ Nth(closed, i) \in Segment(merged, starts, Nth(closed, i))
          /\ Segment(merged, starts, Nth(closed, i)) \subseteq merged
      BY <1>1, <2>2, SegmentHasStart
    <2>4. parts[i] = Segment(merged, starts, Nth(closed, i))
      BY <1>2
    <2>5. QED
      BY <2>2, <2>3, <2>4
  <1>4. /\ parts \in Seq((SUBSET merged) \ {{}}) /\ Len(parts) = Cardinality(closed)
        /\ DOMAIN parts = 1..Cardinality(closed)
    BY <1>1, <1>2, <1>3
  <1>5. ASSUME NEW i \in DOMAIN parts, NEW j \in DOMAIN parts, i # j
        PROVE  parts[i] \cap parts[j] = {}
    <2>1. Nth(closed, i) # Nth(closed, j)
      BY <1>1, <1>4, <1>5, NthDiffers
    <2>2. QED
      BY <1>1, <1>2, <1>3, <1>4, <2>1, SegmentsApart
  <1>6. UNION {parts[i] : i \in DOMAIN parts}
          = UNION {Segment(merged, starts, s) : s \in closed}
    <2>1. ASSUME NEW i \in DOMAIN parts PROVE \E s \in closed : parts[i] = Segment(merged, starts, s)
      BY <1>1, <1>2, <1>4, NthOf
    <2>2. ASSUME NEW s \in closed PROVE \E i \in DOMAIN parts : parts[i] = Segment(merged, starts, s)
      BY <1>1, <1>2, <1>4, NthReaches
    <2>3. QED
      BY <2>1, <2>2
  <1>7. parts = <<>> <=> closed = {}
    <2>1. parts = <<>> <=> Len(parts) = 0
      BY <1>4
    <2>2. QED
      BY <1>1, <1>4, <2>1, FS_EmptySet
  <1>8. QED
    BY <1>4, <1>5, <1>6, <1>7 DEF starts, closed, parts

LEMMA TailIs ==
    ASSUME NEW merged \in SUBSET Messages, NEW cut \in Cuts(merged), NEW final \in BOOLEAN,
           Cells(merged, cut, final) # <<>>
    PROVE  LET starts == Starts(merged, cut)
               tail == Unclosed(merged, cut, final)
               parts == Cells(merged, cut, final)
           IN  /\ tail \subseteq merged
               /\ final => tail = {}
               /\ LastOf(merged, Cardinality(tail)) = tail
               /\ tail \cap UNION {parts[i] : i \in DOMAIN parts} = {}
               /\ Headed(merged) \subseteq tail \cup UNION {parts[i] : i \in DOMAIN parts}
  <1> DEFINE starts == Starts(merged, cut)
             closed == Closed(starts, final)
             open == starts \ closed
             parts == Cells(merged, cut, final)
             tail == Unclosed(merged, cut, final)
             Seg(s) == Segment(merged, starts, s)
  <1>1. /\ starts \subseteq merged /\ starts \subseteq Nat
        /\ closed \subseteq starts
    <2>1. starts \subseteq merged /\ starts \subseteq Nat /\ IsFiniteSet(starts)
      BY Slices
    <2>2. QED
      BY <2>1, ClosedAre
  <1>2. /\ closed # {}
        /\ UNION {parts[i] : i \in DOMAIN parts} = UNION {Segment(merged, starts, s) : s \in closed}
    BY CellsAre, ZenonT(40)
  <1>3. tail = UNION {Segment(merged, starts, s) : s \in open}
    BY <1>2 DEF Unclosed
  <1>4. \A s \in starts : Segment(merged, starts, s) \subseteq merged
    BY <1>1, SegmentHasStart
  <1>5. tail \subseteq merged
    BY <1>3, <1>4
  <1>6. final => tail = {}
    BY <1>3 DEF Closed
  <1>7. tail \cap UNION {parts[i] : i \in DOMAIN parts} = {}
    <2>1. ASSUME NEW s \in open, NEW t \in closed
          PROVE  Segment(merged, starts, s) \cap Segment(merged, starts, t) = {}
      BY <1>1, SegmentsApart
    <2>2. QED
      BY <1>2, <1>3, <2>1
  <1>8. Headed(merged) \subseteq tail \cup UNION {parts[i] : i \in DOMAIN parts}
    <2> SUFFICES ASSUME NEW m \in Headed(merged)
                 PROVE  m \in tail \cup UNION {parts[i] : i \in DOMAIN parts}
      OBVIOUS
    <2>1. PICK s \in starts : m \in Segment(merged, starts, s)
      BY SegmentsCover
    <2>2. QED
      BY <1>2, <1>3, <2>1
  <1>9. \A m \in tail, k \in merged : k > m => k \in tail
    <2> SUFFICES ASSUME NEW m \in tail, NEW k \in merged, k > m
                 PROVE  k \in tail
      OBVIOUS
    <2>1. PICK s \in open : m \in Segment(merged, starts, s)
      BY <1>3
    <2>2. /\ \A j \in starts : ~ (j > s)
          /\ s <= m
      BY <2>1 DEF Closed, Segment
    <2>3. s \in Nat /\ m \in Nat /\ k \in Nat
      BY <1>1, <1>5, MessagesAssumption
    <2>4. s <= k
      BY <2>2, <2>3
    <2>5. k \in Segment(merged, starts, s)
      BY <2>2, <2>4 DEF Segment
    <2>6. QED
      BY <1>3, <2>5
  <1>10. LastOf(merged, Cardinality(tail)) = tail
    BY <1>5, <1>9, LastOfEnd
  <1>11. QED
    BY <1>5, <1>6, <1>7, <1>8, <1>10

\* A final call closes every segment, and there is one if the slice has a chat message.
LEMMA FinalCloses ==
    ASSUME NEW merged \in SUBSET Messages, NEW cut \in Cuts(merged), Chats(merged) # {}
    PROVE  Cells(merged, cut, TRUE) # <<>>
  <1>1. Chats(merged) \subseteq Nat /\ IsFiniteSet(Chats(merged))
    BY Slices, FS_Subset
  <1>2. PICK m \in Chats(merged) : \A k \in Chats(merged) : m <= k
    BY <1>1, LeastOf
  <1>3. m \in Starts(merged, cut)
    BY <1>2 DEF Starts
  <1>4. Closed(Starts(merged, cut), TRUE) # {}
    BY <1>3 DEF Closed
  <1>5. QED
    BY <1>4, CellsAre

\* A tail opens with a chat message: the start of its segment.
LEMMA TailOpens ==
    ASSUME NEW merged \in SUBSET Messages, NEW cut \in Cuts(merged), NEW final \in BOOLEAN,
           Cells(merged, cut, final) # <<>>, Unclosed(merged, cut, final) # {}
    PROVE  Opens(Unclosed(merged, cut, final))
  <1> DEFINE starts == Starts(merged, cut)
             closed == Closed(starts, final)
             open == starts \ closed
             tail == Unclosed(merged, cut, final)
  <1>1. /\ starts \subseteq merged /\ starts \subseteq Nat
        /\ starts \subseteq Chats(merged)
    BY Slices
  <1>2. tail = UNION {Segment(merged, starts, s) : s \in open}
    BY CellsAre DEF Unclosed
  <1>3. PICK s \in open : TRUE
    BY <1>2
  <1>4. s \in tail /\ s \in Chats(tail)
    <2>1. s \in Segment(merged, starts, s)
      BY <1>1, SegmentHasStart
    <2>2. s \in tail
      BY <1>2, <2>1
    <2>3. QED
      BY <1>1, <2>2 DEF Chats
  <1>5. ASSUME NEW k \in tail PROVE s <= k
    <2>1. PICK t \in open : k \in Segment(merged, starts, t)
      BY <1>2
    <2>2. s \in Nat /\ t \in Nat
      BY <1>1
    <2>3. ~ (s > t) /\ ~ (t > s)
      BY DEF Closed
    <2>4. s = t
      BY <2>2, <2>3
    <2>5. QED
      BY <2>1, <2>4 DEF Segment
  <1>6. QED
    BY <1>4, <1>5 DEF Opens

LEMMA HeadedGrows ==
    ASSUME NEW A, NEW B, A \subseteq B
    PROVE  Headed(A) \subseteq Headed(B)
  BY DEF Headed, Chats

LEMMA OpenIsHeaded ==
    ASSUME NEW merged, Opens(merged)
    PROVE  Headed(merged) = merged
  BY DEF Opens, Headed

-----------------------------------------------------------------------------
(* The inductive invariant *)

People == {Sender[m] : m \in Messages}
Part == (SUBSET Messages) \ {{}}

CallType == [pc : Phase, op : Op, merged : SUBSET Messages, parts : Seq(Part),
             tail : SUBSET Messages, ids : Seq(Nat), users : Nat, agents : Nat,
             at : Nat, left : SUBSET People, pending : People \cup {None}]

CallsTyped == call \in [Calls -> CallType] /\ sends \in [Calls -> Nat]

\* Past the lock and not yet answered.
Inside == {"locked", "read", "keep", "kept", "detected", "inserted", "cleared"}

\* The lock is of the one call inside it.
Locking == \A c \in Calls : call[c].pc \in Inside <=> lock = c

\* A call that holds a slice has all of the buffer in it; its cells are the detector's.
Detected(c) ==
    /\ call[c].pc \in {"read", "keep", "detected", "inserted"} => buffer \subseteq call[c].merged
    /\ call[c].pc = "kept" => buffer = call[c].merged
    /\ call[c].pc \in {"detected", "inserted"} =>
          /\ call[c].parts # <<>>
          /\ \E cut \in Cuts(call[c].merged) :
                /\ call[c].parts = Cells(call[c].merged, cut, call[c].op = "flush")
                /\ call[c].tail = Unclosed(call[c].merged, cut, call[c].op = "flush")
    /\ call[c].pc = "inserted" =>
          \A i \in DOMAIN call[c].parts : call[c].parts[i] \subseteq InCells

Detection == \A c \in Calls : Detected(c)

\* What the pipelines of a call have announced and written so far.
Told(c) ==
    /\ \A i \in 1..call[c].users : <<"user", call[c].ids[i]>> \in started
    /\ setting.mode = "agent" =>
          \A i \in 1..call[c].agents : <<"agent", call[c].ids[i]>> \in started
    /\ \A i \in 1..call[c].at : \A o \in Owners(call[c].ids[i]) :
          i < call[c].at \/ o \notin call[c].left \cup {call[c].pending} =>
              /\ <<call[c].ids[i], o>> \in episodes
              /\ <<call[c].ids[i], o>> \in extracted
    /\ call[c].pending # None =>
          call[c].at > 0 /\ <<call[c].ids[call[c].at], call[c].pending>> \in episodes
    /\ call[c].left # {} => call[c].at > 0

Fresh(c) ==
    /\ call[c].users = 0 /\ call[c].agents = 0 /\ call[c].at = 0
    /\ call[c].left = {} /\ call[c].pending = None

Finished(c) ==
    /\ call[c].users = Len(call[c].ids) /\ call[c].at = Len(call[c].ids)
    /\ setting.mode = "agent" => call[c].agents = Len(call[c].ids)
    /\ call[c].left = {} /\ call[c].pending = None

Progressed(c) ==
    /\ Told(c)
    /\ call[c].pc \in {"queued", "locked"} => call[c].merged = {}
    /\ call[c].pc \notin {"cleared", "done"} => Fresh(c)
    /\ call[c].pc \notin {"inserted", "cleared", "done"} => call[c].ids = <<>>
    /\ call[c].pc = "done" => Finished(c)

Progress == \A c \in Calls : Progressed(c)

IInv == TypeOK /\ CallsTyped /\ Locking /\ Detection /\ Progress

-----------------------------------------------------------------------------
(* Steps of one call *)

LEMMA CallIs ==
    ASSUME IInv, NEW c \in Calls
    PROVE  /\ call[c] \in CallType
           /\ call[c].pc \in Phase /\ call[c].op \in Op
           /\ call[c].merged \subseteq Messages /\ call[c].tail \subseteq call[c].merged
           /\ call[c].parts \in Seq(Part)
           /\ call[c].ids \in Seq(DOMAIN cells) /\ call[c].ids \in Seq(Nat)
           /\ Len(call[c].ids) \in Nat
           /\ call[c].users \in Nat /\ call[c].users <= Len(call[c].ids)
           /\ call[c].agents \in Nat /\ call[c].agents <= Len(call[c].ids)
           /\ call[c].at \in Nat /\ call[c].at <= Len(call[c].ids)
           /\ call[c].left \subseteq People /\ call[c].pending \in People \cup {None}
           /\ Payload[c] \subseteq Messages
           /\ c # None
  <1>1. /\ call[c] \in CallType /\ call[c].tail \subseteq call[c].merged
        /\ call[c].ids \in Seq(DOMAIN cells)
        /\ call[c].users \in 0..Len(call[c].ids) /\ call[c].agents \in 0..Len(call[c].ids)
        /\ call[c].at \in 0..Len(call[c].ids)
    BY DEF IInv, TypeOK, CallsTyped
  <1>2. Len(call[c].ids) \in Nat
    BY <1>1, LenProperties
  <1>3. Payload[c] \subseteq Messages /\ c # None
    BY PayloadAssumption, NobodyAssumption
  <1>4. QED
    BY <1>1, <1>2, <1>3 DEF CallType

LEMMA Somebody == None \notin People
  BY NobodyAssumption DEF People

Others(c) == \A d \in Calls \ {c} : call'[d] = call[d]

SameSlice(c) ==
    /\ call'[c].op = call[c].op /\ call'[c].merged = call[c].merged
    /\ call'[c].parts = call[c].parts /\ call'[c].tail = call[c].tail
    /\ call'[c].ids = call[c].ids

SameProgress(c) ==
    /\ call'[c].users = call[c].users /\ call'[c].agents = call[c].agents
    /\ call'[c].at = call[c].at /\ call'[c].left = call[c].left
    /\ call'[c].pending = call[c].pending

LEMMA CallGoes ==
    ASSUME CallsTyped, NEW c \in Calls, NEW new \in CallType,
           call' = [call EXCEPT ![c] = new]
    PROVE  call' \in [Calls -> CallType] /\ call'[c] = new /\ Others(c)
  BY DEF CallsTyped, Others

LEMMA PcMoves ==
    ASSUME CallsTyped, NEW c \in Calls, NEW p \in Phase,
           call' = [call EXCEPT ![c].pc = p]
    PROVE  /\ call' \in [Calls -> CallType] /\ call'[c].pc = p
           /\ Others(c) /\ SameSlice(c) /\ SameProgress(c)
  <1>1. call[c] \in CallType
    BY DEF CallsTyped
  <1>2. [call[c] EXCEPT !.pc = p] \in CallType
    BY <1>1 DEF CallType
  <1>3. call' = [call EXCEPT ![c] = [call[c] EXCEPT !.pc = p]]
    BY DEF CallsTyped
  <1>4. /\ call' \in [Calls -> CallType] /\ call'[c] = [call[c] EXCEPT !.pc = p]
        /\ Others(c)
    BY <1>2, <1>3, CallGoes
  <1>5. QED
    BY <1>1, <1>4 DEF SameSlice, SameProgress, CallType

LEMMA RestingIs ==
    /\ \A p \in Phase : [Resting EXCEPT !.pc = p] \in CallType
    /\ \A p \in Phase, op \in Op : [Resting EXCEPT !.pc = p, !.op = op] \in CallType
    /\ Resting \in CallType
  <1>1. <<>> \in Seq(Part) /\ <<>> \in Seq(Nat)
    OBVIOUS
  <1>2. QED
    BY <1>1 DEF Resting, CallType, Phase, Op

\* A call that is as good as new.
Rested(c) ==
    /\ call'[c].merged = {} /\ call'[c].parts = <<>> /\ call'[c].tail = {}
    /\ call'[c].ids = <<>> /\ call'[c].users = 0 /\ call'[c].agents = 0
    /\ call'[c].at = 0 /\ call'[c].left = {} /\ call'[c].pending = None

LEMMA SendDoes ==
    ASSUME IInv, NEW c \in Calls, NEW op \in Op, Send(c, op)
    PROVE  /\ call' \in [Calls -> CallType] /\ Others(c) /\ Rested(c)
           /\ call'[c].pc = "queued" /\ call'[c].op = op
           /\ call[c].pc \in {"idle", "done", "failed"}
           /\ sends' = [sends EXCEPT ![c] = @ + 1] /\ sends[c] < MaxSends[c]
           /\ exposed' = IF sends[c] > 0 THEN exposed \cup Payload[c] ELSE exposed
           /\ UNCHANGED <<setting, buffer, cells, lock, acked, started, episodes, extracted>>
  <1>1. [Resting EXCEPT !.pc = "queued", !.op = op] \in CallType
    BY RestingIs DEF Phase
  <1>2. call' = [call EXCEPT ![c] = [Resting EXCEPT !.pc = "queued", !.op = op]]
    BY DEF Send
  <1>3. /\ call' \in [Calls -> CallType] /\ Others(c)
        /\ call'[c] = [Resting EXCEPT !.pc = "queued", !.op = op]
    BY <1>1, <1>2, CallGoes DEF IInv
  <1>4. QED
    BY <1>3 DEF Send, Rested, Resting

LEMMA EnterDoes ==
    ASSUME IInv, NEW c \in Calls, Enter(c)
    PROVE  /\ call' \in [Calls -> CallType] /\ Others(c) /\ SameSlice(c) /\ SameProgress(c)
           /\ call[c].pc = "queued" /\ call'[c].pc = "locked"
           /\ lock = None /\ lock' = c
           /\ UNCHANGED <<setting, buffer, cells, sends, acked, started, episodes, extracted,
                          exposed>>
  BY PcMoves DEF Enter, At, IInv, Phase

\* The four ways a call is answered.
Answers(c) == Skip(c) \/ NothingToFlush(c) \/ Accumulated(c) \/ Return(c)

LEMMA AnswerDoes ==
    ASSUME IInv, NEW c \in Calls, Answers(c)
    PROVE  /\ call' \in [Calls -> CallType] /\ Others(c) /\ SameSlice(c) /\ SameProgress(c)
           /\ call[c].pc \in {"locked", "read", "kept", "cleared"} /\ call'[c].pc = "done"
           /\ lock' = None /\ acked' = acked \cup {c}
           /\ UNCHANGED <<setting, buffer, cells, sends, started, episodes, extracted, exposed>>
  BY PcMoves DEF Answers, Skip, NothingToFlush, Accumulated, Return, UserPipelineAt,
                 Answer, At, IInv, Phase

LEMMA ReadDoes ==
    ASSUME IInv, NEW c \in Calls, Read(c)
    PROVE  /\ call' \in [Calls -> CallType] /\ Others(c) /\ SameProgress(c)
           /\ call[c].pc = "locked" /\ call'[c].pc = "read"
           /\ call'[c].merged = buffer \cup Kept(Payload[c])
           /\ call'[c].op = call[c].op /\ call'[c].tail = call[c].tail
           /\ call'[c].ids = call[c].ids
           /\ UNCHANGED <<setting, buffer, cells, lock, sends, acked, started, episodes,
                          extracted, exposed>>
  <1> DEFINE new == [call[c] EXCEPT !.pc = "read", !.merged = buffer \cup Kept(Payload[c])]
  <1>1. buffer \cup Kept(Payload[c]) \in SUBSET Messages
    BY CallIs DEF Kept, IInv, TypeOK
  <1>2. new \in CallType /\ call[c] \in CallType
    BY <1>1, CallIs, ZenonT(40) DEF CallType, Phase
  <1>3. call' = [call EXCEPT ![c] = new]
    BY DEF Read, IInv, CallsTyped
  <1>4. call' \in [Calls -> CallType] /\ call'[c] = new /\ Others(c)
    BY <1>2, <1>3, CallGoes DEF IInv
  <1>5. QED
    BY <1>2, <1>4 DEF Read, At, SameProgress, CallType

LEMMA DeferDoes ==
    ASSUME IInv, NEW c \in Calls, Defer(c)
    PROVE  /\ call' \in [Calls -> CallType] /\ Others(c) /\ SameSlice(c) /\ SameProgress(c)
           /\ call[c].pc = "read" /\ call'[c].pc = "keep" /\ call[c].op # "flush"
           /\ UNCHANGED <<setting, buffer, cells, lock, sends, acked, started, episodes,
                          extracted, exposed>>
  BY PcMoves DEF Defer, Defers, At, IInv, Phase

LEMMA DetectDoes ==
    ASSUME IInv, NEW c \in Calls, Detect(c)
    PROVE  \E cut \in Cuts(call[c].merged) :
           LET parts == Cells(call[c].merged, cut, call[c].op = "flush") IN
           /\ call' \in [Calls -> CallType] /\ Others(c) /\ SameProgress(c)
           /\ call[c].pc = "read" /\ call[c].merged # {}
           /\ call'[c].pc = IF parts = <<>> THEN "keep" ELSE "detected"
           /\ call'[c].op = call[c].op /\ call'[c].merged = call[c].merged
           /\ call'[c].parts = parts
           /\ call'[c].tail = Unclosed(call[c].merged, cut, call[c].op = "flush")
           /\ call'[c].tail \subseteq call[c].merged
           /\ call'[c].ids = call[c].ids
           /\ UNCHANGED <<setting, buffer, cells, lock, sends, acked, started, episodes,
                          extracted, exposed>>
  <1> DEFINE merged == call[c].merged
             final == call[c].op = "flush"
  <1>1. PICK cut \in Cuts(merged) :
           call' = [call EXCEPT
              ![c].pc = IF Cells(merged, cut, final) = <<>> THEN "keep" ELSE "detected",
              ![c].parts = Cells(merged, cut, final),
              ![c].tail = Unclosed(merged, cut, final)]
    BY DEF Detect
  <1> DEFINE parts == Cells(merged, cut, final)
             tail == Unclosed(merged, cut, final)
             p == IF parts = <<>> THEN "keep" ELSE "detected"
             new == [call[c] EXCEPT !.pc = p, !.parts = parts, !.tail = tail]
  <1>2. merged \in SUBSET Messages /\ final \in BOOLEAN /\ call[c] \in CallType
    BY CallIs
  <1>3. parts \in Seq((SUBSET merged) \ {{}})
    BY <1>2, CellsAre
  <1>4. parts \in Seq(Part)
    <2>1. ((SUBSET merged) \ {{}}) \subseteq Part
      BY <1>2 DEF Part
    <2>2. QED
      BY <1>3, <2>1, SeqMonotonic
  <1>5. tail \subseteq merged
    <2>1. Starts(merged, cut) \subseteq merged
      BY <1>2, Slices
    <2>2. QED
      BY <1>2, <2>1, SegmentHasStart DEF Unclosed, Segment
  <1> HIDE DEF parts, tail
  <1>6. p \in Phase
    BY DEF Phase
  <1> HIDE DEF p
  <1>7. new \in CallType
    BY <1>2, <1>4, <1>5, <1>6 DEF CallType
  <1>8. call' = [call EXCEPT ![c] = new]
    BY <1>1 DEF IInv, CallsTyped, parts, tail, p
  <1>9. call' \in [Calls -> CallType] /\ call'[c] = new /\ Others(c)
    BY <1>7, <1>8, CallGoes DEF IInv
  <1>10. /\ call'[c].pc = p /\ call'[c].parts = parts /\ call'[c].tail = tail
         /\ call'[c].op = call[c].op /\ call'[c].merged = call[c].merged
         /\ call'[c].ids = call[c].ids /\ SameProgress(c)
    BY <1>2, <1>9 DEF CallType, SameProgress
  <1>11. /\ call[c].pc = "read" /\ call[c].merged # {}
         /\ UNCHANGED <<setting, buffer, cells, lock, sends, acked, started, episodes,
                          extracted, exposed>>
    BY DEF Detect, At
  <1>12. QED
    BY <1>5, <1>9, <1>10, <1>11 DEF parts, tail, p

LEMMA KeepDoes ==
    ASSUME IInv, NEW c \in Calls, Keep(c)
    PROVE  /\ call' \in [Calls -> CallType] /\ Others(c) /\ SameSlice(c) /\ SameProgress(c)
           /\ call[c].pc = "keep" /\ call'[c].pc = "kept"
           /\ buffer' = call[c].merged
           /\ UNCHANGED <<setting, cells, lock, sends, acked, started, episodes, extracted,
                          exposed>>
  BY PcMoves DEF Keep, At, IInv, Phase

LEMMA TrimDoes ==
    ASSUME IInv, NEW c \in Calls, Trim(c)
    PROVE  /\ call' \in [Calls -> CallType] /\ Others(c) /\ SameSlice(c) /\ SameProgress(c)
           /\ call[c].pc = "inserted" /\ call'[c].pc = "cleared"
           /\ buffer' = LastOf(call[c].merged, Cardinality(call[c].tail))
           /\ UNCHANGED <<setting, cells, lock, sends, acked, started, episodes, extracted,
                          exposed>>
  BY PcMoves DEF Trim, At, IInv, Phase

\* The cells after the insertion of a call's: the old ones, then its own.
LEMMA InsertDoes ==
    ASSUME IInv, NEW c \in Calls, Insert(c)
    PROVE  /\ call' \in [Calls -> CallType] /\ Others(c) /\ SameProgress(c)
           /\ call[c].pc = "detected" /\ call'[c].pc = "inserted"
           /\ call'[c].op = call[c].op /\ call'[c].merged = call[c].merged
           /\ call'[c].parts = call[c].parts /\ call'[c].tail = call[c].tail
           /\ call'[c].ids \in Seq(DOMAIN cells')
           /\ cells' \in Seq(Memcell) /\ Len(cells') = Len(cells) + Len(call[c].parts)
           /\ DOMAIN cells \subseteq DOMAIN cells'
           /\ \A k \in DOMAIN cells : cells'[k] = cells[k]
           /\ \A k \in DOMAIN cells' \ DOMAIN cells :
                 \E i \in DOMAIN call[c].parts :
                    k = Len(cells) + i /\ cells'[k].items = call[c].parts[i]
           /\ \A i \in DOMAIN call[c].parts :
                 Len(cells) + i \in DOMAIN cells'
                 /\ cells'[Len(cells) + i].items = call[c].parts[i]
           /\ UNCHANGED <<setting, buffer, lock, sends, acked, started, episodes, extracted,
                          exposed>>
  <1> DEFINE parts == call[c].parts
             news == [i \in DOMAIN parts |->
                        [items |-> parts[i], names |-> Names(call[c].merged, parts, i)]]
             ids == [i \in DOMAIN parts |-> Len(cells) + i]
             new == [call[c] EXCEPT !.pc = "inserted", !.ids = ids]
  <1>1. /\ parts \in Seq(Part) /\ cells \in Seq(Memcell) /\ call[c] \in CallType
        /\ call[c].merged \subseteq Messages
    BY CallIs DEF IInv, TypeOK
  <1>2. /\ Len(parts) \in Nat /\ DOMAIN parts = 1..Len(parts)
        /\ Len(cells) \in Nat /\ DOMAIN cells = 1..Len(cells)
    BY <1>1, LenProperties
  <1>3. \A i \in DOMAIN parts : parts[i] \in Part
    BY <1>1, ElementOfSeq, <1>2
  <1> HIDE DEF parts
  <1>4. news \in Seq(Memcell) /\ Len(news) = Len(parts)
    <2>1. \A i \in DOMAIN parts : Names(call[c].merged, parts, i) \subseteq Messages
      BY <1>1 DEF Names
    <2>2. \A i \in DOMAIN parts :
             [items |-> parts[i], names |-> Names(call[c].merged, parts, i)] \in Memcell
      BY <1>3, <2>1 DEF Memcell, Part
    <2>3. QED
      BY <1>2, <2>2
  <1>5. \A i \in DOMAIN parts : news[i].items = parts[i]
    OBVIOUS
  <1> HIDE DEF news
  <1>6. cells' = cells \o news
    BY DEF Insert, news, parts
  <1>7. /\ cells' \in Seq(Memcell) /\ Len(cells') = Len(cells) + Len(parts)
        /\ DOMAIN cells' = 1..(Len(cells) + Len(parts))
        /\ \A k \in 1..(Len(cells) + Len(parts)) :
              cells'[k] = IF k <= Len(cells) THEN cells[k] ELSE news[k - Len(cells)]
    <2>1. /\ cells' \in Seq(Memcell)
          /\ Len(cells') = Len(cells) + Len(news)
          /\ \A k \in 1..(Len(cells) + Len(news)) :
                cells'[k] = IF k <= Len(cells) THEN cells[k] ELSE news[k - Len(cells)]
      <3>1. /\ cells \o news \in Seq(Memcell)
            /\ Len(cells \o news) = Len(cells) + Len(news)
            /\ \A k \in 1..(Len(cells) + Len(news)) :
                  (cells \o news)[k] = IF k <= Len(cells) THEN cells[k] ELSE news[k - Len(cells)]
        BY <1>1, <1>4, ConcatProperties
      <3>2. QED
        BY <1>6, <3>1
    <2>2. DOMAIN cells' = 1..Len(cells')
      BY <2>1, LenProperties
    <2>3. QED
      BY <1>4, <2>1, <2>2
  <1>8. \A k \in DOMAIN cells : k \in DOMAIN cells' /\ cells'[k] = cells[k]
    BY <1>2, <1>7
  <1>9. \A i \in DOMAIN parts : Len(cells) + i \in DOMAIN cells'
                                /\ cells'[Len(cells) + i].items = parts[i]
    <2> SUFFICES ASSUME NEW i \in DOMAIN parts
                 PROVE  Len(cells) + i \in DOMAIN cells'
                        /\ cells'[Len(cells) + i].items = parts[i]
      OBVIOUS
    <2>1. /\ Len(cells) + i \in 1..(Len(cells) + Len(parts))
          /\ ~ (Len(cells) + i <= Len(cells)) /\ (Len(cells) + i) - Len(cells) = i
      BY <1>2
    <2>2. QED
      BY <1>5, <1>7, <2>1
  <1>10. \A k \in DOMAIN cells' \ DOMAIN cells :
            \E i \in DOMAIN parts : k = Len(cells) + i /\ cells'[k].items = parts[i]
    <2> SUFFICES ASSUME NEW k \in DOMAIN cells' \ DOMAIN cells
                 PROVE  \E i \in DOMAIN parts : k = Len(cells) + i
      BY <1>9
    <2>1. k - Len(cells) \in DOMAIN parts /\ k = Len(cells) + (k - Len(cells))
      BY <1>2, <1>7
    <2>2. QED
      BY <2>1
  <1>11. ids \in Seq(DOMAIN cells') /\ ids \in Seq(Nat)
    <2>1. \A i \in 1..Len(parts) : Len(cells) + i \in DOMAIN cells' /\ Len(cells) + i \in Nat
      BY <1>2, <1>9
    <2>2. ids = [i \in 1..Len(parts) |-> Len(cells) + i]
      BY <1>2
    <2>3. QED
      BY <1>2, <2>1, <2>2
  <1> HIDE DEF ids
  <1>12. new \in CallType
    BY <1>1, <1>11 DEF CallType, Phase
  <1>13. call' = [call EXCEPT ![c] = new]
    BY DEF Insert, ids, parts, IInv, CallsTyped
  <1>14. call' \in [Calls -> CallType] /\ call'[c] = new /\ Others(c)
    BY <1>12, <1>13, CallGoes DEF IInv
  <1>15. /\ call'[c].pc = "inserted" /\ call'[c].ids = ids /\ SameProgress(c)
         /\ call'[c].op = call[c].op /\ call'[c].merged = call[c].merged
         /\ call'[c].parts = call[c].parts /\ call'[c].tail = call[c].tail
    BY <1>1, <1>14 DEF CallType, SameProgress
  <1>16. call[c].pc = "detected"
         /\ UNCHANGED <<setting, buffer, lock, sends, acked, started, episodes, extracted,
                        exposed>>
    BY DEF Insert, At
  <1>17. QED
    BY <1>7, <1>8, <1>9, <1>10, <1>11, <1>14, <1>15, <1>16 DEF parts

-----------------------------------------------------------------------------
(* Steps of the pipelines *)

\* They move the progress of a call that is cleared, and nothing else of it.
PipelineFrame(c) ==
    /\ call' \in [Calls -> CallType] /\ Others(c) /\ SameSlice(c)
    /\ call[c].pc = "cleared" /\ call'[c].pc = "cleared"
    /\ UNCHANGED <<setting, buffer, cells, lock, sends, acked, exposed>>

\* The progress of a call becomes these five values.
Moves(c, u, a, n, l, p) ==
    call' = [call EXCEPT ![c] = [call[c] EXCEPT !.users = u, !.agents = a, !.at = n,
                                                !.left = l, !.pending = p]]

LEMMA ProgressGoes ==
    ASSUME IInv, NEW c \in Calls, call[c].pc = "cleared",
           NEW u \in Nat, NEW a \in Nat, NEW n \in Nat, NEW l \in SUBSET People,
           NEW p \in People \cup {None}, Moves(c, u, a, n, l, p),
           UNCHANGED <<setting, buffer, cells, lock, sends, acked, exposed>>
    PROVE  /\ PipelineFrame(c)
           /\ call'[c].users = u /\ call'[c].agents = a /\ call'[c].at = n
           /\ call'[c].left = l /\ call'[c].pending = p
  <1> DEFINE new == [call[c] EXCEPT !.users = u, !.agents = a, !.at = n,
                                    !.left = l, !.pending = p]
  <1>1. new \in CallType /\ call[c] \in CallType
    BY CallIs DEF CallType
  <1>2. call' \in [Calls -> CallType] /\ call'[c] = new /\ Others(c)
    BY <1>1, CallGoes DEF IInv, Moves
  <1>3. QED
    BY <1>1, <1>2 DEF PipelineFrame, SameSlice, CallType

LEMMA StartUserDoes ==
    ASSUME IInv, NEW c \in Calls, StartUser(c)
    PROVE  /\ PipelineFrame(c)
           /\ call[c].users < Len(call[c].ids)
           /\ call'[c].users = call[c].users + 1 /\ call'[c].agents = call[c].agents
           /\ call'[c].at = call[c].at /\ call'[c].left = call[c].left
           /\ call'[c].pending = call[c].pending
           /\ started' = started \cup {<<"user", call[c].ids[call[c].users + 1]>>}
           /\ UNCHANGED <<episodes, extracted>>
  <1>1. /\ call[c].pc = "cleared" /\ call[c].users < Len(call[c].ids)
        /\ started' = started \cup {<<"user", call[c].ids[call[c].users + 1]>>}
        /\ UNCHANGED <<setting, buffer, cells, lock, sends, acked, exposed>>
        /\ UNCHANGED <<episodes, extracted>>
    BY DEF StartUser, At
  <1>2. call' = [call EXCEPT ![c] =
                   [call[c] EXCEPT !.users = call[c].users + 1, !.agents = call[c].agents,
                                   !.at = call[c].at, !.left = call[c].left,
                                   !.pending = call[c].pending]]
    <2>1. call[c] \in CallType
      BY CallIs
    <2>2. [call[c] EXCEPT !.users = call[c].users + 1, !.agents = call[c].agents,
                          !.at = call[c].at, !.left = call[c].left, !.pending = call[c].pending]
            = [call[c] EXCEPT !.users = @ + 1]
      BY <2>1 DEF CallType
    <2>3. QED
      BY <2>2 DEF StartUser, IInv, CallsTyped
  <1>3. call[c].users + 1 \in Nat
    BY CallIs
  <1>4. /\ call[c].users + 1 \in Nat /\ call[c].agents \in Nat /\ call[c].at \in Nat
        /\ call[c].left \in SUBSET People
        /\ call[c].pending \in People \cup {None}
    BY <1>3, CallIs
  <1>5. Moves(c, call[c].users + 1, call[c].agents, call[c].at,
               call[c].left, call[c].pending)
    BY <1>2 DEF Moves
  <1>6. /\ PipelineFrame(c)
        /\ call'[c].users = call[c].users + 1 /\ call'[c].agents = call[c].agents /\ call'[c].at = call[c].at
        /\ call'[c].left = call[c].left
        /\ call'[c].pending = call[c].pending
    BY <1>1, <1>4, <1>5, ProgressGoes
  <1>7. QED
    BY <1>1, <1>6

LEMMA StartAgentDoes ==
    ASSUME IInv, NEW c \in Calls, StartAgent(c)
    PROVE  /\ PipelineFrame(c)
           /\ call[c].agents < Len(call[c].ids)
           /\ call'[c].users = call[c].users /\ call'[c].agents = call[c].agents + 1
           /\ call'[c].at = call[c].at /\ call'[c].left = call[c].left
           /\ call'[c].pending = call[c].pending
           /\ started' = started \cup {<<"agent", call[c].ids[call[c].agents + 1]>>}
           /\ UNCHANGED <<episodes, extracted>>
  <1>1. /\ call[c].pc = "cleared" /\ call[c].agents < Len(call[c].ids)
        /\ started' = started \cup {<<"agent", call[c].ids[call[c].agents + 1]>>}
        /\ UNCHANGED <<setting, buffer, cells, lock, sends, acked, exposed>>
        /\ UNCHANGED <<episodes, extracted>>
    BY DEF StartAgent, At
  <1>2. call' = [call EXCEPT ![c] =
                   [call[c] EXCEPT !.users = call[c].users, !.agents = call[c].agents + 1,
                                   !.at = call[c].at, !.left = call[c].left,
                                   !.pending = call[c].pending]]
    <2>1. call[c] \in CallType
      BY CallIs
    <2>2. [call[c] EXCEPT !.users = call[c].users, !.agents = call[c].agents + 1,
                          !.at = call[c].at, !.left = call[c].left, !.pending = call[c].pending]
            = [call[c] EXCEPT !.agents = @ + 1]
      BY <2>1 DEF CallType
    <2>3. QED
      BY <2>2 DEF StartAgent, IInv, CallsTyped
  <1>3. call[c].agents + 1 \in Nat
    BY CallIs
  <1>4. /\ call[c].users \in Nat /\ call[c].agents + 1 \in Nat /\ call[c].at \in Nat
        /\ call[c].left \in SUBSET People
        /\ call[c].pending \in People \cup {None}
    BY <1>3, CallIs
  <1>5. Moves(c, call[c].users, call[c].agents + 1, call[c].at,
               call[c].left, call[c].pending)
    BY <1>2 DEF Moves
  <1>6. /\ PipelineFrame(c)
        /\ call'[c].users = call[c].users /\ call'[c].agents = call[c].agents + 1 /\ call'[c].at = call[c].at
        /\ call'[c].left = call[c].left
        /\ call'[c].pending = call[c].pending
    BY <1>1, <1>4, <1>5, ProgressGoes, SMTT(30)
  <1>7. QED
    BY <1>1, <1>6

LEMMA OwnersAre ==
    ASSUME IInv, NEW k \in DOMAIN cells
    PROVE  Owners(k) \subseteq People
  <1>1. cells[k] \in Memcell
    BY DEF IInv, TypeOK
  <1>2. cells[k].items \subseteq Messages
    BY <1>1 DEF Memcell
  <1>3. QED
    BY <1>2 DEF Owners, People

LEMMA IdsAre ==
    ASSUME IInv, NEW c \in Calls, NEW i \in 1..Len(call[c].ids)
    PROVE  call[c].ids[i] \in DOMAIN cells
  BY CallIs, ElementOfSeq

LEMMA ExtractDoes ==
    ASSUME IInv, NEW c \in Calls, Extract(c)
    PROVE  /\ PipelineFrame(c)
           /\ call[c].at < Len(call[c].ids) /\ call[c].left = {} /\ call[c].pending = None
           /\ call[c].users = Len(call[c].ids)
           /\ call'[c].users = call[c].users /\ call'[c].agents = call[c].agents
           /\ call'[c].at = call[c].at + 1
           /\ call'[c].left = Owners(call[c].ids[call[c].at + 1])
           /\ call'[c].pending = None
           /\ UNCHANGED <<started, episodes, extracted>>
  <1>1. /\ call[c].pc = "cleared" /\ call[c].at < Len(call[c].ids)
        /\ call[c].left = {} /\ call[c].pending = None /\ call[c].users = Len(call[c].ids)
        /\ UNCHANGED <<setting, buffer, cells, lock, sends, acked, exposed>>
        /\ UNCHANGED <<started, episodes, extracted>>
    BY DEF Extract, UserPipelineAt, At
  <1>2. call[c].at + 1 \in 1..Len(call[c].ids)
    BY <1>1, CallIs
  <1>3. Owners(call[c].ids[call[c].at + 1]) \in SUBSET People
    BY <1>2, IdsAre, OwnersAre
  <1>4. call' = [call EXCEPT ![c] =
                   [call[c] EXCEPT !.users = call[c].users, !.agents = call[c].agents,
                                   !.at = call[c].at + 1,
                                   !.left = Owners(call[c].ids[call[c].at + 1]),
                                   !.pending = call[c].pending]]
    <2> DEFINE l == Owners(call[c].ids[call[c].at + 1])
    <2>1. call[c] \in CallType
      BY CallIs
    <2>2. call' = [call EXCEPT ![c].at = @ + 1, ![c].left = l]
      BY DEF Extract
    <2> HIDE DEF l
    <2>3. [call[c] EXCEPT !.users = call[c].users, !.agents = call[c].agents,
                          !.at = call[c].at + 1, !.left = l, !.pending = call[c].pending]
            = [call[c] EXCEPT !.at = @ + 1, !.left = l]
      BY <2>1 DEF CallType
    <2>4. call' = [call EXCEPT ![c] = [call[c] EXCEPT !.at = @ + 1, !.left = l]]
      BY <2>2 DEF IInv, CallsTyped
    <2>5. QED
      BY <2>3, <2>4 DEF l
  <1>5. call[c].at + 1 \in Nat
    BY <1>2
  <1>6. /\ call[c].users \in Nat /\ call[c].agents \in Nat /\ call[c].at + 1 \in Nat
        /\ Owners(call[c].ids[call[c].at + 1]) \in SUBSET People
        /\ call[c].pending \in People \cup {None}
    BY <1>3, <1>5, CallIs
  <1>7. Moves(c, call[c].users, call[c].agents, call[c].at + 1,
               Owners(call[c].ids[call[c].at + 1]), call[c].pending)
    BY <1>4 DEF Moves
  <1>8. /\ PipelineFrame(c)
        /\ call'[c].users = call[c].users /\ call'[c].agents = call[c].agents /\ call'[c].at = call[c].at + 1
        /\ call'[c].left = Owners(call[c].ids[call[c].at + 1])
        /\ call'[c].pending = call[c].pending
    BY <1>1, <1>6, <1>7, ProgressGoes, SMTT(30)
  <1>9. QED
    BY <1>1, <1>8

LEMMA WriteDoes ==
    ASSUME IInv, NEW c \in Calls, Write(c)
    PROVE  \E o \in call[c].left :
           /\ PipelineFrame(c)
           /\ call[c].pending = None
           /\ call'[c].users = call[c].users /\ call'[c].agents = call[c].agents
           /\ call'[c].at = call[c].at
           /\ call'[c].left = call[c].left \ {o} /\ call'[c].pending = o
           /\ episodes' = episodes \cup {<<call[c].ids[call[c].at], o>>}
           /\ UNCHANGED <<started, extracted>>
  <1>1. PICK o \in call[c].left :
           /\ episodes' = episodes \cup {<<call[c].ids[call[c].at], o>>}
           /\ call' = [call EXCEPT ![c].left = @ \ {o}, ![c].pending = o]
    BY DEF Write
  <1>2. /\ call[c].pc = "cleared" /\ call[c].pending = None
        /\ UNCHANGED <<setting, buffer, cells, lock, sends, acked, exposed>>
        /\ UNCHANGED <<started, extracted>>
    BY DEF Write, UserPipelineAt, At
  <1>3. call[c].left \ {o} \in SUBSET People /\ o \in People \cup {None}
    BY CallIs
  <1>4. call' = [call EXCEPT ![c] =
                   [call[c] EXCEPT !.users = call[c].users, !.agents = call[c].agents,
                                   !.at = call[c].at, !.left = call[c].left \ {o},
                                   !.pending = o]]
    <2>1. call[c] \in CallType
      BY CallIs
    <2>2. [call[c] EXCEPT !.users = call[c].users, !.agents = call[c].agents,
                          !.at = call[c].at, !.left = call[c].left \ {o}, !.pending = o]
            = [call[c] EXCEPT !.left = @ \ {o}, !.pending = o]
      BY <2>1 DEF CallType
    <2>3. call' = [call EXCEPT ![c] = [call[c] EXCEPT !.left = @ \ {o}, !.pending = o]]
      BY <1>1 DEF IInv, CallsTyped
    <2>4. QED
      BY <2>2, <2>3
  <1>5. /\ call[c].users \in Nat /\ call[c].agents \in Nat /\ call[c].at \in Nat
        /\ call[c].left \ {o} \in SUBSET People
        /\ o \in People \cup {None}
    BY <1>3, CallIs
  <1>6. Moves(c, call[c].users, call[c].agents, call[c].at,
               call[c].left \ {o}, o)
    BY <1>4 DEF Moves
  <1>7. /\ PipelineFrame(c)
        /\ call'[c].users = call[c].users /\ call'[c].agents = call[c].agents /\ call'[c].at = call[c].at
        /\ call'[c].left = call[c].left \ {o}
        /\ call'[c].pending = o
    BY <1>2, <1>5, <1>6, ProgressGoes
  <1>8. QED
    BY <1>1, <1>2, <1>7

LEMMA AnnounceDoes ==
    ASSUME IInv, NEW c \in Calls, Announce(c)
    PROVE  /\ PipelineFrame(c)
           /\ call[c].pending # None
           /\ call'[c].users = call[c].users /\ call'[c].agents = call[c].agents
           /\ call'[c].at = call[c].at
           /\ call'[c].left = call[c].left /\ call'[c].pending = None
           /\ extracted' = extracted \cup {<<call[c].ids[call[c].at], call[c].pending>>}
           /\ UNCHANGED <<started, episodes>>
  <1>1. /\ call[c].pc = "cleared" /\ call[c].pending # None
        /\ extracted' = extracted \cup {<<call[c].ids[call[c].at], call[c].pending>>}
        /\ UNCHANGED <<setting, buffer, cells, lock, sends, acked, exposed>>
        /\ UNCHANGED <<started, episodes>>
    BY DEF Announce, At
  <1>2. call' = [call EXCEPT ![c] =
                   [call[c] EXCEPT !.users = call[c].users, !.agents = call[c].agents,
                                   !.at = call[c].at, !.left = call[c].left,
                                   !.pending = None]]
    <2>1. call[c] \in CallType
      BY CallIs
    <2>2. [call[c] EXCEPT !.users = call[c].users, !.agents = call[c].agents,
                          !.at = call[c].at, !.left = call[c].left, !.pending = None]
            = [call[c] EXCEPT !.pending = None]
      BY <2>1 DEF CallType
    <2>3. QED
      BY <2>2 DEF Announce, IInv, CallsTyped
  <1>3. /\ call[c].users \in Nat /\ call[c].agents \in Nat /\ call[c].at \in Nat
        /\ call[c].left \in SUBSET People
        /\ None \in People \cup {None}
    BY CallIs
  <1>4. Moves(c, call[c].users, call[c].agents, call[c].at,
               call[c].left, None)
    BY <1>2 DEF Moves
  <1>5. /\ PipelineFrame(c)
        /\ call'[c].users = call[c].users /\ call'[c].agents = call[c].agents /\ call'[c].at = call[c].at
        /\ call'[c].left = call[c].left
        /\ call'[c].pending = None
    BY <1>1, <1>3, <1>4, ProgressGoes
  <1>6. QED
    BY <1>1, <1>5

-----------------------------------------------------------------------------
(* Failures *)

LEMMA FailDoes ==
    ASSUME IInv, NEW c \in Calls, Fail(c)
    PROVE  /\ call' \in [Calls -> CallType] /\ Others(c) /\ Rested(c)
           /\ call[c].pc \notin {"idle", "done", "failed"} /\ call'[c].pc = "failed"
           /\ lock' = IF lock = c THEN None ELSE lock
           /\ exposed' = exposed \cup Exposes(c)
           /\ started \subseteq started'
           /\ UNCHANGED <<setting, buffer, cells, sends, acked, episodes, extracted>>
  <1>1. [Resting EXCEPT !.pc = "failed"] \in CallType
    BY RestingIs DEF Phase
  <1>2. /\ call' = [call EXCEPT ![c] = [Resting EXCEPT !.pc = "failed"]]
        /\ call[c].pc \notin {"idle", "done", "failed"}
        /\ lock' = IF lock = c THEN None ELSE lock
        /\ exposed' = exposed \cup Exposes(c)
        /\ UNCHANGED <<setting, buffer, cells, sends, acked, episodes, extracted>>
    BY DEF Fail, Alive
  <1>3. started \subseteq started'
    BY DEF Fail
  <1>4. /\ call' \in [Calls -> CallType] /\ Others(c)
        /\ call'[c] = [Resting EXCEPT !.pc = "failed"]
    BY <1>1, <1>2, CallGoes DEF IInv
  <1>5. Rested(c) /\ call'[c].pc = "failed"
    BY <1>4 DEF Rested, Resting
  <1>6. QED
    BY <1>2, <1>3, <1>4, <1>5

LEMMA CrashDoes ==
    ASSUME IInv, Crash
    PROVE  /\ call' \in [Calls -> CallType]
           /\ \A c \in Calls : \/ call[c].pc \in {"idle", "done", "failed"} /\ call'[c] = call[c]
                               \/ /\ call[c].pc \notin {"idle", "done", "failed"}
                                  /\ call'[c].pc = "failed" /\ Rested(c)
           /\ lock' = None
           /\ exposed' = exposed \cup UNION {Exposes(c) : c \in Calls}
           /\ UNCHANGED <<setting, buffer, cells, sends, acked, started, episodes, extracted>>
  <1> DEFINE resting == [Resting EXCEPT !.pc = "failed"]
  <1>1. resting \in CallType
    BY RestingIs DEF Phase
  <1>2. call' = [c \in Calls |-> IF Alive(c) THEN resting ELSE call[c]]
    BY DEF Crash
  <1>3. /\ resting.pc = "failed" /\ resting.merged = {} /\ resting.parts = <<>>
        /\ resting.tail = {} /\ resting.ids = <<>> /\ resting.users = 0
        /\ resting.agents = 0 /\ resting.at = 0 /\ resting.left = {}
        /\ resting.pending = None
    BY DEF Resting
  <1> HIDE DEF resting
  <1>4. call' \in [Calls -> CallType]
    BY <1>1, <1>2 DEF IInv, CallsTyped
  <1>5. ASSUME NEW c \in Calls
        PROVE  \/ call[c].pc \in {"idle", "done", "failed"} /\ call'[c] = call[c]
               \/ /\ call[c].pc \notin {"idle", "done", "failed"}
                  /\ call'[c].pc = "failed" /\ Rested(c)
    <2>1. CASE Alive(c)
      <3>1. call'[c] = resting
        BY <1>2, <2>1
      <3>2. QED
        BY <1>3, <2>1, <3>1 DEF Alive, Rested
    <2>2. CASE ~Alive(c)
      BY <1>2, <2>2 DEF Alive
    <2>3. QED
      BY <2>1, <2>2
  <1>6. QED
    BY <1>4, <1>5 DEF Crash

-----------------------------------------------------------------------------
(* What a step leaves of the invariant *)

\* A call points into the memcell table.
Fits(c) ==
    /\ call[c].tail \subseteq call[c].merged
    /\ call[c].ids \in Seq(DOMAIN cells)
    /\ call[c].users <= Len(call[c].ids) /\ call[c].agents <= Len(call[c].ids)
    /\ call[c].at <= Len(call[c].ids)

\* The tables and the sets of events only grow.
Grows ==
    /\ setting' = setting
    /\ cells' \in Seq(Memcell) /\ DOMAIN cells \subseteq DOMAIN cells'
    /\ \A k \in DOMAIN cells : cells'[k] = cells[k]
    /\ started \subseteq started' /\ episodes \subseteq episodes' /\ extracted \subseteq extracted'

LEMMA OwnersStay ==
    ASSUME Grows, NEW k \in DOMAIN cells
    PROVE  Owners(k)' = Owners(k)
  BY DEF Grows, Owners

LEMMA FitsIs ==
    ASSUME IInv, NEW c \in Calls
    PROVE  Fits(c) /\ Detected(c) /\ Progressed(c)
  BY CallIs DEF IInv, Fits, Detection, Progress

\* A call whose ids and progress stay has told what it told.
LEMMA StillTold ==
    ASSUME IInv, NEW c \in Calls, Grows, SameProgress(c), call'[c].ids = call[c].ids
    PROVE  Told(c)' /\ call'[c].ids \in Seq(DOMAIN cells')
  <1>1. /\ Told(c) /\ call[c].ids \in Seq(DOMAIN cells)
        /\ call[c].at \in Nat /\ call[c].at <= Len(call[c].ids) /\ Len(call[c].ids) \in Nat
    BY FitsIs, CallIs DEF Progressed
  <1>2. call'[c].ids \in Seq(DOMAIN cells')
    BY <1>1, SeqMonotonic DEF Grows
  <1>3. ASSUME NEW i \in 1..call[c].at, NEW o \in Owners(call[c].ids[i])',
               i < call[c].at \/ o \notin call[c].left \cup {call[c].pending}
        PROVE  <<call[c].ids[i], o>> \in episodes' /\ <<call[c].ids[i], o>> \in extracted'
    <2>1. i \in 1..Len(call[c].ids)
      BY <1>1
    <2>2. PICK k \in DOMAIN cells : k = call[c].ids[i] /\ call'[c].ids[i] = k
      BY <2>1, IdsAre
    <2>3. o \in Owners(call[c].ids[i])
      BY <1>3, <2>2, OwnersStay DEF Owners, Grows
    <2>4. QED
      BY <1>1, <1>3, <2>3 DEF Told, Grows
  <1>4. \A i \in 1..call'[c].users : <<"user", call'[c].ids[i]>> \in started'
    BY <1>1 DEF Told, Grows, SameProgress
  <1>5. setting'.mode = "agent" =>
          \A i \in 1..call'[c].agents : <<"agent", call'[c].ids[i]>> \in started'
    BY <1>1 DEF Told, Grows, SameProgress
  <1>6. \A i \in 1..call'[c].at : \A o \in Owners(call[c].ids[i])' :
          i < call'[c].at \/ o \notin call'[c].left \cup {call'[c].pending} =>
              /\ <<call'[c].ids[i], o>> \in episodes'
              /\ <<call'[c].ids[i], o>> \in extracted'
    BY <1>3 DEF SameProgress
  <1>7. /\ call'[c].pending # None =>
              call'[c].at > 0 /\ <<call'[c].ids[call'[c].at], call'[c].pending>> \in episodes'
        /\ call'[c].left # {} => call'[c].at > 0
    BY <1>1 DEF Told, Grows, SameProgress
  <1>8. QED
    BY <1>2, <1>4, <1>5, <1>6, <1>7 DEF Told

\* A call that a step does not touch.
LEMMA StillGood ==
    ASSUME IInv, NEW c \in Calls, Grows, call'[c] = call[c]
    PROVE  Fits(c)' /\ Progressed(c)'
  <1>1. Told(c)' /\ call'[c].ids \in Seq(DOMAIN cells')
    BY StillTold DEF SameProgress
  <1>2. Fits(c)'
    BY <1>1, FitsIs DEF Fits
  <1>3. QED
    BY <1>1, <1>2, FitsIs DEF Progressed, Fresh, Finished, Grows

\* A call that keeps its slice and its progress and does not enter the last phases.
LEMMA StillFresh ==
    ASSUME IInv, NEW c \in Calls, Grows, SameProgress(c), call'[c].ids = call[c].ids,
           call'[c].tail \subseteq call'[c].merged,
           call'[c].pc \in {"queued", "locked"} => call'[c].merged = {},
           call[c].pc \notin {"inserted", "cleared", "done"},
           call'[c].pc \notin {"inserted", "cleared", "done"}
    PROVE  Fits(c)' /\ Progressed(c)'
  <1>1. Told(c)' /\ call'[c].ids \in Seq(DOMAIN cells')
    BY StillTold
  <1>2. Fits(c)'
    BY <1>1, FitsIs DEF Fits, SameProgress
  <1>3. Fresh(c)' /\ call'[c].ids = <<>>
    BY FitsIs DEF Progressed, Fresh, SameProgress
  <1>4. QED
    BY <1>1, <1>2, <1>3 DEF Progressed

\* A call that is sent again or given up.
LEMMA AnewIsGood ==
    ASSUME NEW c \in Calls, Rested(c),
           call'[c].pc \notin Inside \cup {"done"}
    PROVE  Fits(c)' /\ Progressed(c)' /\ Detected(c)'
  <1>1. Fits(c)'
    BY DEF Fits, Rested
  <1>2. Told(c)'
    BY DEF Told, Rested
  <1>3. Progressed(c)'
    BY <1>2 DEF Progressed, Rested, Fresh, Inside
  <1>4. QED
    BY <1>1, <1>3 DEF Detected, Inside

LEMMA OutsideIsDetected ==
    ASSUME NEW c \in Calls, call'[c].pc \notin Inside
    PROVE  Detected(c)'
  BY DEF Detected, Inside

\* The detector reads the slice and the setting alone.
LEMMA ViewStays ==
    ASSUME setting' = setting, NEW merged, NEW cut, NEW final
    PROVE  /\ Cuts(merged)' = Cuts(merged)
           /\ Cells(merged, cut, final)' = Cells(merged, cut, final)
           /\ Unclosed(merged, cut, final)' = Unclosed(merged, cut, final)
  <1>1. Chats(merged)' = Chats(merged)
    BY DEF Chats
  <1>2. Cuts(merged)' = Cuts(merged) /\ Starts(merged, cut)' = Starts(merged, cut)
    BY <1>1 DEF Cuts, Starts
  <1>3. QED
    BY <1>2 DEF Cells, Unclosed, Closed, Segment

\* The cells of the call hold what the detector made of its slice.
ByDetector(c) ==
    /\ call[c].parts # <<>>
    /\ \E cut \in Cuts(call[c].merged) :
          /\ call[c].parts = Cells(call[c].merged, cut, call[c].op = "flush")
          /\ call[c].tail = Unclosed(call[c].merged, cut, call[c].op = "flush")

LEMMA ByDetectorStays ==
    ASSUME NEW c \in Calls, setting' = setting, ByDetector(c),
           call'[c].op = call[c].op, call'[c].merged = call[c].merged,
           call'[c].parts = call[c].parts, call'[c].tail = call[c].tail
    PROVE  ByDetector(c)'
  <1>1. PICK cut \in Cuts(call[c].merged) :
          /\ call[c].parts = Cells(call[c].merged, cut, call[c].op = "flush")
          /\ call[c].tail = Unclosed(call[c].merged, cut, call[c].op = "flush")
    BY DEF ByDetector
  <1>2. PICK merged \in {call[c].merged}, final \in BOOLEAN : merged = call[c].merged /\ final = (call[c].op = "flush")
    OBVIOUS
  <1>3. /\ cut \in Cuts(merged)'
        /\ call[c].parts = Cells(merged, cut, final)'
        /\ call[c].tail = Unclosed(merged, cut, final)'
    BY <1>1, <1>2, ViewStays
  <1>4. call'[c].merged = merged /\ final = (call'[c].op = "flush")
    BY <1>2
  <1>5. Starts(merged, cut)' = Starts(call[c].merged, cut)'
    BY <1>4 DEF Starts, Chats
  <1>6. Cuts(merged)' = Cuts(call[c].merged)'
    BY <1>4 DEF Cuts, Chats
  <1>7. Cells(merged, cut, final)' = Cells(call[c].merged, cut, call[c].op = "flush")'
    BY <1>4, <1>5 DEF Cells
  <1>8. Unclosed(merged, cut, final)' = Unclosed(call[c].merged, cut, call[c].op = "flush")'
    BY <1>4, <1>5 DEF Unclosed
  <1>9. QED
    BY <1>3, <1>6, <1>7, <1>8 DEF ByDetector

LEMMA DetectedIs ==
    ASSUME NEW c \in Calls
    PROVE  Detected(c) <=>
              /\ call[c].pc \in {"read", "keep", "detected", "inserted"} =>
                    buffer \subseteq call[c].merged
              /\ call[c].pc = "kept" => buffer = call[c].merged
              /\ call[c].pc \in {"detected", "inserted"} => ByDetector(c)
              /\ call[c].pc = "inserted" =>
                    \A i \in DOMAIN call[c].parts : call[c].parts[i] \subseteq InCells
  BY DEF Detected, ByDetector

\* A call that a step does not touch, over a buffer and a table it does not touch.
LEMMA StillDetected ==
    ASSUME IInv, NEW c \in Calls, call'[c] = call[c], UNCHANGED <<setting, buffer, cells>>
    PROVE  Detected(c)'
  <1>1. call[c].pc \in {"detected", "inserted"} => ByDetector(c)'
    BY FitsIs, DetectedIs, ByDetectorStays
  <1>2. QED
    BY <1>1, FitsIs, DetectedIs DEF Detected, ByDetector, InCells

LEMMA Assembles ==
    ASSUME call' \in [Calls -> CallType],
           \A d \in Calls : Fits(d)' /\ Progressed(d)' /\ Detected(d)',
           Locking', sends' \in [Calls -> Nat], \A d \in Calls : sends'[d] <= MaxSends[d],
           setting' \in Settings, buffer' \subseteq Messages, cells' \in Seq(Memcell),
           lock' \in Calls \cup {None}, acked' \subseteq Calls, exposed' \subseteq Messages
    PROVE  IInv'
  <1>1. ASSUME NEW d \in Calls
        PROVE  /\ call'[d].pc \in Phase /\ call'[d].op \in Op
               /\ call'[d].merged \subseteq Messages
               /\ call'[d].tail \subseteq call'[d].merged
               /\ call'[d].ids \in Seq(DOMAIN cells')
               /\ call'[d].users \in 0..Len(call'[d].ids)
               /\ call'[d].agents \in 0..Len(call'[d].ids)
               /\ call'[d].at \in 0..Len(call'[d].ids)
    <2>1. call'[d] \in CallType /\ Fits(d)'
      OBVIOUS
    <2>2. /\ call'[d].users \in Nat /\ call'[d].agents \in Nat /\ call'[d].at \in Nat
          /\ call'[d].pc \in Phase /\ call'[d].op \in Op /\ call'[d].merged \subseteq Messages
          /\ call'[d].ids \in Seq(Nat)
      BY <2>1 DEF CallType
    <2>3. Len(call'[d].ids) \in Nat
      BY <2>2, LenProperties
    <2>4. QED
      BY <2>1, <2>2, <2>3 DEF Fits
  <1>2. \A d \in Calls : sends'[d] \in 0..MaxSends[d]
    BY BoundsAssumption
  <1>3. TypeOK'
    BY <1>1, <1>2 DEF TypeOK
  <1>4. QED
    BY <1>3 DEF IInv, CallsTyped, Detection, Progress

LEMMA OneGood ==
    ASSUME IInv, NEW c \in Calls, Grows, Others(c), Fits(c)', Progressed(c)'
    PROVE  \A d \in Calls : Fits(d)' /\ Progressed(d)'
  <1> SUFFICES ASSUME NEW d \in Calls PROVE Fits(d)' /\ Progressed(d)'
    OBVIOUS
  <1>1. CASE d = c
    BY <1>1
  <1>2. CASE d # c
    BY <1>2, StillGood DEF Others
  <1>3. QED
    BY <1>1, <1>2

\* The call that holds the lock steps: no other call is inside, before or after.
LEMMA HolderSteps ==
    ASSUME IInv, NEW c \in Calls, call[c].pc \in Inside, Others(c),
           lock' = IF call'[c].pc \in Inside THEN c ELSE None
    PROVE  Locking' /\ lock = c /\ \A d \in Calls \ {c} : Detected(d)'
  <1>1. lock = c
    BY DEF IInv, Locking
  <1>2. \A d \in Calls \ {c} : call'[d].pc \notin Inside
    BY <1>1 DEF IInv, Locking, Others
  <1>3. c # None
    BY CallIs
  <1>4. Locking'
    BY <1>2, <1>3, NobodyAssumption DEF Locking
  <1>5. QED
    BY <1>1, <1>2, <1>4, OutsideIsDetected

\* A step of the call that holds the lock, in a table that only grows.
LEMMA HolderKeeps ==
    ASSUME IInv, NEW c \in Calls, call[c].pc \in Inside, Others(c), Grows,
           call' \in [Calls -> CallType],
           lock' = IF call'[c].pc \in Inside THEN c ELSE None,
           Fits(c)', Progressed(c)', Detected(c)', UNCHANGED sends,
           buffer' \subseteq Messages, acked' \subseteq Calls, exposed' \subseteq Messages
    PROVE  IInv'
  <1>1. Locking' /\ \A d \in Calls : Detected(d)'
    BY HolderSteps
  <1>2. \A d \in Calls : Fits(d)' /\ Progressed(d)'
    BY OneGood
  <1>3. /\ sends' \in [Calls -> Nat] /\ \A d \in Calls : sends'[d] <= MaxSends[d]
        /\ setting' \in Settings
    BY BoundsAssumption DEF IInv, TypeOK, CallsTyped, Grows
  <1>4. cells' \in Seq(Memcell) /\ lock' \in Calls \cup {None}
    BY DEF Grows
  <1>5. QED
    BY <1>1, <1>2, <1>3, <1>4, Assembles

LEMMA SimpleTypes ==
    ASSUME IInv
    PROVE  /\ setting \in Settings /\ buffer \subseteq Messages /\ cells \in Seq(Memcell)
           /\ lock \in Calls \cup {None} /\ acked \subseteq Calls /\ exposed \subseteq Messages
           /\ sends \in [Calls -> Nat] /\ \A d \in Calls : sends[d] <= MaxSends[d]
  BY BoundsAssumption DEF IInv, TypeOK, CallsTyped

LEMMA NothingGrows ==
    ASSUME IInv, UNCHANGED <<setting, cells, episodes, extracted>>, started \subseteq started'
    PROVE  Grows
  BY SimpleTypes DEF Grows

LEMMA ExposesAre ==
    ASSUME IInv, NEW c \in Calls
    PROVE  Exposes(c) \subseteq Messages
  <1>1. call[c].parts \in Seq(Part)
    BY CallIs
  <1>2. \A i \in DOMAIN call[c].parts : call[c].parts[i] \subseteq Messages
    BY <1>1, ElementOfSeq, LenProperties DEF Part
  <1>3. QED
    BY <1>2 DEF Exposes

LEMMA SendKeeps ==
    ASSUME IInv, NEW c \in Calls, NEW op \in Op, Send(c, op)
    PROVE  IInv'
  <1>1. /\ call' \in [Calls -> CallType] /\ Others(c) /\ Rested(c)
        /\ call'[c].pc = "queued" /\ call[c].pc \in {"idle", "done", "failed"}
        /\ sends' = [sends EXCEPT ![c] = @ + 1] /\ sends[c] < MaxSends[c]
        /\ exposed' = IF sends[c] > 0 THEN exposed \cup Payload[c] ELSE exposed
        /\ UNCHANGED <<setting, buffer, cells, lock, acked, started, episodes, extracted>>
    BY SendDoes
  <1>2. Grows
    BY <1>1, NothingGrows
  <1>3. Fits(c)' /\ Progressed(c)' /\ Detected(c)'
    BY <1>1, AnewIsGood DEF Inside
  <1>4. \A d \in Calls : Fits(d)' /\ Progressed(d)'
    BY <1>1, <1>2, <1>3, OneGood
  <1>5. ASSUME NEW d \in Calls PROVE Detected(d)'
    <2>1. CASE d = c
      BY <1>3, <2>1
    <2>2. CASE d # c
      <3>1. call'[d] = call[d]
        BY <1>1, <2>2 DEF Others
      <3>2. QED
        BY <1>1, <3>1, StillDetected
    <2>3. QED
      BY <2>1, <2>2
  <1>6. Locking'
    <2>1. call[c].pc \notin Inside /\ call'[c].pc \notin Inside
      BY <1>1 DEF Inside
    <2>2. QED
      BY <1>1, <2>1 DEF IInv, Locking, Others
  <1>7. sends' \in [Calls -> Nat] /\ \A d \in Calls : sends'[d] <= MaxSends[d]
    BY <1>1, SimpleTypes, BoundsAssumption
  <1>8. exposed' \subseteq Messages
    BY <1>1, SimpleTypes, CallIs
  <1>9. /\ setting' \in Settings /\ buffer' \subseteq Messages /\ cells' \in Seq(Memcell)
        /\ lock' \in Calls \cup {None} /\ acked' \subseteq Calls
    BY <1>1, SimpleTypes
  <1>10. QED
    BY <1>1, <1>4, <1>5, <1>6, <1>7, <1>8, <1>9, Assembles

LEMMA EnterKeeps ==
    ASSUME IInv, NEW c \in Calls, Enter(c)
    PROVE  IInv'
  <1>1. /\ call' \in [Calls -> CallType] /\ Others(c) /\ SameSlice(c) /\ SameProgress(c)
        /\ call[c].pc = "queued" /\ call'[c].pc = "locked"
        /\ lock = None /\ lock' = c
        /\ UNCHANGED <<setting, buffer, cells, sends, acked, started, episodes, extracted,
                       exposed>>
    BY EnterDoes
  <1>2. Grows
    BY <1>1, NothingGrows
  <1>3. Fits(c)' /\ Progressed(c)'
    <2>1. call'[c].tail \subseteq call'[c].merged /\ call'[c].merged = {}
      BY <1>1, CallIs, FitsIs DEF SameSlice, Progressed
    <2>2. QED
      BY <1>1, <1>2, <2>1, StillFresh DEF SameSlice
  <1>4. \A d \in Calls : Fits(d)' /\ Progressed(d)'
    BY <1>1, <1>2, <1>3, OneGood
  <1>5. \A d \in Calls \ {c} : call'[d].pc \notin Inside
    BY <1>1, NobodyAssumption DEF IInv, Locking, Others
  <1>6. \A d \in Calls : Detected(d)'
    <2>1. Detected(c)'
      BY <1>1 DEF Detected
    <2>2. QED
      BY <1>5, <2>1, OutsideIsDetected
  <1>7. Locking'
    BY <1>1, <1>5 DEF Locking, Inside
  <1>8. QED
    BY <1>1, <1>4, <1>6, <1>7, SimpleTypes, Assembles

LEMMA AnswerKeeps ==
    ASSUME IInv, NEW c \in Calls, Answers(c)
    PROVE  IInv'
  <1>1. /\ call' \in [Calls -> CallType] /\ Others(c) /\ SameSlice(c) /\ SameProgress(c)
        /\ call[c].pc \in {"locked", "read", "kept", "cleared"} /\ call'[c].pc = "done"
        /\ lock' = None /\ acked' = acked \cup {c}
        /\ UNCHANGED <<setting, buffer, cells, sends, started, episodes, extracted, exposed>>
    BY AnswerDoes
  <1>2. Grows
    BY <1>1, NothingGrows
  <1>3. Told(c)' /\ call'[c].ids \in Seq(DOMAIN cells')
    BY <1>1, <1>2, StillTold DEF SameSlice
  <1>4. Fits(c)'
    BY <1>1, <1>3, FitsIs DEF Fits, SameSlice, SameProgress
  <1>5. Finished(c)'
    <2>1. CASE call[c].pc \in {"locked", "read", "kept"}
      <3>1. Fresh(c) /\ call[c].ids = <<>>
        BY <2>1, FitsIs DEF Progressed
      <3>2. QED
        BY <1>1, <3>1 DEF Fresh, Finished, SameSlice, SameProgress
    <2>2. CASE call[c].pc = "cleared"
      <3>1. Return(c)
        BY <2>2 DEF Answers, Skip, NothingToFlush, Accumulated, At
      <3>2. /\ call[c].users = Len(call[c].ids) /\ call[c].at = Len(call[c].ids)
            /\ call[c].left = {} /\ call[c].pending = None
            /\ setting.mode = "agent" => call[c].agents = Len(call[c].ids)
        BY <3>1 DEF Return, UserPipelineAt, AgentsDone
      <3>3. QED
        BY <1>1, <3>2 DEF Finished, SameSlice, SameProgress
    <2>3. QED
      BY <1>1, <2>1, <2>2
  <1>6. Progressed(c)'
    BY <1>1, <1>3, <1>5 DEF Progressed
  <1>7. Detected(c)'
    BY <1>1 DEF Detected
  <1>8. call[c].pc \in Inside /\ lock' = IF call'[c].pc \in Inside THEN c ELSE None
    BY <1>1 DEF Inside
  <1>9. QED
    BY <1>1, <1>2, <1>4, <1>6, <1>7, <1>8, SimpleTypes, HolderKeeps

LEMMA FailKeeps ==
    ASSUME IInv, NEW c \in Calls, Fail(c)
    PROVE  IInv'
  <1>1. /\ call' \in [Calls -> CallType] /\ Others(c) /\ Rested(c)
        /\ call'[c].pc = "failed"
        /\ lock' = IF lock = c THEN None ELSE lock
        /\ exposed' = exposed \cup Exposes(c)
        /\ started \subseteq started'
        /\ UNCHANGED <<setting, buffer, cells, sends, acked, episodes, extracted>>
    BY FailDoes
  <1>2. Grows
    BY <1>1, NothingGrows
  <1>3. Fits(c)' /\ Progressed(c)' /\ Detected(c)'
    BY <1>1, AnewIsGood DEF Inside
  <1>4. \A d \in Calls : Fits(d)' /\ Progressed(d)'
    BY <1>1, <1>2, <1>3, OneGood
  <1>5. \A d \in Calls : Detected(d)'
    BY <1>1, <1>3, StillDetected DEF Others
  <1>6. Locking'
    <2>1. call'[c].pc \notin Inside
      BY <1>1 DEF Inside
    <2>2. CASE lock = c
      BY <1>1, <2>1, <2>2, NobodyAssumption DEF IInv, Locking, Others
    <2>3. CASE lock # c
      BY <1>1, <2>1, <2>3 DEF IInv, Locking, Others
    <2>4. QED
      BY <2>2, <2>3
  <1>7. exposed' \subseteq Messages
    BY <1>1, SimpleTypes, ExposesAre
  <1>8. lock' \in Calls \cup {None}
    BY <1>1, SimpleTypes
  <1>9. QED
    BY <1>1, <1>4, <1>5, <1>6, <1>7, <1>8, SimpleTypes, Assembles

LEMMA CrashKeeps ==
    ASSUME IInv, Crash
    PROVE  IInv'
  <1>1. /\ call' \in [Calls -> CallType]
        /\ \A c \in Calls : \/ call[c].pc \in {"idle", "done", "failed"} /\ call'[c] = call[c]
                            \/ call'[c].pc = "failed" /\ Rested(c)
        /\ lock' = None
        /\ exposed' = exposed \cup UNION {Exposes(c) : c \in Calls}
        /\ UNCHANGED <<setting, buffer, cells, sends, acked, started, episodes, extracted>>
    BY CrashDoes
  <1>2. Grows
    BY <1>1, NothingGrows
  <1>3. ASSUME NEW d \in Calls
        PROVE  Fits(d)' /\ Progressed(d)' /\ Detected(d)' /\ call'[d].pc \notin Inside
    <2>1. CASE call[d].pc \in {"idle", "done", "failed"} /\ call'[d] = call[d]
      BY <1>2, <2>1, StillGood, OutsideIsDetected DEF Inside
    <2>2. CASE call'[d].pc = "failed" /\ Rested(d)
      BY <2>2, AnewIsGood DEF Inside
    <2>3. QED
      BY <1>1, <2>1, <2>2
  <1>4. Locking'
    BY <1>1, <1>3, NobodyAssumption DEF Locking
  <1>5. exposed' \subseteq Messages
    BY <1>1, SimpleTypes, ExposesAre
  <1>6. QED
    BY <1>1, <1>3, <1>4, <1>5, SimpleTypes, Assembles

LEMMA ReadKeeps ==
    ASSUME IInv, NEW c \in Calls, Read(c)
    PROVE  IInv'
  <1>1. /\ call' \in [Calls -> CallType] /\ Others(c) /\ SameProgress(c)
        /\ call[c].pc = "locked" /\ call'[c].pc = "read"
        /\ call'[c].merged = buffer \cup Kept(Payload[c])
        /\ call'[c].tail = call[c].tail /\ call'[c].ids = call[c].ids
        /\ UNCHANGED <<setting, buffer, cells, lock, sends, acked, started, episodes,
                       extracted, exposed>>
    BY ReadDoes
  <1>2. Grows
    BY <1>1, NothingGrows
  <1>3. call'[c].tail \subseteq call'[c].merged
    BY <1>1, CallIs, FitsIs DEF Progressed
  <1>4. Fits(c)' /\ Progressed(c)'
    BY <1>1, <1>2, <1>3, StillFresh
  <1>5. Detected(c)'
    BY <1>1 DEF Detected
  <1>6. call[c].pc \in Inside /\ call'[c].pc \in Inside /\ lock = c
    BY <1>1 DEF Inside, IInv, Locking
  <1>7. QED
    BY <1>1, <1>2, <1>4, <1>5, <1>6, SimpleTypes, HolderKeeps

LEMMA DeferKeeps ==
    ASSUME IInv, NEW c \in Calls, Defer(c)
    PROVE  IInv'
  <1>1. /\ call' \in [Calls -> CallType] /\ Others(c) /\ SameSlice(c) /\ SameProgress(c)
        /\ call[c].pc = "read" /\ call'[c].pc = "keep"
        /\ UNCHANGED <<setting, buffer, cells, lock, sends, acked, started, episodes,
                       extracted, exposed>>
    BY DeferDoes
  <1>2. Grows
    BY <1>1, NothingGrows
  <1>3. call'[c].tail \subseteq call'[c].merged
    BY <1>1, CallIs DEF SameSlice
  <1>4. Fits(c)' /\ Progressed(c)'
    BY <1>1, <1>2, <1>3, StillFresh DEF SameSlice
  <1>5. Detected(c)'
    BY <1>1, FitsIs DEF Detected, SameSlice
  <1>6. call[c].pc \in Inside /\ call'[c].pc \in Inside /\ lock = c
    BY <1>1 DEF Inside, IInv, Locking
  <1>7. QED
    BY <1>1, <1>2, <1>4, <1>5, <1>6, SimpleTypes, HolderKeeps

LEMMA DetectKeeps ==
    ASSUME IInv, NEW c \in Calls, Detect(c)
    PROVE  IInv'
  <1>1. PICK cut \in Cuts(call[c].merged) :
           LET parts == Cells(call[c].merged, cut, call[c].op = "flush") IN
           /\ call' \in [Calls -> CallType] /\ Others(c) /\ SameProgress(c)
           /\ call[c].pc = "read" /\ call[c].merged # {}
           /\ call'[c].pc = IF parts = <<>> THEN "keep" ELSE "detected"
           /\ call'[c].op = call[c].op /\ call'[c].merged = call[c].merged
           /\ call'[c].parts = parts
           /\ call'[c].tail = Unclosed(call[c].merged, cut, call[c].op = "flush")
           /\ call'[c].tail \subseteq call[c].merged
           /\ call'[c].ids = call[c].ids
           /\ UNCHANGED <<setting, buffer, cells, lock, sends, acked, started, episodes,
                          extracted, exposed>>
    BY DetectDoes
  <1>2. Grows
    BY <1>1, NothingGrows
  <1>3. /\ call'[c].pc \in {"keep", "detected"} /\ call[c].pc = "read"
        /\ call'[c].tail \subseteq call'[c].merged /\ call'[c].merged = call[c].merged
        /\ SameProgress(c) /\ call'[c].ids = call[c].ids
        /\ call'[c].pc = "detected" => call'[c].parts # <<>>
    BY <1>1
  <1>4. Fits(c)' /\ Progressed(c)'
    BY <1>2, <1>3, StillFresh
  <1>5. call'[c].pc = "detected" => ByDetector(c)'
    <2>1. PICK merged \in {call[c].merged}, final \in BOOLEAN :
             merged = call[c].merged /\ final = (call[c].op = "flush")
      OBVIOUS
    <2>2. /\ cut \in Cuts(merged)'
          /\ call'[c].parts = Cells(merged, cut, final)'
          /\ call'[c].tail = Unclosed(merged, cut, final)'
      BY <1>1, <2>1, ViewStays
    <2>3. call'[c].merged = merged /\ final = (call'[c].op = "flush")
      BY <1>1, <2>1
    <2>4. Starts(merged, cut)' = Starts(call[c].merged, cut)'
      BY <2>3 DEF Starts, Chats
    <2>5. Cuts(merged)' = Cuts(call[c].merged)'
      BY <2>3 DEF Cuts, Chats
    <2>6. Cells(merged, cut, final)' = Cells(call[c].merged, cut, call[c].op = "flush")'
      BY <2>3, <2>4 DEF Cells
    <2>7. Unclosed(merged, cut, final)' = Unclosed(call[c].merged, cut, call[c].op = "flush")'
      BY <2>3, <2>4 DEF Unclosed
    <2>8. QED
      BY <1>3, <2>2, <2>5, <2>6, <2>7 DEF ByDetector
  <1>6. buffer \subseteq call[c].merged
    BY <1>3, FitsIs DEF Detected
  <1>7. buffer' = buffer
    BY <1>1
  <1>8. Detected(c)'
    BY <1>3, <1>5, <1>6, <1>7 DEF Detected, ByDetector
  <1>9. call[c].pc \in Inside /\ call'[c].pc \in Inside /\ lock = c
    BY <1>3 DEF Inside, IInv, Locking
  <1>10. /\ call' \in [Calls -> CallType] /\ Others(c)
         /\ UNCHANGED <<setting, buffer, cells, lock, sends, acked, exposed>>
    BY <1>1
  <1>11. QED
    BY <1>2, <1>4, <1>8, <1>9, <1>10, SimpleTypes, HolderKeeps

LEMMA KeepKeeps ==
    ASSUME IInv, NEW c \in Calls, Keep(c)
    PROVE  IInv'
  <1>1. /\ call' \in [Calls -> CallType] /\ Others(c) /\ SameSlice(c) /\ SameProgress(c)
        /\ call[c].pc = "keep" /\ call'[c].pc = "kept"
        /\ buffer' = call[c].merged
        /\ UNCHANGED <<setting, cells, lock, sends, acked, started, episodes, extracted,
                       exposed>>
    BY KeepDoes
  <1>2. Grows
    BY <1>1, NothingGrows
  <1>3. call'[c].tail \subseteq call'[c].merged /\ buffer' \subseteq Messages
    BY <1>1, CallIs DEF SameSlice
  <1>4. Fits(c)' /\ Progressed(c)'
    BY <1>1, <1>2, <1>3, StillFresh DEF SameSlice
  <1>5. Detected(c)'
    BY <1>1 DEF Detected, SameSlice
  <1>6. call[c].pc \in Inside /\ call'[c].pc \in Inside /\ lock = c
    BY <1>1 DEF Inside, IInv, Locking
  <1>7. QED
    BY <1>1, <1>2, <1>3, <1>4, <1>5, <1>6, SimpleTypes, HolderKeeps

LEMMA TrimKeeps ==
    ASSUME IInv, NEW c \in Calls, Trim(c)
    PROVE  IInv'
  <1>1. /\ call' \in [Calls -> CallType] /\ Others(c) /\ SameSlice(c) /\ SameProgress(c)
        /\ call[c].pc = "inserted" /\ call'[c].pc = "cleared"
        /\ buffer' = LastOf(call[c].merged, Cardinality(call[c].tail))
        /\ UNCHANGED <<setting, cells, lock, sends, acked, started, episodes, extracted,
                       exposed>>
    BY TrimDoes
  <1>2. Grows
    BY <1>1, NothingGrows
  <1>3. buffer' \subseteq Messages
    BY <1>1, CallIs DEF LastOf
  <1>4. Told(c)' /\ call'[c].ids \in Seq(DOMAIN cells')
    BY <1>1, <1>2, StillTold DEF SameSlice
  <1>5. Fits(c)' /\ Progressed(c)'
    BY <1>1, <1>4, FitsIs DEF Fits, Progressed, SameSlice, SameProgress
  <1>6. Detected(c)'
    BY <1>1 DEF Detected
  <1>7. call[c].pc \in Inside /\ call'[c].pc \in Inside /\ lock = c
    BY <1>1 DEF Inside, IInv, Locking
  <1>8. QED
    BY <1>1, <1>2, <1>3, <1>5, <1>6, <1>7, SimpleTypes, HolderKeeps

LEMMA InsertKeeps ==
    ASSUME IInv, NEW c \in Calls, Insert(c)
    PROVE  IInv'
  <1>1. /\ call' \in [Calls -> CallType] /\ Others(c) /\ SameProgress(c)
        /\ call[c].pc = "detected" /\ call'[c].pc = "inserted"
        /\ call'[c].op = call[c].op /\ call'[c].merged = call[c].merged
        /\ call'[c].parts = call[c].parts /\ call'[c].tail = call[c].tail
        /\ call'[c].ids \in Seq(DOMAIN cells')
        /\ cells' \in Seq(Memcell)
        /\ DOMAIN cells \subseteq DOMAIN cells'
        /\ \A k \in DOMAIN cells : cells'[k] = cells[k]
        /\ \A i \in DOMAIN call[c].parts :
              Len(cells) + i \in DOMAIN cells'
              /\ cells'[Len(cells) + i].items = call[c].parts[i]
        /\ UNCHANGED <<setting, buffer, lock, sends, acked, started, episodes, extracted,
                       exposed>>
    BY InsertDoes
  <1>2. Grows
    BY <1>1 DEF Grows
  <1>3. Fresh(c)'
    BY <1>1, FitsIs DEF Progressed, Fresh, SameProgress
  <1>4. Len(call'[c].ids) \in Nat
    BY <1>1, LenProperties
  <1>5. Fits(c)'
    BY <1>1, <1>3, <1>4, CallIs DEF Fits, Fresh
  <1>6. Told(c)'
    BY <1>3 DEF Told, Fresh
  <1>7. Progressed(c)'
    BY <1>1, <1>3, <1>6 DEF Progressed
  <1>8. ByDetector(c)'
    BY <1>1, FitsIs, DetectedIs, ByDetectorStays
  <1>9. \A i \in DOMAIN call'[c].parts : call'[c].parts[i] \subseteq InCells'
    BY <1>1 DEF InCells
  <1>10. buffer' \subseteq call'[c].merged
    BY <1>1, FitsIs DEF Detected
  <1>11. Detected(c)'
    BY <1>1, <1>8, <1>9, <1>10 DEF Detected, ByDetector
  <1>12. call[c].pc \in Inside /\ call'[c].pc \in Inside /\ lock = c
    BY <1>1 DEF Inside, IInv, Locking
  <1>13. QED
    BY <1>1, <1>2, <1>5, <1>7, <1>11, <1>12, SimpleTypes, HolderKeeps

LEMMA PipelineKeeps ==
    ASSUME IInv, NEW c \in Calls, PipelineFrame(c), Told(c)',
           started \subseteq started', episodes \subseteq episodes',
           extracted \subseteq extracted',
           call'[c].users <= Len(call[c].ids), call'[c].agents <= Len(call[c].ids),
           call'[c].at <= Len(call[c].ids)
    PROVE  IInv'
  <1>1. /\ call' \in [Calls -> CallType] /\ Others(c) /\ SameSlice(c)
        /\ call[c].pc = "cleared" /\ call'[c].pc = "cleared"
        /\ UNCHANGED <<setting, buffer, cells, lock, sends, acked, exposed>>
    BY DEF PipelineFrame
  <1>2. Grows
    BY <1>1, SimpleTypes DEF Grows
  <1>3. Fits(c)'
    BY <1>1, FitsIs DEF Fits, SameSlice
  <1>4. Progressed(c)'
    BY <1>1 DEF Progressed
  <1>5. Detected(c)'
    BY <1>1 DEF Detected
  <1>6. call[c].pc \in Inside /\ call'[c].pc \in Inside /\ lock = c
    BY <1>1 DEF Inside, IInv, Locking
  <1>7. QED
    BY <1>1, <1>2, <1>3, <1>4, <1>5, <1>6, SimpleTypes, HolderKeeps

\* The pipelines leave the users of the memcells of their call.
LEMMA OwnersKeep ==
    ASSUME NEW c \in Calls, PipelineFrame(c)
    PROVE  \A i \in Nat : Owners(call[c].ids[i])' = Owners(call[c].ids[i])
  BY DEF PipelineFrame, SameSlice, Owners

LEMMA ToldIs ==
    ASSUME IInv, NEW c \in Calls
    PROVE  /\ Told(c)
           /\ call[c].users \in Nat /\ call[c].agents \in Nat /\ call[c].at \in Nat
           /\ Len(call[c].ids) \in Nat
           /\ call[c].users <= Len(call[c].ids) /\ call[c].agents <= Len(call[c].ids)
           /\ call[c].at <= Len(call[c].ids)
  BY CallIs, FitsIs DEF Progressed

LEMMA StartUserKeeps ==
    ASSUME IInv, NEW c \in Calls, StartUser(c)
    PROVE  IInv'
  <1>1. /\ PipelineFrame(c)
        /\ call[c].users < Len(call[c].ids)
        /\ call'[c].users = call[c].users + 1 /\ call'[c].agents = call[c].agents
        /\ call'[c].at = call[c].at /\ call'[c].left = call[c].left
        /\ call'[c].pending = call[c].pending
        /\ started' = started \cup {<<"user", call[c].ids[call[c].users + 1]>>}
        /\ UNCHANGED <<episodes, extracted>>
    BY StartUserDoes
  <1>2. call'[c].ids = call[c].ids /\ setting' = setting
    BY <1>1 DEF PipelineFrame, SameSlice
  <1>3. \A i \in 1..(call[c].users + 1) : i \in 1..call[c].users \/ i = call[c].users + 1
    BY ToldIs
  <1>4. \A i \in 1..call'[c].users : <<"user", call'[c].ids[i]>> \in started'
    BY <1>1, <1>2, <1>3, ToldIs DEF Told
  <1>5. \A i \in 1..call[c].at : Owners(call[c].ids[i])' = Owners(call[c].ids[i])
    BY <1>1, OwnersKeep
  <1>6. \A i \in 1..call'[c].at : \A o \in Owners(call[c].ids[i])' :
          i < call'[c].at \/ o \notin call'[c].left \cup {call'[c].pending} =>
              /\ <<call'[c].ids[i], o>> \in episodes'
              /\ <<call'[c].ids[i], o>> \in extracted'
    BY <1>1, <1>2, <1>5, ToldIs DEF Told
  <1>7. Told(c)'
    BY <1>1, <1>2, <1>4, <1>6, ToldIs DEF Told
  <1>8. call'[c].users <= Len(call[c].ids)
    BY <1>1, ToldIs
  <1>9. QED
    BY <1>1, <1>7, <1>8, ToldIs, PipelineKeeps

LEMMA StartAgentKeeps ==
    ASSUME IInv, NEW c \in Calls, StartAgent(c)
    PROVE  IInv'
  <1>1. /\ PipelineFrame(c)
        /\ call[c].agents < Len(call[c].ids)
        /\ call'[c].users = call[c].users /\ call'[c].agents = call[c].agents + 1
        /\ call'[c].at = call[c].at /\ call'[c].left = call[c].left
        /\ call'[c].pending = call[c].pending
        /\ started' = started \cup {<<"agent", call[c].ids[call[c].agents + 1]>>}
        /\ UNCHANGED <<episodes, extracted>>
    BY StartAgentDoes
  <1>2. call'[c].ids = call[c].ids /\ setting' = setting
    BY <1>1 DEF PipelineFrame, SameSlice
  <1>3. \A i \in 1..(call[c].agents + 1) : i \in 1..call[c].agents \/ i = call[c].agents + 1
    BY ToldIs
  <1>4. setting'.mode = "agent" =>
          \A i \in 1..call'[c].agents : <<"agent", call'[c].ids[i]>> \in started'
    BY <1>1, <1>2, <1>3, ToldIs DEF Told
  <1>5. \A i \in 1..call[c].at : Owners(call[c].ids[i])' = Owners(call[c].ids[i])
    BY <1>1, OwnersKeep
  <1>6. \A i \in 1..call'[c].at : \A o \in Owners(call[c].ids[i])' :
          i < call'[c].at \/ o \notin call'[c].left \cup {call'[c].pending} =>
              /\ <<call'[c].ids[i], o>> \in episodes'
              /\ <<call'[c].ids[i], o>> \in extracted'
    BY <1>1, <1>2, <1>5, ToldIs DEF Told
  <1>7. Told(c)'
    BY <1>1, <1>2, <1>4, <1>6, ToldIs DEF Told
  <1>8. call'[c].agents <= Len(call[c].ids)
    BY <1>1, ToldIs
  <1>9. QED
    BY <1>1, <1>7, <1>8, ToldIs, PipelineKeeps

LEMMA ExtractKeeps ==
    ASSUME IInv, NEW c \in Calls, Extract(c)
    PROVE  IInv'
  <1>1. /\ PipelineFrame(c)
        /\ call[c].at < Len(call[c].ids) /\ call[c].left = {} /\ call[c].pending = None
        /\ call'[c].users = call[c].users /\ call'[c].agents = call[c].agents
        /\ call'[c].at = call[c].at + 1
        /\ call'[c].left = Owners(call[c].ids[call[c].at + 1])
        /\ call'[c].pending = None
        /\ UNCHANGED <<started, episodes, extracted>>
    BY ExtractDoes
  <1>2. call'[c].ids = call[c].ids /\ setting' = setting
    BY <1>1 DEF PipelineFrame, SameSlice
  <1>3. \A i \in 1..(call[c].at + 1) : Owners(call[c].ids[i])' = Owners(call[c].ids[i])
    BY <1>1, OwnersKeep
  <1>4. ASSUME NEW i \in 1..(call[c].at + 1), NEW o \in Owners(call[c].ids[i]),
               i < call[c].at + 1 \/ o \notin call'[c].left \cup {None}
        PROVE  <<call[c].ids[i], o>> \in episodes /\ <<call[c].ids[i], o>> \in extracted
    <2>1. i # call[c].at + 1
      BY <1>1, <1>4
    <2>2. i \in 1..call[c].at
      BY <2>1, ToldIs
    <2>3. o # None
      <3>1. i \in 1..Len(call[c].ids)
        BY <2>2, ToldIs
      <3>2. Owners(call[c].ids[i]) \subseteq People
        BY <3>1, IdsAre, OwnersAre
      <3>3. QED
        BY <3>2, Somebody
    <2>4. QED
      BY <1>1, <2>2, <2>3, ToldIs DEF Told
  <1>5. \A i \in 1..call'[c].at : \A o \in Owners(call[c].ids[i])' :
          i < call'[c].at \/ o \notin call'[c].left \cup {call'[c].pending} =>
              /\ <<call'[c].ids[i], o>> \in episodes'
              /\ <<call'[c].ids[i], o>> \in extracted'
    BY <1>1, <1>2, <1>3, <1>4
  <1>6. call'[c].at > 0 /\ call'[c].at <= Len(call[c].ids)
    BY <1>1, ToldIs
  <1>7. Told(c)'
    BY <1>1, <1>2, <1>5, <1>6, ToldIs DEF Told
  <1>8. QED
    BY <1>1, <1>6, <1>7, ToldIs, PipelineKeeps

LEMMA WriteKeeps ==
    ASSUME IInv, NEW c \in Calls, Write(c)
    PROVE  IInv'
  <1>1. PICK o \in call[c].left :
           /\ PipelineFrame(c)
           /\ call[c].pending = None
           /\ call'[c].users = call[c].users /\ call'[c].agents = call[c].agents
           /\ call'[c].at = call[c].at
           /\ call'[c].left = call[c].left \ {o} /\ call'[c].pending = o
           /\ episodes' = episodes \cup {<<call[c].ids[call[c].at], o>>}
           /\ UNCHANGED <<started, extracted>>
    BY WriteDoes
  <1>2. call'[c].ids = call[c].ids /\ setting' = setting
    BY <1>1 DEF PipelineFrame, SameSlice
  <1>3. \A i \in 1..call[c].at : Owners(call[c].ids[i])' = Owners(call[c].ids[i])
    BY <1>1, OwnersKeep
  <1>4. ASSUME NEW i \in 1..call[c].at, NEW q \in Owners(call[c].ids[i]),
               i < call[c].at \/ q \notin (call[c].left \ {o}) \cup {o}
        PROVE  <<call[c].ids[i], q>> \in episodes /\ <<call[c].ids[i], q>> \in extracted
    <2>1. i < call[c].at \/ q \notin call[c].left
      BY <1>4
    <2>2. i \in 1..Len(call[c].ids)
      BY ToldIs
    <2>3. Owners(call[c].ids[i]) \subseteq People
      BY <2>2, IdsAre, OwnersAre
    <2>4. q # None
      BY <2>3, Somebody
    <2>5. QED
      BY <1>1, <2>1, <2>4, ToldIs DEF Told
  <1>5. \A i \in 1..call'[c].at : \A q \in Owners(call[c].ids[i])' :
          i < call'[c].at \/ q \notin call'[c].left \cup {call'[c].pending} =>
              /\ <<call'[c].ids[i], q>> \in episodes'
              /\ <<call'[c].ids[i], q>> \in extracted'
    BY <1>1, <1>2, <1>3, <1>4
  <1>6. call[c].at > 0
    BY <1>1, ToldIs DEF Told
  <1>7. Told(c)'
    BY <1>1, <1>2, <1>5, <1>6, ToldIs DEF Told
  <1>8. QED
    BY <1>1, <1>7, ToldIs, PipelineKeeps

LEMMA AnnounceKeeps ==
    ASSUME IInv, NEW c \in Calls, Announce(c)
    PROVE  IInv'
  <1>1. /\ PipelineFrame(c)
        /\ call[c].pending # None
        /\ call'[c].users = call[c].users /\ call'[c].agents = call[c].agents
        /\ call'[c].at = call[c].at
        /\ call'[c].left = call[c].left /\ call'[c].pending = None
        /\ extracted' = extracted \cup {<<call[c].ids[call[c].at], call[c].pending>>}
        /\ UNCHANGED <<started, episodes>>
    BY AnnounceDoes
  <1>2. call'[c].ids = call[c].ids /\ setting' = setting
    BY <1>1 DEF PipelineFrame, SameSlice
  <1>3. \A i \in 1..call[c].at : Owners(call[c].ids[i])' = Owners(call[c].ids[i])
    BY <1>1, OwnersKeep
  <1>4. ASSUME NEW i \in 1..call[c].at, NEW o \in Owners(call[c].ids[i]),
               i < call[c].at \/ o \notin call[c].left \cup {None}
        PROVE  <<call[c].ids[i], o>> \in episodes /\ <<call[c].ids[i], o>> \in extracted'
    <2>1. CASE i < call[c].at \/ o \notin call[c].left \cup {call[c].pending}
      BY <1>1, <2>1, ToldIs DEF Told
    <2>2. CASE i = call[c].at /\ o = call[c].pending
      BY <1>1, <2>2, ToldIs DEF Told
    <2>3. i < call[c].at \/ i = call[c].at
      BY ToldIs
    <2>4. QED
      BY <1>4, <2>1, <2>2, <2>3
  <1>5. \A i \in 1..call'[c].at : \A o \in Owners(call[c].ids[i])' :
          i < call'[c].at \/ o \notin call'[c].left \cup {call'[c].pending} =>
              /\ <<call'[c].ids[i], o>> \in episodes'
              /\ <<call'[c].ids[i], o>> \in extracted'
    BY <1>1, <1>2, <1>3, <1>4
  <1>6. Told(c)'
    BY <1>1, <1>2, <1>5, ToldIs DEF Told
  <1>7. QED
    BY <1>1, <1>6, ToldIs, PipelineKeeps

-----------------------------------------------------------------------------
(* The invariant holds *)

LEMMA Starting == Init => IInv
  <1> SUFFICES ASSUME Init PROVE IInv
    OBVIOUS
  <1>1. /\ setting \in Settings /\ buffer = {} /\ cells = <<>> /\ lock = None
        /\ call = [c \in Calls |-> Resting] /\ sends = [c \in Calls |-> 0]
        /\ acked = {} /\ exposed = {}
    BY DEF Init
  <1>2. Resting \in CallType
    BY RestingIs
  <1>3. CallsTyped
    BY <1>1, <1>2 DEF CallsTyped
  <1>4. /\ Resting.pc = "idle" /\ Resting.op = "add" /\ Resting.merged = {}
        /\ Resting.parts = <<>> /\ Resting.tail = {} /\ Resting.ids = <<>>
        /\ Resting.users = 0 /\ Resting.agents = 0 /\ Resting.at = 0
        /\ Resting.left = {} /\ Resting.pending = None
    BY DEF Resting
  <1>5. ASSUME NEW c \in Calls
        PROVE  /\ call[c].pc = "idle" /\ call[c].op = "add" /\ call[c].merged = {}
               /\ call[c].parts = <<>> /\ call[c].tail = {} /\ call[c].ids = <<>>
               /\ call[c].users = 0 /\ call[c].agents = 0 /\ call[c].at = 0
               /\ call[c].left = {} /\ call[c].pending = None
    BY <1>1, <1>4
  <1>6. \A c \in Calls : sends[c] \in 0..MaxSends[c]
    BY <1>1, BoundsAssumption
  <1>7. <<>> \in Seq(Memcell) /\ <<>> \in Seq(DOMAIN cells) /\ Len(<<>>) = 0
    OBVIOUS
  <1>8. TypeOK
    <2>1. ASSUME NEW c \in Calls
          PROVE  /\ call[c].pc \in Phase /\ call[c].op \in Op
                 /\ call[c].merged \subseteq Messages
                 /\ call[c].tail \subseteq call[c].merged
                 /\ call[c].ids \in Seq(DOMAIN cells)
                 /\ call[c].users \in 0..Len(call[c].ids)
                 /\ call[c].agents \in 0..Len(call[c].ids)
                 /\ call[c].at \in 0..Len(call[c].ids)
      <3>1. call[c].ids = <<>> /\ Len(call[c].ids) = 0 /\ call[c].ids \in Seq(DOMAIN cells)
        BY <1>5, <1>7
      <3>2. QED
        BY <1>5, <3>1 DEF Phase, Op
    <2>2. cells \in Seq(Memcell) /\ lock \in Calls \cup {None}
      BY <1>1, <1>7
    <2>3. QED
      BY <1>1, <1>6, <2>1, <2>2 DEF TypeOK
  <1>9. Locking
    BY <1>1, <1>5, NobodyAssumption DEF Locking, Inside
  <1>10. Detection
    BY <1>5 DEF Detection, Detected
  <1>11. Progress
    BY <1>5 DEF Progress, Progressed, Told, Fresh
  <1>12. QED
    BY <1>3, <1>8, <1>9, <1>10, <1>11 DEF IInv

LEMMA Stuttering ==
    ASSUME IInv, UNCHANGED vars
    PROVE  IInv'
  <1>1. UNCHANGED <<setting, buffer, cells, lock, call, sends, acked, started, episodes,
                    extracted, exposed>>
    BY DEF vars
  <1>2. Grows
    BY <1>1, NothingGrows
  <1>3. \A d \in Calls : Fits(d)' /\ Progressed(d)' /\ Detected(d)'
    BY <1>1, <1>2, StillGood, StillDetected
  <1>4. Locking' /\ call' \in [Calls -> CallType]
    BY <1>1 DEF IInv, Locking, CallsTyped
  <1>5. QED
    BY <1>1, <1>3, <1>4, SimpleTypes, Assembles

LEMMA Stepping == IInv /\ [Next]_vars => IInv'
  <1> SUFFICES ASSUME IInv, [Next]_vars PROVE IInv'
    OBVIOUS
  <1>1. CASE UNCHANGED vars
    BY <1>1, Stuttering
  <1>2. CASE Crash
    BY <1>2, CrashKeeps
  <1>3. ASSUME NEW c \in Calls, \E op \in Op : Send(c, op)
        PROVE  IInv'
    BY <1>3, SendKeeps
  <1>4. ASSUME NEW c \in Calls, Boundary(c)
        PROVE  IInv'
    BY <1>4, EnterKeeps, AnswerKeeps, ReadKeeps, DeferKeeps, DetectKeeps, KeepKeeps,
       InsertKeeps, TrimKeeps DEF Boundary, Answers
  <1>5. ASSUME NEW c \in Calls, Pipelines(c)
        PROVE  IInv'
    BY <1>5, StartUserKeeps, StartAgentKeeps, ExtractKeeps, WriteKeeps, AnnounceKeeps,
       AnswerKeeps DEF Pipelines, Answers
  <1>6. ASSUME NEW c \in Calls, Fail(c)
        PROVE  IInv'
    BY <1>6, FailKeeps
  <1>7. QED
    BY <1>1, <1>2, <1>3, <1>4, <1>5, <1>6 DEF Next

LEMMA Always == Spec => []IInv
  <1>1. Init => IInv
    BY Starting
  <1>2. IInv /\ [Next]_vars => IInv'
    BY Stepping
  <1>3. QED
    BY <1>1, <1>2, PTL DEF Spec

\* Every variable keeps its type, whatever is sent, fails or dies: no call points past
\* the memcell table (memcell_repo.insert_many) or past the end of its own list of cells.
THEOREM TypeCorrect == Spec => []TypeOK
  <1>1. IInv => TypeOK
    BY DEF IInv
  <1>2. QED
    BY <1>1, Always, PTL

\* A call that returned (service/memorize.py, after the gather of the two pipelines) has
\* told both pipelines of each of its memcells and has written and announced an episode
\* for every user who spoke in it.
THEOREM EpisodesCorrect == Spec => []AnsweredCellsHaveEpisodes
  <1>1. ASSUME IInv PROVE AnsweredCellsHaveEpisodes
    <2> SUFFICES ASSUME NEW c \in Calls, At(c, "done"), NEW i \in DOMAIN call[c].ids
                 PROVE  LET k == call[c].ids[i] IN
                        /\ <<"user", k>> \in started
                        /\ setting.mode = "agent" => <<"agent", k>> \in started
                        /\ \A o \in Owners(k) : <<k, o>> \in episodes /\ <<k, o>> \in extracted
      BY DEF AnsweredCellsHaveEpisodes
    <2>1. Finished(c) /\ Told(c)
      BY <1>1, FitsIs DEF At, Progressed
    <2>2. i \in 1..Len(call[c].ids)
      BY <1>1, CallIs, LenProperties
    <2>3. Owners(call[c].ids[i]) \subseteq People
      BY <1>1, <2>2, IdsAre, OwnersAre
    <2>4. QED
      BY <2>1, <2>2, <2>3, Somebody DEF Finished, Told
  <1>2. QED
    BY <1>1, Always, PTL

-----------------------------------------------------------------------------
(* Messages stay: the buffer and the memcells together only grow *)

Slicing == {"read", "keep", "kept", "detected", "inserted"}

\* What an answered request is promised: its rows from its first chat message on are in
\* memcells, or in the buffer behind a chat message, where the next detection finds them.
Saved(c) == Headed(Kept(Payload[c])) \subseteq Headed(buffer) \cup InCells

\* A call carries its payload in its slice until the buffer or the memcells have it; a
\* flush puts back only a slice without chat messages, and leaves nothing when it closes
\* cells.
Carries(c) ==
    /\ call[c].pc \in Slicing => Kept(Payload[c]) \subseteq call[c].merged
    /\ call[c].pc = "cleared" => Saved(c)
    /\ call[c].op = "flush" => /\ call[c].pc \in {"keep", "kept"} => Chats(call[c].merged) = {}
                               /\ call[c].pc = "cleared" => buffer = {}

KInv ==
    /\ \A c \in Calls : Carries(c)
    /\ \A c \in acked : Saved(c)

LEMMA KeptStays ==
    ASSUME setting' = setting
    PROVE  /\ \A c \in Calls : Kept(Payload[c])' = Kept(Payload[c])
           /\ \A c \in Calls : Headed(Kept(Payload[c]))' = Headed(Kept(Payload[c]))
           /\ \A c \in Calls : call'[c].merged = call[c].merged =>
                 Chats(call[c].merged)' = Chats(call[c].merged)
  BY DEF Kept, Headed, Chats

LEMMA BufferHeads ==
    ASSUME setting' = setting
    PROVE  Headed(buffer)' = Headed(buffer')
  BY DEF Headed, Chats

\* A step keeps the setting, and the rows of the session behind a chat message.
LEMMA SavedStays ==
    ASSUME NEW c \in Calls, setting' = setting,
           Headed(buffer) \cup InCells \subseteq Headed(buffer)' \cup InCells', Saved(c)
    PROVE  Saved(c)'
  <1>1. Headed(Kept(Payload[c]))' = Headed(Kept(Payload[c]))
    BY KeptStays
  <1>2. QED
    BY <1>1 DEF Saved

\* A slice that goes into the buffer, or is in it, has the payload behind its chats.
LEMMA SliceSaves ==
    ASSUME NEW c \in Calls, Kept(Payload[c]) \subseteq buffer \/ Kept(Payload[c]) = {}
    PROVE  Saved(c)
  <1>1. Headed(Kept(Payload[c])) \subseteq Headed(buffer)
    <2>1. CASE Kept(Payload[c]) \subseteq buffer
      BY <2>1, HeadedGrows
    <2>2. CASE Kept(Payload[c]) = {}
      BY <2>2 DEF Headed
    <2>3. QED
      BY <2>1, <2>2
  <1>2. QED
    BY <1>1 DEF Saved

\* A call that a step does not touch, over a buffer and a table it does not touch.
LEMMA StillCarries ==
    ASSUME NEW c \in Calls, call'[c] = call[c], UNCHANGED <<setting, buffer, cells>>,
           Carries(c)
    PROVE  Carries(c)'
  <1>1. InCells' = InCells /\ Headed(buffer)' = Headed(buffer)
    BY BufferHeads DEF InCells
  <1>2. Saved(c) => Saved(c)'
    BY <1>1, SavedStays
  <1>3. /\ Kept(Payload[c])' = Kept(Payload[c])
        /\ Chats(call[c].merged)' = Chats(call[c].merged)
    BY KeptStays
  <1>4. QED
    BY <1>2, <1>3 DEF Carries

LEMMA KQuiet ==
    ASSUME IInv, KInv, NEW c \in Calls, Others(c), UNCHANGED <<setting, buffer, cells>>,
           Carries(c)', acked' \subseteq acked \cup {c}, c \in acked' \ acked => Saved(c)
    PROVE  KInv'
  <1>1. InCells' = InCells /\ Headed(buffer)' = Headed(buffer)
    BY BufferHeads DEF InCells
  <1>2. \A d \in Calls : Carries(d)'
    BY StillCarries DEF KInv, Others
  <1>3. ASSUME NEW d \in acked' PROVE Saved(d)'
    <2>1. d \in Calls /\ Saved(d)
      BY <1>3, SimpleTypes DEF KInv
    <2>2. QED
      BY <1>1, <2>1, SavedStays
  <1>4. QED
    BY <1>2, <1>3 DEF KInv

LEMMA KHolder ==
    ASSUME IInv, KInv, NEW c \in Calls, call[c].pc \in Inside, Others(c), setting' = setting,
           Headed(buffer) \cup InCells \subseteq Headed(buffer)' \cup InCells', Carries(c)',
           acked' = acked
    PROVE  KInv'
  <1>1. \A d \in Calls \ {c} : call'[d].pc \notin Inside
    BY DEF IInv, Locking, Others
  <1>2. \A d \in Calls \ {c} : Carries(d)'
    BY <1>1 DEF Carries, Inside, Slicing
  <1>3. ASSUME NEW d \in acked' PROVE Saved(d)'
    <2>1. d \in Calls /\ Saved(d)
      BY <1>3, SimpleTypes DEF KInv
    <2>2. QED
      BY <2>1, SavedStays
  <1>4. QED
    BY <1>2, <1>3 DEF KInv

LEMMA KSend ==
    ASSUME IInv, KInv, NEW c \in Calls, NEW op \in Op, Send(c, op)
    PROVE  KInv'
  <1>1. /\ Others(c) /\ call'[c].pc = "queued"
        /\ UNCHANGED <<setting, buffer, cells, acked>>
    BY SendDoes
  <1>2. Carries(c)'
    BY <1>1 DEF Carries, Slicing
  <1>3. QED
    BY <1>1, <1>2, KQuiet

LEMMA KEnter ==
    ASSUME IInv, KInv, NEW c \in Calls, Enter(c)
    PROVE  KInv'
  <1>1. /\ Others(c) /\ call'[c].pc = "locked"
        /\ UNCHANGED <<setting, buffer, cells, acked>>
    BY EnterDoes
  <1>2. Carries(c)'
    BY <1>1 DEF Carries, Slicing
  <1>3. QED
    BY <1>1, <1>2, KQuiet

LEMMA KAnswer ==
    ASSUME IInv, KInv, NEW c \in Calls, Answers(c)
    PROVE  KInv'
  <1>1. /\ Others(c) /\ call'[c].pc = "done" /\ acked' = acked \cup {c}
        /\ UNCHANGED <<setting, buffer, cells>>
    BY AnswerDoes
  <1>2. Carries(c)'
    BY <1>1 DEF Carries, Slicing
  <1>3. Carries(c)
    BY DEF KInv
  <1>4. ASSUME Skip(c) PROVE Saved(c)
    BY <1>4, SliceSaves DEF Skip
  <1>5. ASSUME NothingToFlush(c) PROVE Saved(c)
    BY <1>3, <1>5, SliceSaves DEF NothingToFlush, At, Carries, Slicing
  <1>6. ASSUME Accumulated(c) PROVE Saved(c)
    BY <1>3, <1>6, FitsIs, SliceSaves DEF Accumulated, At, Carries, Slicing, Detected
  <1>7. ASSUME Return(c) PROVE Saved(c)
    BY <1>3, <1>7 DEF Return, UserPipelineAt, At, Carries
  <1>8. Saved(c)
    BY <1>4, <1>5, <1>6, <1>7 DEF Answers
  <1>9. QED
    BY <1>1, <1>2, <1>8, KQuiet

LEMMA KRead ==
    ASSUME IInv, KInv, NEW c \in Calls, Read(c)
    PROVE  KInv'
  <1>1. /\ Others(c) /\ call'[c].pc = "read"
        /\ call'[c].merged = buffer \cup Kept(Payload[c])
        /\ UNCHANGED <<setting, buffer, cells, acked>>
    BY ReadDoes
  <1>2. Kept(Payload[c])' \subseteq call'[c].merged
    BY <1>1, KeptStays
  <1>3. Carries(c)'
    BY <1>1, <1>2 DEF Carries
  <1>4. QED
    BY <1>1, <1>3, KQuiet

\* The slice of a call that keeps it.
LEMMA SliceStays ==
    ASSUME NEW c \in Calls, setting' = setting, call[c].pc \in Slicing, Carries(c),
           call'[c].merged = call[c].merged
    PROVE  /\ Kept(Payload[c])' \subseteq call'[c].merged
           /\ Chats(call[c].merged)' = Chats(call[c].merged)
  BY KeptStays DEF Carries

LEMMA KDefer ==
    ASSUME IInv, KInv, NEW c \in Calls, Defer(c)
    PROVE  KInv'
  <1>1. /\ Others(c) /\ SameSlice(c) /\ call[c].pc = "read" /\ call'[c].pc = "keep"
        /\ call[c].op # "flush"
        /\ UNCHANGED <<setting, buffer, cells, acked>>
    BY DeferDoes
  <1>2. Carries(c)'
    BY <1>1, SliceStays DEF KInv, Carries, Slicing, SameSlice
  <1>3. QED
    BY <1>1, <1>2, KQuiet

LEMMA KDetect ==
    ASSUME IInv, KInv, NEW c \in Calls, Detect(c)
    PROVE  KInv'
  <1>1. PICK cut \in Cuts(call[c].merged) :
           LET parts == Cells(call[c].merged, cut, call[c].op = "flush") IN
           /\ call' \in [Calls -> CallType] /\ Others(c) /\ SameProgress(c)
           /\ call[c].pc = "read" /\ call[c].merged # {}
           /\ call'[c].pc = IF parts = <<>> THEN "keep" ELSE "detected"
           /\ call'[c].op = call[c].op /\ call'[c].merged = call[c].merged
           /\ call'[c].parts = parts
           /\ call'[c].tail = Unclosed(call[c].merged, cut, call[c].op = "flush")
           /\ call'[c].tail \subseteq call[c].merged
           /\ call'[c].ids = call[c].ids
           /\ UNCHANGED <<setting, buffer, cells, lock, sends, acked, started, episodes,
                          extracted, exposed>>
    BY DetectDoes
  <1>2. /\ Others(c) /\ call[c].pc = "read" /\ call'[c].pc \in {"keep", "detected"}
        /\ call'[c].op = call[c].op /\ call'[c].merged = call[c].merged
        /\ call[c].merged # {}
        /\ UNCHANGED <<setting, buffer, cells, acked>>
    BY <1>1
  <1>3. Carries(c)
    BY DEF KInv
  <1>4. ASSUME call[c].op = "flush", Chats(call[c].merged) # {} PROVE call'[c].pc # "keep"
    <2>1. call[c].merged \in SUBSET Messages
      BY CallIs
    <2>2. Cells(call[c].merged, cut, TRUE) # <<>>
      BY <1>4, <2>1, FinalCloses
    <2>3. (call[c].op = "flush") = TRUE
      BY <1>4
    <2>4. QED
      BY <1>1, <2>2, <2>3
  <1>5. Carries(c)'
    BY <1>2, <1>3, <1>4, SliceStays DEF Carries, Slicing
  <1>6. QED
    BY <1>2, <1>5, KQuiet

LEMMA KKeep ==
    ASSUME IInv, KInv, NEW c \in Calls, Keep(c)
    PROVE  KInv'
  <1>1. /\ Others(c) /\ SameSlice(c) /\ call[c].pc = "keep" /\ call'[c].pc = "kept"
        /\ buffer' = call[c].merged
        /\ UNCHANGED <<setting, cells, acked>>
    BY KeepDoes
  <1>2. Carries(c) /\ buffer \subseteq call[c].merged
    BY <1>1, FitsIs DEF KInv, Detected
  <1>3. Carries(c)'
    BY <1>1, <1>2, SliceStays DEF Carries, Slicing, SameSlice
  <1>4. InCells' = InCells /\ call[c].pc \in Inside
    BY <1>1 DEF InCells, Inside
  <1>5. Headed(buffer) \subseteq Headed(buffer)'
    BY <1>1, <1>2, HeadedGrows, BufferHeads
  <1>6. QED
    BY <1>1, <1>3, <1>4, <1>5, KHolder

LEMMA CellsGrow ==
    ASSUME DOMAIN cells \subseteq DOMAIN cells', \A k \in DOMAIN cells : cells'[k] = cells[k]
    PROVE  InCells \subseteq InCells'
  BY DEF InCells

LEMMA KInsert ==
    ASSUME IInv, KInv, NEW c \in Calls, Insert(c)
    PROVE  KInv'
  <1>1. /\ Others(c) /\ call[c].pc = "detected" /\ call'[c].pc = "inserted"
        /\ call'[c].op = call[c].op /\ call'[c].merged = call[c].merged
        /\ DOMAIN cells \subseteq DOMAIN cells'
        /\ \A k \in DOMAIN cells : cells'[k] = cells[k]
        /\ UNCHANGED <<setting, buffer, acked>>
    BY InsertDoes
  <1>2. InCells \subseteq InCells' /\ Headed(buffer)' = Headed(buffer)
    BY <1>1, CellsGrow, BufferHeads
  <1>3. Carries(c)'
    BY <1>1, SliceStays DEF KInv, Carries, Slicing
  <1>4. call[c].pc \in Inside
    BY <1>1 DEF Inside
  <1>5. QED
    BY <1>1, <1>2, <1>3, <1>4, KHolder

\* What the call of an inserted slice leaves in the buffer, and what is in the memcells.
LEMMA TrimLeaves ==
    ASSUME IInv, NEW c \in Calls, call[c].pc = "inserted"
    PROVE  LET tail == call[c].tail
               parts == call[c].parts
           IN  /\ LastOf(call[c].merged, Cardinality(tail)) = tail
               /\ tail \subseteq call[c].merged
               /\ call[c].op = "flush" => tail = {}
               /\ tail # {} => Opens(tail)
               /\ tail \cap UNION {parts[i] : i \in DOMAIN parts} = {}
               /\ UNION {parts[i] : i \in DOMAIN parts} \subseteq InCells
               /\ Headed(call[c].merged)
                     \subseteq tail \cup UNION {parts[i] : i \in DOMAIN parts}
  <1>1. PICK cut \in Cuts(call[c].merged) :
          /\ call[c].parts = Cells(call[c].merged, cut, call[c].op = "flush")
          /\ call[c].tail = Unclosed(call[c].merged, cut, call[c].op = "flush")
          /\ call[c].parts # <<>>
    BY FitsIs, DetectedIs DEF ByDetector
  <1>2. PICK merged \in SUBSET Messages, final \in BOOLEAN :
           merged = call[c].merged /\ final = (call[c].op = "flush")
    BY CallIs
  <1>3. /\ cut \in Cuts(merged) /\ call[c].parts = Cells(merged, cut, final)
        /\ call[c].tail = Unclosed(merged, cut, final) /\ call[c].parts # <<>>
    BY <1>1, <1>2
  <1>4. /\ call[c].tail \subseteq merged
        /\ final => call[c].tail = {}
        /\ LastOf(merged, Cardinality(call[c].tail)) = call[c].tail
        /\ call[c].tail \cap UNION {call[c].parts[i] : i \in DOMAIN call[c].parts} = {}
        /\ Headed(merged) \subseteq call[c].tail
                                 \cup UNION {call[c].parts[i] : i \in DOMAIN call[c].parts}
    BY <1>3, TailIs
  <1>5. call[c].tail # {} => Opens(call[c].tail)
    BY <1>3, TailOpens
  <1>6. UNION {call[c].parts[i] : i \in DOMAIN call[c].parts} \subseteq InCells
    BY FitsIs DEF Detected
  <1>7. QED
    BY <1>2, <1>4, <1>5, <1>6

LEMMA KTrim ==
    ASSUME IInv, KInv, NEW c \in Calls, Trim(c)
    PROVE  KInv'
  <1>1. /\ Others(c) /\ SameSlice(c) /\ call[c].pc = "inserted" /\ call'[c].pc = "cleared"
        /\ buffer' = LastOf(call[c].merged, Cardinality(call[c].tail))
        /\ UNCHANGED <<setting, cells, acked>>
    BY TrimDoes
  <1>2. /\ buffer' = call[c].tail
        /\ call[c].op = "flush" => call[c].tail = {}
        /\ call[c].tail # {} => Opens(call[c].tail)
        /\ Headed(call[c].merged) \subseteq call[c].tail \cup InCells
    BY <1>1, TrimLeaves
  <1>3. Kept(Payload[c]) \subseteq call[c].merged /\ buffer \subseteq call[c].merged
    BY <1>1, FitsIs DEF KInv, Carries, Slicing, Detected
  <1>4. InCells' = InCells /\ call[c].pc \in Inside
    BY <1>1 DEF InCells, Inside
  <1>5. call[c].tail = Headed(call[c].tail)
    BY <1>2, OpenIsHeaded DEF Headed
  <1>6. Headed(buffer)' = call[c].tail
    BY <1>1, <1>2, <1>5, BufferHeads
  <1>7. /\ Headed(buffer) \subseteq Headed(buffer)' \cup InCells'
        /\ Headed(Kept(Payload[c])) \subseteq Headed(buffer)' \cup InCells'
    BY <1>2, <1>3, <1>4, <1>6, HeadedGrows
  <1>8. Saved(c)'
    BY <1>1, <1>7, KeptStays DEF Saved
  <1>9. Carries(c)'
    BY <1>1, <1>2, <1>8 DEF Carries, Slicing, SameSlice
  <1>10. InCells \subseteq Headed(buffer)' \cup InCells'
    BY <1>4
  <1>11. QED
    BY <1>1, <1>4, <1>7, <1>9, <1>10, KHolder

LEMMA KPipeline ==
    ASSUME IInv, KInv, NEW c \in Calls, PipelineFrame(c), acked' = acked
    PROVE  KInv'
  <1>1. /\ Others(c) /\ SameSlice(c) /\ call[c].pc = "cleared" /\ call'[c].pc = "cleared"
        /\ UNCHANGED <<setting, buffer, cells>>
    BY DEF PipelineFrame
  <1>2. InCells' = InCells /\ Headed(buffer)' = Headed(buffer)
    BY <1>1, BufferHeads DEF InCells
  <1>3. Saved(c)'
    BY <1>1, <1>2, SavedStays DEF KInv, Carries
  <1>4. Carries(c)'
    BY <1>1, <1>3 DEF KInv, Carries, Slicing, SameSlice
  <1>5. QED
    BY <1>1, <1>4, KQuiet

LEMMA KFail ==
    ASSUME IInv, KInv, NEW c \in Calls, Fail(c)
    PROVE  KInv'
  <1>1. /\ Others(c) /\ call'[c].pc = "failed"
        /\ UNCHANGED <<setting, buffer, cells, acked>>
    BY FailDoes
  <1>2. Carries(c)'
    BY <1>1 DEF Carries, Slicing
  <1>3. QED
    BY <1>1, <1>2, KQuiet

\* Steps after which each call is as it was or given up.
LEMMA KCrash ==
    ASSUME IInv, KInv, UNCHANGED <<setting, buffer, cells, acked>>,
           \A c \in Calls : call'[c] = call[c] \/ call'[c].pc = "failed"
    PROVE  KInv'
  <1>1. ASSUME NEW c \in Calls PROVE Carries(c)'
    <2>1. CASE call'[c] = call[c]
      BY <2>1, StillCarries DEF KInv
    <2>2. CASE call'[c].pc = "failed"
      BY <2>2 DEF Carries, Slicing
    <2>3. QED
      BY <2>1, <2>2
  <1>2. InCells' = InCells /\ Headed(buffer)' = Headed(buffer)
    BY BufferHeads DEF InCells
  <1>3. ASSUME NEW d \in acked' PROVE Saved(d)'
    <2>1. d \in Calls /\ Saved(d)
      BY <1>3, SimpleTypes DEF KInv
    <2>2. QED
      BY <1>2, <2>1, SavedStays
  <1>4. QED
    BY <1>1, <1>3 DEF KInv

LEMMA KStarting == Init => KInv
  <1> SUFFICES ASSUME Init PROVE KInv
    OBVIOUS
  <1>1. buffer = {} /\ acked = {} /\ \A c \in Calls : call[c].pc = "idle"
    BY DEF Init, Resting
  <1>2. QED
    BY <1>1 DEF KInv, Carries, Slicing

LEMMA KStepping == IInv /\ KInv /\ [Next]_vars => KInv'
  <1> SUFFICES ASSUME IInv, KInv, [Next]_vars PROVE KInv'
    OBVIOUS
  <1>1. CASE UNCHANGED vars
    <2>1. UNCHANGED <<setting, buffer, cells, acked>> /\ call' = call
      BY <1>1 DEF vars
    <2>2. QED
      BY <2>1, KCrash
  <1>2. CASE Crash
    <2>1. /\ UNCHANGED <<setting, buffer, cells, acked>>
          /\ \A c \in Calls : call'[c] = call[c] \/ call'[c].pc = "failed"
      BY <1>2, CrashDoes
    <2>2. QED
      BY <2>1, KCrash
  <1>3. ASSUME NEW c \in Calls, \E op \in Op : Send(c, op)
        PROVE  KInv'
    BY <1>3, KSend
  <1>4. ASSUME NEW c \in Calls, Boundary(c)
        PROVE  KInv'
    BY <1>4, KEnter, KAnswer, KRead, KDefer, KDetect, KKeep, KInsert, KTrim
       DEF Boundary, Answers
  <1>5. ASSUME NEW c \in Calls, Pipelines(c)
        PROVE  KInv'
    <2>1. CASE Return(c)
      BY <2>1, KAnswer DEF Answers
    <2>2. CASE StartUser(c) \/ StartAgent(c) \/ Extract(c) \/ Write(c) \/ Announce(c)
      <3>1. PipelineFrame(c)
        BY <2>2, StartUserDoes, StartAgentDoes, ExtractDoes, WriteDoes, AnnounceDoes
      <3>2. acked' = acked
        BY <2>2 DEF StartUser, StartAgent, Extract, Write, Announce
      <3>3. QED
        BY <3>1, <3>2, KPipeline
    <2>3. QED
      BY <1>5, <2>1, <2>2 DEF Pipelines
  <1>6. ASSUME NEW c \in Calls, Fail(c)
        PROVE  KInv'
    BY <1>6, KFail
  <1>7. QED
    BY <1>1, <1>2, <1>3, <1>4, <1>5, <1>6 DEF Next

LEMMA KAlways == Spec => []KInv
  <1>1. Init => KInv
    BY KStarting
  <1>2. IInv /\ KInv /\ [Next]_vars => KInv'
    BY KStepping
  <1>3. QED
    BY <1>1, <1>2, Always, PTL DEF Spec

\* From its first chat message on, no message of an answered request is lost: whatever the
\* other calls of the session do, whether they fail or the server dies between any two of
\* their awaits, it stays in the buffer or in a memcell (service/memorize.py: the buffer is
\* replaced only after insert_many, under the lock).
THEOREM AckedCorrect == Spec => []AckedMessagesKept
  <1>1. ASSUME KInv PROVE AckedMessagesKept
    <2>1. ASSUME NEW c \in acked PROVE Headed(Kept(Payload[c])) \subseteq buffer \cup InCells
      <3>1. Headed(buffer) \subseteq buffer
        BY DEF Headed
      <3>2. QED
        BY <1>1, <2>1, <3>1 DEF KInv, Saved
    <2>2. QED
      BY <2>1 DEF AckedMessagesKept
  <1>2. QED
    BY <1>1, KAlways, PTL

\* When a flush is answered the buffer of the session is empty, or the whole slice had no
\* chat message to open a cell with and was put back (_boundary.py, is_final).
THEOREM FlushCorrect == Spec => FlushLeavesNoChat
  <1> DEFINE Flushed == \A c \in Calls :
        call[c].op = "flush" /\ ~At(c, "done") /\ call'[c].pc = "done" /\ buffer' # {} =>
            Chats(buffer' \cup call[c].merged) = {}
  <1>1. IInv /\ KInv /\ [Next]_vars => [Flushed]_vars
    <2> SUFFICES ASSUME IInv, KInv, [Next]_vars, NEW c \in Calls,
                        call[c].op = "flush", call[c].pc # "done", call'[c].pc = "done",
                        buffer' # {}
                 PROVE  Chats(buffer' \cup call[c].merged) = {}
      BY DEF At
    <2>1. Answers(c)
      <3>1. CASE UNCHANGED vars
        BY <3>1 DEF vars
      <3>2. CASE Crash
        BY <3>2, CrashDoes
      <3>3. ASSUME NEW d \in Calls, \E op \in Op : Send(d, op)
            PROVE  FALSE
        BY <3>3, SendDoes DEF Others
      <3>4. ASSUME NEW d \in Calls, Answers(d)
            PROVE  Answers(c)
        BY <3>4, AnswerDoes DEF Others
      <3>5. ASSUME NEW d \in Calls,
                   Enter(d) \/ Read(d) \/ Defer(d) \/ Keep(d) \/ Insert(d) \/ Trim(d)
            PROVE  FALSE
        BY <3>5, EnterDoes, ReadDoes, DeferDoes, KeepDoes, InsertDoes, TrimDoes DEF Others
      <3>6. ASSUME NEW d \in Calls, Detect(d)
            PROVE  FALSE
        <4>1. Others(d) /\ call'[d].pc \in {"keep", "detected"}
          BY <3>6, DetectDoes
        <4>2. QED
          BY <4>1 DEF Others
      <3>7. ASSUME NEW d \in Calls,
                   StartUser(d) \/ StartAgent(d) \/ Extract(d) \/ Write(d) \/ Announce(d)
            PROVE  FALSE
        <4>1. PipelineFrame(d)
          BY <3>7, StartUserDoes, StartAgentDoes, ExtractDoes, WriteDoes, AnnounceDoes
        <4>2. QED
          BY <4>1 DEF PipelineFrame, Others
      <3>8. ASSUME NEW d \in Calls, Fail(d)
            PROVE  FALSE
        BY <3>8, FailDoes DEF Others
      <3>9. QED
        BY <3>1, <3>2, <3>3, <3>4, <3>5, <3>6, <3>7, <3>8
           DEF Next, Boundary, Pipelines, Answers
    <2>2. buffer' = buffer
      BY <2>1, AnswerDoes
    <2>3. Carries(c)
      BY DEF KInv
    <2>4. CASE Skip(c)
      BY <2>4 DEF Skip
    <2>5. CASE NothingToFlush(c)
      BY <2>2, <2>5, FitsIs DEF NothingToFlush, At, Detected
    <2>6. CASE Accumulated(c)
      <3>1. Chats(call[c].merged) = {} /\ buffer = call[c].merged
        BY <2>3, <2>6, FitsIs DEF Accumulated, At, Carries, Detected
      <3>2. QED
        BY <2>2, <3>1
    <2>7. CASE Return(c)
      BY <2>2, <2>3, <2>7 DEF Return, UserPipelineAt, At, Carries
    <2>8. QED
      BY <2>1, <2>4, <2>5, <2>6, <2>7 DEF Answers
  <1>2. FlushLeavesNoChat <=> [][Flushed]_vars
    BY DEF FlushLeavesNoChat
  <1> HIDE DEF Flushed
  <1>3. QED
    BY <1>1, <1>2, Always, KAlways, PTL DEF Spec

-----------------------------------------------------------------------------
(* No message is folded twice *)

PartsOf(c) == UNION {call[c].parts[i] : i \in DOMAIN call[c].parts}

\* Until a call writes its slice, nothing of its payload is in the session but what an
\* earlier sending of it left; its slice meets the memcells in exposed messages alone.
New(c) ==
    /\ call[c].pc # "idle" => sends[c] > 0
    /\ sends[c] = 0 \/ call[c].pc \in {"queued", "locked"} =>
          Payload[c] \cap (buffer \cup InCells) \subseteq exposed
    /\ call[c].pc \in {"read", "keep", "detected", "inserted"} =>
          call[c].merged \subseteq buffer \cup Payload[c]
    /\ call[c].pc \in {"read", "keep", "detected"} => call[c].merged \cap InCells \subseteq exposed
    /\ call[c].pc = "inserted" => call[c].merged \cap InCells \subseteq exposed \cup PartsOf(c)

\* Between insert_many and the replacement of the buffer a message may be in both.
BufferApart ==
    (\A c \in Calls : call[c].pc # "inserted") => buffer \cap InCells \subseteq exposed

FInv == FoldedOnce /\ BufferApart /\ \A c \in Calls : New(c)

LEMMA StillNew ==
    ASSUME NEW c \in Calls, New(c), call'[c] = call[c], sends'[c] = sends[c],
           UNCHANGED <<buffer, cells>>, exposed \subseteq exposed'
    PROVE  New(c)'
  <1>1. InCells' = InCells /\ PartsOf(c)' = PartsOf(c)
    BY DEF InCells, PartsOf
  <1>2. QED
    BY <1>1 DEF New

LEMMA FQuiet ==
    ASSUME FInv, NEW c \in Calls, Others(c), UNCHANGED <<buffer, cells>>,
           exposed \subseteq exposed', \A d \in Calls \ {c} : sends'[d] = sends[d],
           New(c)', BufferApart'
    PROVE  FInv'
  <1>1. \A d \in Calls : New(d)'
    BY StillNew DEF FInv, Others
  <1>2. FoldedOnce'
    BY DEF FInv, FoldedOnce
  <1>3. QED
    BY <1>1, <1>2 DEF FInv

LEMMA BufferStaysApart ==
    ASSUME FInv, NEW c \in Calls, Others(c), UNCHANGED <<buffer, cells>>,
           exposed \subseteq exposed', call[c].pc # "inserted"
    PROVE  BufferApart'
  <1>1. (\A d \in Calls : call'[d].pc # "inserted") => \A d \in Calls : call[d].pc # "inserted"
    BY DEF Others
  <1>2. QED
    BY <1>1 DEF FInv, BufferApart, InCells

LEMMA FHolder ==
    ASSUME RequestsAreDistinct, IInv, FInv, NEW c \in Calls, call[c].pc \in Inside, Others(c),
           buffer' \cup InCells' \subseteq buffer \cup InCells \cup Payload[c],
           UNCHANGED <<sends, exposed>>, New(c)', BufferApart', FoldedOnce'
    PROVE  FInv'
  <1>1. ASSUME NEW d \in Calls \ {c} PROVE New(d)'
    <2>1. call[d].pc \notin Inside /\ call'[d] = call[d]
      BY DEF IInv, Locking, Others
    <2>2. Payload[d] \cap Payload[c] = {}
      BY DEF RequestsAreDistinct
    <2>3. New(d)
      BY DEF FInv
    <2>4. sends'[d] = 0 \/ call'[d].pc \in {"queued", "locked"} =>
             Payload[d] \cap (buffer' \cup InCells') \subseteq exposed'
      BY <2>1, <2>2, <2>3 DEF New
    <2>5. QED
      BY <2>1, <2>3, <2>4 DEF New, Inside
  <1>2. \A d \in Calls : New(d)'
    BY <1>1
  <1>3. QED
    BY <1>2 DEF FInv

\* A call inside has its lock to itself.
LEMMA Alone ==
    ASSUME IInv, NEW c \in Calls, call[c].pc \in Inside, NEW d \in Calls, call[d].pc \in Inside
    PROVE  d = c
  BY DEF IInv, Locking

LEMMA FSend ==
    ASSUME IInv, FInv, NEW c \in Calls, NEW op \in Op, Send(c, op)
    PROVE  FInv'
  <1>1. /\ Others(c) /\ call'[c].pc = "queued"
        /\ call[c].pc \in {"idle", "done", "failed"}
        /\ sends' = [sends EXCEPT ![c] = @ + 1]
        /\ exposed' = IF sends[c] > 0 THEN exposed \cup Payload[c] ELSE exposed
        /\ UNCHANGED <<buffer, cells>>
    BY SendDoes
  <1>2. New(c) /\ sends \in [Calls -> Nat]
    BY SimpleTypes DEF FInv
  <1>3. /\ exposed \subseteq exposed' /\ sends'[c] > 0
        /\ \A d \in Calls \ {c} : sends'[d] = sends[d]
    BY <1>1, <1>2
  <1>4. Payload[c] \cap (buffer \cup InCells) \subseteq exposed'
    <2>1. CASE sends[c] > 0
      BY <1>1, <2>1
    <2>2. CASE sends[c] = 0
      BY <1>1, <1>2, <2>2 DEF New
    <2>3. QED
      BY <1>2, <2>1, <2>2
  <1>5. InCells' = InCells
    BY <1>1 DEF InCells
  <1>6. New(c)'
    BY <1>1, <1>3, <1>4, <1>5 DEF New
  <1>7. BufferApart'
    BY <1>1, <1>3, BufferStaysApart
  <1>8. QED
    BY <1>1, <1>3, <1>6, <1>7, FQuiet

\* Steps that move a call and write nothing.
LEMMA FMove ==
    ASSUME IInv, FInv, NEW c \in Calls, Others(c),
           UNCHANGED <<buffer, cells, sends, exposed>>,
           call[c].pc \notin {"idle", "inserted"}, New(c)'
    PROVE  FInv'
  BY BufferStaysApart, FQuiet

LEMMA FEnter ==
    ASSUME IInv, FInv, NEW c \in Calls, Enter(c)
    PROVE  FInv'
  <1>1. /\ Others(c) /\ call[c].pc = "queued" /\ call'[c].pc = "locked"
        /\ UNCHANGED <<buffer, cells, sends, exposed>>
    BY EnterDoes
  <1>2. InCells' = InCells
    BY <1>1 DEF InCells
  <1>3. New(c)'
    BY <1>1, <1>2 DEF FInv, New
  <1>4. QED
    BY <1>1, <1>3, FMove

LEMMA FAnswer ==
    ASSUME IInv, FInv, NEW c \in Calls, Answers(c)
    PROVE  FInv'
  <1>1. /\ Others(c) /\ call[c].pc \in {"locked", "read", "kept", "cleared"}
        /\ call'[c].pc = "done"
        /\ UNCHANGED <<buffer, cells, sends, exposed>>
    BY AnswerDoes
  <1>2. New(c)'
    BY <1>1 DEF FInv, New
  <1>3. QED
    BY <1>1, <1>2, FMove

LEMMA FRead ==
    ASSUME IInv, FInv, NEW c \in Calls, Read(c)
    PROVE  FInv'
  <1>1. /\ Others(c) /\ call[c].pc = "locked" /\ call'[c].pc = "read"
        /\ call'[c].merged = buffer \cup Kept(Payload[c])
        /\ UNCHANGED <<buffer, cells, sends, exposed>>
    BY ReadDoes
  <1>2. InCells' = InCells
    BY <1>1 DEF InCells
  <1>3. \A d \in Calls : call[d].pc # "inserted"
    BY <1>1, Alone DEF Inside
  <1>4. buffer \cap InCells \subseteq exposed
    BY <1>3 DEF FInv, BufferApart
  <1>5. New(c) /\ Kept(Payload[c]) \subseteq Payload[c]
    BY DEF FInv, Kept
  <1>6. New(c)'
    BY <1>1, <1>2, <1>4, <1>5 DEF New
  <1>7. QED
    BY <1>1, <1>6, FMove

LEMMA FDefer ==
    ASSUME IInv, FInv, NEW c \in Calls, Defer(c)
    PROVE  FInv'
  <1>1. /\ Others(c) /\ SameSlice(c) /\ call[c].pc = "read" /\ call'[c].pc = "keep"
        /\ UNCHANGED <<buffer, cells, sends, exposed>>
    BY DeferDoes
  <1>2. InCells' = InCells
    BY <1>1 DEF InCells
  <1>3. New(c)'
    BY <1>1, <1>2 DEF FInv, New, SameSlice
  <1>4. QED
    BY <1>1, <1>3, FMove

LEMMA FDetect ==
    ASSUME IInv, FInv, NEW c \in Calls, Detect(c)
    PROVE  FInv'
  <1>1. /\ Others(c) /\ call[c].pc = "read" /\ call'[c].pc \in {"keep", "detected"}
        /\ call'[c].merged = call[c].merged
        /\ UNCHANGED <<buffer, cells, sends, exposed>>
    BY DetectDoes
  <1>2. InCells' = InCells
    BY <1>1 DEF InCells
  <1>3. New(c)'
    BY <1>1, <1>2 DEF FInv, New
  <1>4. QED
    BY <1>1, <1>3, FMove

LEMMA FPipeline ==
    ASSUME IInv, FInv, NEW c \in Calls, PipelineFrame(c)
    PROVE  FInv'
  <1>1. /\ Others(c) /\ call[c].pc = "cleared" /\ call'[c].pc = "cleared"
        /\ UNCHANGED <<buffer, cells, sends, exposed>>
    BY DEF PipelineFrame
  <1>2. New(c) /\ sends \in [Calls -> Nat]
    BY SimpleTypes DEF FInv
  <1>3. New(c)'
    BY <1>1, <1>2 DEF New
  <1>4. QED
    BY <1>1, <1>3, FMove

LEMMA FKeep ==
    ASSUME RequestsAreDistinct, IInv, FInv, NEW c \in Calls, Keep(c)
    PROVE  FInv'
  <1>1. /\ Others(c) /\ call[c].pc = "keep" /\ call'[c].pc = "kept"
        /\ buffer' = call[c].merged
        /\ UNCHANGED <<cells, sends, exposed>>
    BY KeepDoes
  <1>2. New(c) /\ sends \in [Calls -> Nat]
    BY SimpleTypes DEF FInv
  <1>3. InCells' = InCells
    BY <1>1 DEF InCells
  <1>4. New(c)'
    BY <1>1, <1>2 DEF New
  <1>5. BufferApart'
    BY <1>1, <1>2, <1>3 DEF New, BufferApart
  <1>6. FoldedOnce'
    BY <1>1 DEF FInv, FoldedOnce
  <1>7. buffer' \cup InCells' \subseteq buffer \cup InCells \cup Payload[c]
    BY <1>1, <1>2, <1>3 DEF New
  <1>8. call[c].pc \in Inside
    BY <1>1 DEF Inside
  <1>9. QED
    BY <1>1, <1>4, <1>5, <1>6, <1>7, <1>8, FHolder

\* The parts the detector made are apart and of the slice.
LEMMA PartsApart ==
    ASSUME IInv, NEW c \in Calls, call[c].pc \in {"detected", "inserted"}
    PROVE  /\ \A i, j \in DOMAIN call[c].parts : i # j => call[c].parts[i] \cap call[c].parts[j] = {}
           /\ PartsOf(c) \subseteq call[c].merged
           /\ call[c].parts \in Seq(Part) /\ DOMAIN call[c].parts \subseteq Nat
  <1>1. PICK cut \in Cuts(call[c].merged) :
          call[c].parts = Cells(call[c].merged, cut, call[c].op = "flush")
    BY FitsIs, DetectedIs DEF ByDetector
  <1>2. PICK merged \in SUBSET Messages, final \in BOOLEAN :
           merged = call[c].merged /\ final = (call[c].op = "flush")
    BY CallIs
  <1>3. cut \in Cuts(merged) /\ call[c].parts = Cells(merged, cut, final)
    BY <1>1, <1>2
  <1>4. /\ call[c].parts \in Seq((SUBSET merged) \ {{}})
        /\ \A i, j \in DOMAIN call[c].parts : i # j => call[c].parts[i] \cap call[c].parts[j] = {}
    <2>1. /\ Cells(merged, cut, final) \in Seq((SUBSET merged) \ {{}})
          /\ \A i, j \in DOMAIN Cells(merged, cut, final) : i # j =>
                Cells(merged, cut, final)[i] \cap Cells(merged, cut, final)[j] = {}
      BY <1>3, CellsAre
    <2>2. QED
      BY <1>3, <2>1
  <1>5. DOMAIN call[c].parts = 1..Len(call[c].parts) /\ Len(call[c].parts) \in Nat
    BY <1>4, LenProperties
  <1>6. \A i \in DOMAIN call[c].parts : call[c].parts[i] \subseteq merged
    BY <1>4, <1>5, ElementOfSeq
  <1>7. PartsOf(c) \subseteq call[c].merged
    BY <1>2, <1>6 DEF PartsOf
  <1>8. QED
    BY <1>4, <1>5, <1>7, CallIs

LEMMA FInsert ==
    ASSUME RequestsAreDistinct, IInv, FInv, NEW c \in Calls, Insert(c)
    PROVE  FInv'
  <1>1. /\ Others(c)
        /\ call[c].pc = "detected" /\ call'[c].pc = "inserted"
        /\ call'[c].merged = call[c].merged /\ call'[c].parts = call[c].parts
        /\ DOMAIN cells \subseteq DOMAIN cells'
        /\ \A k \in DOMAIN cells : cells'[k] = cells[k]
        /\ \A k \in DOMAIN cells' \ DOMAIN cells :
              \E i \in DOMAIN call[c].parts :
                 k = Len(cells) + i /\ cells'[k].items = call[c].parts[i]
        /\ UNCHANGED <<buffer, sends, exposed>>
    BY InsertDoes
  <1>2. New(c) /\ sends \in [Calls -> Nat] /\ FoldedOnce
    BY SimpleTypes DEF FInv
  <1>3. /\ \A i, j \in DOMAIN call[c].parts : i # j => call[c].parts[i] \cap call[c].parts[j] = {}
        /\ PartsOf(c) \subseteq call[c].merged
        /\ DOMAIN call[c].parts \subseteq Nat
    BY <1>1, PartsApart
  <1>4. InCells' \subseteq InCells \cup PartsOf(c)
    <2> SUFFICES ASSUME NEW k \in DOMAIN cells'
                 PROVE  cells'[k].items \subseteq InCells \cup PartsOf(c)
      BY DEF InCells
    <2>1. CASE k \in DOMAIN cells
      BY <1>1, <2>1 DEF InCells
    <2>2. CASE k \notin DOMAIN cells
      BY <1>1, <2>2 DEF PartsOf
    <2>3. QED
      BY <2>1, <2>2
  <1>5. /\ call[c].merged \subseteq buffer \cup Payload[c]
        /\ call[c].merged \cap InCells \subseteq exposed
    BY <1>1, <1>2 DEF New
  <1>6. New(c)'
    <2>1. PartsOf(c)' = PartsOf(c)
      BY <1>1 DEF PartsOf
    <2>2. call'[c].merged \cap InCells' \subseteq exposed' \cup PartsOf(c)'
      BY <1>1, <1>4, <1>5, <2>1
    <2>3. sends'[c] > 0 /\ call'[c].merged \subseteq buffer' \cup Payload[c]
      BY <1>1, <1>2, <1>5 DEF New
    <2>4. QED
      BY <1>1, <1>2, <2>2, <2>3 DEF New
  <1>7. BufferApart'
    BY <1>1 DEF BufferApart
  <1>8. FoldedOnce'
    <2> SUFFICES ASSUME NEW i \in DOMAIN cells', NEW j \in DOMAIN cells', i # j,
                        NEW m \in cells'[i].items, m \in cells'[j].items
                 PROVE  m \in exposed
      BY <1>1 DEF FoldedOnce
    <2>1. ASSUME NEW k \in DOMAIN cells', k \notin DOMAIN cells, m \in cells'[k].items
          PROVE  m \in call[c].merged
      BY <1>1, <1>3, <2>1 DEF PartsOf
    <2>2. ASSUME NEW k \in DOMAIN cells, m \in cells'[k].items
          PROVE  m \in InCells
      BY <1>1, <2>2 DEF InCells
    <2>3. CASE i \in DOMAIN cells /\ j \in DOMAIN cells
      BY <1>1, <1>2, <2>3 DEF FoldedOnce
    <2>4. CASE i \in DOMAIN cells /\ j \notin DOMAIN cells
      BY <1>5, <2>1, <2>2, <2>4
    <2>5. CASE i \notin DOMAIN cells /\ j \in DOMAIN cells
      BY <1>5, <2>1, <2>2, <2>5
    <2>6. CASE i \notin DOMAIN cells /\ j \notin DOMAIN cells
      <3>1. PICK a \in DOMAIN call[c].parts :
               i = Len(cells) + a /\ cells'[i].items = call[c].parts[a]
        BY <1>1, <2>6
      <3>2. PICK b \in DOMAIN call[c].parts :
               j = Len(cells) + b /\ cells'[j].items = call[c].parts[b]
        BY <1>1, <2>6
      <3>3. a # b
        BY <3>1, <3>2
      <3>4. QED
        BY <1>3, <3>1, <3>2, <3>3
    <2>7. QED
      BY <2>3, <2>4, <2>5, <2>6
  <1>9. buffer' \cup InCells' \subseteq buffer \cup InCells \cup Payload[c]
    BY <1>1, <1>3, <1>4, <1>5
  <1>10. call[c].pc \in Inside
    BY <1>1 DEF Inside
  <1>11. QED
    BY <1>1, <1>6, <1>7, <1>8, <1>9, <1>10, FHolder

LEMMA FTrim ==
    ASSUME RequestsAreDistinct, IInv, FInv, NEW c \in Calls, Trim(c)
    PROVE  FInv'
  <1>1. /\ Others(c) /\ call[c].pc = "inserted" /\ call'[c].pc = "cleared"
        /\ buffer' = LastOf(call[c].merged, Cardinality(call[c].tail))
        /\ UNCHANGED <<cells, sends, exposed>>
    BY TrimDoes
  <1>2. New(c) /\ sends \in [Calls -> Nat]
    BY SimpleTypes DEF FInv
  <1>3. InCells' = InCells
    BY <1>1 DEF InCells
  <1>4. /\ buffer' = call[c].tail /\ buffer' \subseteq call[c].merged
        /\ buffer' \cap PartsOf(c) = {}
    BY <1>1, TrimLeaves DEF PartsOf
  <1>5. /\ call[c].merged \cap InCells \subseteq exposed \cup PartsOf(c)
        /\ call[c].merged \subseteq buffer \cup Payload[c] /\ sends[c] > 0
    BY <1>1, <1>2 DEF New
  <1>6. New(c)'
    BY <1>1, <1>2, <1>5 DEF New
  <1>7. BufferApart'
    BY <1>1, <1>3, <1>4, <1>5 DEF BufferApart
  <1>8. FoldedOnce'
    BY <1>1 DEF FInv, FoldedOnce
  <1>9. buffer' \cup InCells' \subseteq buffer \cup InCells \cup Payload[c]
    BY <1>3, <1>4, <1>5
  <1>10. call[c].pc \in Inside
    BY <1>1 DEF Inside
  <1>11. QED
    BY <1>1, <1>6, <1>7, <1>8, <1>9, <1>10, FHolder

\* What a call cut after insert_many exposes is all that is in the buffer and a memcell.
LEMMA CutExposes ==
    ASSUME IInv, FInv, NEW c \in Calls, call[c].pc = "inserted"
    PROVE  buffer \cap InCells \subseteq exposed \cup Exposes(c)
  <1>1. New(c) /\ buffer \subseteq call[c].merged
    BY FitsIs DEF FInv, Detected
  <1>2. QED
    BY <1>1 DEF New, Exposes, PartsOf, At

LEMMA FFail ==
    ASSUME IInv, FInv, NEW c \in Calls, Fail(c)
    PROVE  FInv'
  <1>1. /\ Others(c) /\ call'[c].pc = "failed"
        /\ call[c].pc \notin {"idle", "done", "failed"}
        /\ exposed' = exposed \cup Exposes(c)
        /\ UNCHANGED <<buffer, cells, sends>>
    BY FailDoes
  <1>2. New(c) /\ sends \in [Calls -> Nat]
    BY SimpleTypes DEF FInv
  <1>3. New(c)'
    BY <1>1, <1>2 DEF New
  <1>4. InCells' = InCells
    BY <1>1 DEF InCells
  <1>5. BufferApart'
    <2>1. CASE call[c].pc = "inserted"
      BY <1>1, <1>4, <2>1, CutExposes DEF BufferApart
    <2>2. CASE call[c].pc # "inserted"
      BY <1>1, <2>2, BufferStaysApart
    <2>3. QED
      BY <2>1, <2>2
  <1>6. QED
    BY <1>1, <1>3, <1>5, FQuiet

LEMMA FCrash ==
    ASSUME IInv, FInv, UNCHANGED <<buffer, cells, sends>>, exposed \subseteq exposed',
           \A c \in Calls : \/ call'[c] = call[c]
                            \/ call[c].pc # "idle" /\ call'[c].pc = "failed",
           \A c \in Calls : call[c].pc = "inserted" /\ call'[c] # call[c] =>
                              Exposes(c) \subseteq exposed'
    PROVE  FInv'
  <1>1. ASSUME NEW c \in Calls PROVE New(c)'
    <2>1. New(c) /\ sends \in [Calls -> Nat]
      BY SimpleTypes DEF FInv
    <2>2. CASE call'[c] = call[c]
      BY <2>1, <2>2, StillNew
    <2>3. CASE call[c].pc # "idle" /\ call'[c].pc = "failed"
      BY <2>1, <2>3 DEF New
    <2>4. QED
      BY <2>2, <2>3
  <1>2. BufferApart'
    <2>1. CASE \E c \in Calls : call[c].pc = "inserted"
      <3>1. PICK c \in Calls : call[c].pc = "inserted"
        BY <2>1
      <3>2. CASE call'[c] = call[c]
        BY <3>1, <3>2 DEF BufferApart
      <3>3. CASE call'[c] # call[c]
        BY <3>1, <3>3, CutExposes DEF BufferApart, InCells
      <3>4. QED
        BY <3>2, <3>3
    <2>2. CASE \A c \in Calls : call[c].pc # "inserted"
      BY <2>2 DEF FInv, BufferApart, InCells
    <2>3. QED
      BY <2>1, <2>2
  <1>3. FoldedOnce'
    BY DEF FInv, FoldedOnce
  <1>4. QED
    BY <1>1, <1>2, <1>3 DEF FInv

LEMMA FStarting == Init => FInv
  <1> SUFFICES ASSUME Init PROVE FInv
    OBVIOUS
  <1>1. /\ buffer = {} /\ cells = <<>> /\ \A c \in Calls : call[c].pc = "idle"
        /\ DOMAIN cells = {}
    BY DEF Init, Resting
  <1>2. InCells = {}
    BY <1>1 DEF InCells
  <1>3. QED
    BY <1>1, <1>2 DEF FInv, FoldedOnce, BufferApart, New

LEMMA FStepping ==
    ASSUME RequestsAreDistinct
    PROVE  IInv /\ FInv /\ [Next]_vars => FInv'
  <1> SUFFICES ASSUME IInv, FInv, [Next]_vars PROVE FInv'
    OBVIOUS
  <1>1. CASE UNCHANGED vars
    <2>1. UNCHANGED <<buffer, cells, sends, exposed, call>>
      BY <1>1 DEF vars
    <2>2. QED
      BY <2>1, FCrash
  <1>2. CASE Crash
    <2>1. /\ UNCHANGED <<buffer, cells, sends>>
          /\ exposed' = exposed \cup UNION {Exposes(c) : c \in Calls}
          /\ \A c \in Calls : \/ call[c].pc \in {"idle", "done", "failed"} /\ call'[c] = call[c]
                              \/ /\ call[c].pc \notin {"idle", "done", "failed"}
                                 /\ call'[c].pc = "failed"
      BY <1>2, CrashDoes
    <2>2. \A c \in Calls : \/ call'[c] = call[c]
                           \/ call[c].pc # "idle" /\ call'[c].pc = "failed"
      BY <2>1
    <2>3. exposed \subseteq exposed' /\ \A c \in Calls : Exposes(c) \subseteq exposed'
      BY <2>1
    <2>4. QED
      BY <2>1, <2>2, <2>3, FCrash
  <1>3. ASSUME NEW c \in Calls, \E op \in Op : Send(c, op)
        PROVE  FInv'
    BY <1>3, FSend
  <1>4. ASSUME NEW c \in Calls, Boundary(c)
        PROVE  FInv'
    BY <1>4, FEnter, FAnswer, FRead, FDefer, FDetect, FKeep, FInsert, FTrim
       DEF Boundary, Answers
  <1>5. ASSUME NEW c \in Calls, Pipelines(c)
        PROVE  FInv'
    <2>1. CASE Return(c)
      BY <2>1, FAnswer DEF Answers
    <2>2. CASE StartUser(c) \/ StartAgent(c) \/ Extract(c) \/ Write(c) \/ Announce(c)
      <3>1. PipelineFrame(c)
        BY <2>2, StartUserDoes, StartAgentDoes, ExtractDoes, WriteDoes, AnnounceDoes
      <3>2. QED
        BY <3>1, FPipeline
    <2>3. QED
      BY <1>5, <2>1, <2>2 DEF Pipelines
  <1>6. ASSUME NEW c \in Calls, Fail(c)
        PROVE  FInv'
    BY <1>6, FFail
  <1>7. QED
    BY <1>1, <1>2, <1>3, <1>4, <1>5, <1>6 DEF Next

\* If the requests share no message, no message is folded into two memcells unless its
\* request was sent again or a call was cut between insert_many and the replacement of
\* the buffer, which are two transactions (service/memorize.py).
THEOREM FoldedCorrect ==
    ASSUME RequestsAreDistinct
    PROVE  Spec => []FoldedOnce
  <1>1. Init => FInv
    BY FStarting
  <1>2. IInv /\ FInv /\ [Next]_vars => FInv'
    BY FStepping
  <1>3. FInv => FoldedOnce
    BY DEF FInv
  <1>4. QED
    BY <1>1, <1>2, <1>3, Always, PTL DEF Spec
=============================================================================
