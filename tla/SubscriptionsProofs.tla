------------------------ MODULE SubscriptionsProofs ------------------------
(***************************************************************************)
(* Proofs about Subscriptions, for any codes and callers, any number of     *)
(* slots, changes, faults and refreshes.                                    *)
(***************************************************************************)
EXTENDS Subscriptions, FiniteSetTheorems, WellFoundedInduction, TLAPS

Job == [pc : PC, drop : SUBSET Codes, take : SUBSET Codes, held : SUBSET Codes,
        code : Codes \cup {0}, ack : {"open", "yes", "no"}]
Frame == [kind : {"sub", "unsub"}, code : Codes]
Reply == [said : {"ok", "already", "no", "used"}, code : Codes]

\* The types of the books, of the jobs and of what is on its way.
Books ==
    /\ mode \in Modes /\ slots \in 1..MaxSlots
    /\ refs \in [Codes -> SUBSET Kinds]
    /\ active \subseteq Codes /\ noted \subseteq Codes /\ listed \subseteq Codes
    /\ ledger \subseteq Codes /\ resend \subseteq Codes
    /\ registered \subseteq Codes /\ asked \subseteq Codes
    /\ alive \in BOOLEAN /\ line \in BOOLEAN
    /\ pending \in [Codes -> Requests]
    /\ changes \in 0..MaxChanges /\ faults \in 0..MaxFaults
    /\ refreshes \in [Codes -> 0..MaxRefresh]

Jobs == job \in [Procs -> Job]

Traffic == wire \in Seq(Frame) /\ replies \in Seq(Reply)

Marks == requested \subseteq Codes /\ late \subseteq Codes

LEMMA Types == TypeOK <=> Books /\ Jobs /\ Traffic /\ Marks
BY DEF TypeOK, Books, Jobs, Traffic, Marks, Job, Frame, Reply

LEMMA Constants ==
    /\ MaxSlots \in Nat /\ MaxChanges \in Nat /\ MaxFaults \in Nat /\ MaxRefresh \in Nat
    /\ Codes \subseteq Nat /\ IsFiniteSet(Codes)
    /\ Watchdog \in Procs /\ Watchdog \notin Callers /\ Callers \subseteq Procs
    /\ Nobody \notin Procs
BY ConstantsAssumption DEF ConstantsAssumption, Procs, Nobody

-----------------------------------------------------------------------------
(* What is on its way *)

Sent(k, c) == \E i \in 1..Len(wire) : wire[i].kind = k /\ wire[i].code = c

Told(s, c) == \E i \in 1..Len(replies) : replies[i].said = s /\ replies[i].code = c

\* A subscription of the code is followed by its unsubscription, or by another one.
Crossed(c) ==
    \E i, j \in 1..Len(wire) :
        /\ i < j
        /\ wire[i].kind = "sub" /\ wire[i].code = c
        /\ wire[j].kind = "unsub" /\ wire[j].code = c

Twice(k, c) ==
    \E i, j \in 1..Len(wire) :
        /\ i < j
        /\ wire[i].kind = k /\ wire[i].code = c
        /\ wire[j].kind = k /\ wire[j].code = c

\* Behind a subscription there are only subscriptions on the wire.
UnsubsFirst ==
    \A i, j \in 1..Len(wire) : i < j /\ wire[i].kind = "sub" => wire[j].kind = "sub"

\* What the wire holds after a frame was sent.
LEMMA SendFacts ==
    ASSUME Traffic, NEW k \in {"sub", "unsub"}, NEW c \in Codes,
           wire' = Append(wire, [kind |-> k, code |-> c])
    PROVE  /\ wire' \in Seq(Frame)
           /\ \A m, d : Sent(m, d)' <=> Sent(m, d) \/ (m = k /\ d = c)
           /\ \A d : Crossed(d)' <=> Crossed(d) \/ (k = "unsub" /\ d = c /\ Sent("sub", c))
           /\ \A m, d : Twice(m, d)' <=> Twice(m, d) \/ (m = k /\ d = c /\ Sent(k, c))
           /\ UnsubsFirst /\ (k = "sub" \/ \A d \in Codes : ~Sent("sub", d)) => UnsubsFirst'
<1> DEFINE f == [kind |-> k, code |-> c]
           n == Len(wire)
<1>0. f \in Frame /\ f.kind = k /\ f.code = c /\ wire' = Append(wire, f)
  BY DEF Frame
<1> HIDE DEF f
<1>1. /\ wire \in Seq(Frame) /\ n \in Nat
      /\ wire' \in Seq(Frame) /\ Len(wire') = n + 1 /\ wire'[n + 1] = f
      /\ \A i \in 1..n : wire'[i] = wire[i] /\ wire[i] \in Frame
  BY <1>0 DEF Traffic
<1>2. \A i : i \in 1..(n + 1) <=> i \in 1..n \/ i = n + 1
  BY <1>1
<1> HIDE DEF n
<1>3. ASSUME NEW m, NEW d PROVE Sent(m, d)' <=> Sent(m, d) \/ (m = k /\ d = c)
  BY <1>0, <1>1, <1>2 DEF Sent, n
<1>4. ASSUME NEW d
      PROVE  Crossed(d)' <=> Crossed(d) \/ (k = "unsub" /\ d = c /\ Sent("sub", c))
  BY <1>0, <1>1, <1>2 DEF Crossed, Sent, n
<1>5. ASSUME NEW m, NEW d
      PROVE  Twice(m, d)' <=> Twice(m, d) \/ (m = k /\ d = c /\ Sent(k, c))
  BY <1>0, <1>1, <1>2 DEF Twice, Sent, n
<1>6. ASSUME UnsubsFirst, k = "sub" \/ \A d \in Codes : ~Sent("sub", d) PROVE UnsubsFirst'
  BY <1>0, <1>1, <1>2, <1>6 DEF UnsubsFirst, Sent, Frame, n
<1> QED BY <1>1, <1>3, <1>4, <1>5, <1>6

\* What the wire held before its first frame was taken off.
LEMMA TakeFacts ==
    ASSUME Traffic, wire # <<>>, wire' = Tail(wire)
    PROVE  /\ wire' \in Seq(Frame) /\ Head(wire) \in Frame
           /\ \A m, d : Sent(m, d) <=>
                  Sent(m, d)' \/ (Head(wire).kind = m /\ Head(wire).code = d)
           /\ \A d : Crossed(d)' => Crossed(d)
           /\ \A d : Head(wire).kind = "sub" /\ Head(wire).code = d /\ Sent("unsub", d)'
                         => Crossed(d)
           /\ \A m, d : Twice(m, d)' => Twice(m, d)
           /\ \A m, d : Head(wire).kind = m /\ Head(wire).code = d /\ Sent(m, d)'
                         => Twice(m, d)
           /\ UnsubsFirst => /\ UnsubsFirst'
                             /\ Head(wire).kind = "sub" => \A d : ~Sent("unsub", d)'
<1> DEFINE n == Len(wire)
<1>1. /\ wire \in Seq(Frame) /\ n \in Nat /\ n >= 1 /\ Head(wire) = wire[1]
      /\ wire' \in Seq(Frame) /\ Len(wire') = n - 1
      /\ \A i \in 1..(n - 1) : wire'[i] = wire[i + 1]
      /\ \A i \in 1..n : wire[i] \in Frame
  BY DEF Traffic
<1>2. Len(wire') = 0 => wire' = <<>>
  BY <1>1
<1> HIDE DEF n
<1>3. ASSUME NEW m, NEW d
      PROVE  Sent(m, d) <=> Sent(m, d)' \/ (Head(wire).kind = m /\ Head(wire).code = d)
  <2>1. Sent(m, d)' => Sent(m, d)
    <3> SUFFICES ASSUME NEW i \in 1..(n - 1), wire'[i].kind = m, wire'[i].code = d
                 PROVE  Sent(m, d)
      BY <1>1 DEF Sent
    <3>1. i + 1 \in 1..n /\ wire[i + 1].kind = m /\ wire[i + 1].code = d
      BY <1>1
    <3> QED BY <3>1 DEF Sent, n
  <2>2. ASSUME Sent(m, d), ~(Head(wire).kind = m /\ Head(wire).code = d) PROVE Sent(m, d)'
    <3>1. PICK i \in 1..n : wire[i].kind = m /\ wire[i].code = d
      BY <2>2 DEF Sent, n
    <3>2. i - 1 \in 1..(n - 1) /\ wire'[i - 1] = wire[i]
      BY <1>1, <2>2, <3>1
    <3> QED BY <1>1, <3>1, <3>2 DEF Sent
  <2>3. ASSUME Head(wire).kind = m, Head(wire).code = d PROVE Sent(m, d)
    <3>1. 1 \in 1..n /\ wire[1].kind = m /\ wire[1].code = d
      BY <1>1, <2>3
    <3> QED BY <3>1 DEF Sent, n
  <2> QED BY <2>1, <2>2, <2>3
<1>4. ASSUME NEW d PROVE Crossed(d)' => Crossed(d)
  <2> SUFFICES ASSUME NEW i \in 1..(n - 1), NEW j \in 1..(n - 1), i < j,
                      wire'[i].kind = "sub", wire'[i].code = d,
                      wire'[j].kind = "unsub", wire'[j].code = d
               PROVE  Crossed(d)
    BY <1>1 DEF Crossed
  <2>1. /\ i + 1 \in 1..n /\ j + 1 \in 1..n /\ i + 1 < j + 1
        /\ wire'[i] = wire[i + 1] /\ wire'[j] = wire[j + 1]
    BY <1>1
  <2> QED BY <2>1 DEF Crossed, n
<1>5. ASSUME NEW d, Head(wire).kind = "sub", Head(wire).code = d, Sent("unsub", d)'
      PROVE  Crossed(d)
  <2>1. PICK i \in 1..(n - 1) : wire'[i].kind = "unsub" /\ wire'[i].code = d
    BY <1>1, <1>5 DEF Sent
  <2>2. 1 \in 1..n /\ i + 1 \in 1..n /\ 1 < i + 1 /\ wire'[i] = wire[i + 1]
    BY <1>1
  <2> QED BY <1>1, <1>5, <2>1, <2>2 DEF Crossed, n
<1>6. ASSUME NEW m, NEW d PROVE Twice(m, d)' => Twice(m, d)
  <2> SUFFICES ASSUME NEW i \in 1..(n - 1), NEW j \in 1..(n - 1), i < j,
                      wire'[i].kind = m, wire'[i].code = d,
                      wire'[j].kind = m, wire'[j].code = d
               PROVE  Twice(m, d)
    BY <1>1 DEF Twice
  <2>1. /\ i + 1 \in 1..n /\ j + 1 \in 1..n /\ i + 1 < j + 1
        /\ wire'[i] = wire[i + 1] /\ wire'[j] = wire[j + 1]
    BY <1>1
  <2> QED BY <2>1 DEF Twice, n
<1>7. ASSUME NEW m, NEW d, Head(wire).kind = m, Head(wire).code = d, Sent(m, d)'
      PROVE  Twice(m, d)
  <2>1. PICK i \in 1..(n - 1) : wire'[i].kind = m /\ wire'[i].code = d
    BY <1>1, <1>7 DEF Sent
  <2>2. 1 \in 1..n /\ i + 1 \in 1..n /\ 1 < i + 1 /\ wire'[i] = wire[i + 1]
    BY <1>1
  <2> QED BY <1>1, <1>7, <2>1, <2>2 DEF Twice, n
<1>8. ASSUME UnsubsFirst
      PROVE  UnsubsFirst' /\ (Head(wire).kind = "sub" => \A d : ~Sent("unsub", d)')
  <2>1. ASSUME NEW i \in 1..(n - 1), NEW j \in 1..(n - 1), i < j, wire'[i].kind = "sub"
        PROVE  wire'[j].kind = "sub"
    <3>1. /\ i + 1 \in 1..n /\ j + 1 \in 1..n /\ i + 1 < j + 1
          /\ wire'[i] = wire[i + 1] /\ wire'[j] = wire[j + 1]
      BY <1>1, <2>1
    <3> QED BY <1>8, <2>1, <3>1 DEF UnsubsFirst, n
  <2>2. ASSUME Head(wire).kind = "sub", NEW i \in 1..(n - 1) PROVE wire'[i].kind = "sub"
    <3>1. 1 \in 1..n /\ i + 1 \in 1..n /\ 1 < i + 1 /\ wire'[i] = wire[i + 1]
      BY <1>1
    <3> QED BY <1>1, <1>8, <2>2, <3>1 DEF UnsubsFirst, n
  <2> QED BY <1>1, <2>1, <2>2 DEF UnsubsFirst, Sent
<1> QED BY <1>1, <1>3, <1>4, <1>5, <1>6, <1>7, <1>8

\* What the replies hold after the broker gave one.
LEMMA ReplyFacts ==
    ASSUME Traffic, NEW s \in {"ok", "already", "no", "used"}, NEW c \in Codes,
           replies' = Append(replies, [code |-> c, said |-> s])
    PROVE  /\ replies' \in Seq(Reply)
           /\ \A t, d : Told(t, d)' <=> Told(t, d) \/ (t = s /\ d = c)
<1> DEFINE f == [code |-> c, said |-> s]
           n == Len(replies)
<1>0. f \in Reply /\ f.said = s /\ f.code = c /\ replies' = Append(replies, f)
  BY DEF Reply
<1> HIDE DEF f
<1>1. /\ replies \in Seq(Reply) /\ n \in Nat
      /\ replies' \in Seq(Reply) /\ Len(replies') = n + 1 /\ replies'[n + 1] = f
      /\ \A i \in 1..n : replies'[i] = replies[i]
  BY <1>0 DEF Traffic
<1>2. \A i : i \in 1..(n + 1) <=> i \in 1..n \/ i = n + 1
  BY <1>1
<1> HIDE DEF n
<1>3. ASSUME NEW t, NEW d PROVE Told(t, d)' <=> Told(t, d) \/ (t = s /\ d = c)
  BY <1>0, <1>1, <1>2 DEF Told, n
<1> QED BY <1>1, <1>3

\* What the replies held before the first was taken off.
LEMMA HearFacts ==
    ASSUME Traffic, replies # <<>>, replies' = Tail(replies)
    PROVE  /\ replies' \in Seq(Reply) /\ Head(replies) \in Reply
           /\ \A t, d : Told(t, d) <=>
                  Told(t, d)' \/ (Head(replies).said = t /\ Head(replies).code = d)
<1> DEFINE n == Len(replies)
<1>1. /\ replies \in Seq(Reply) /\ n \in Nat /\ n >= 1 /\ Head(replies) = replies[1]
      /\ replies' \in Seq(Reply) /\ Len(replies') = n - 1
      /\ \A i \in 1..(n - 1) : replies'[i] = replies[i + 1]
      /\ \A i \in 1..n : replies[i] \in Reply
  BY DEF Traffic
<1> HIDE DEF n
<1>3. ASSUME NEW t, NEW d
      PROVE  Told(t, d) <=> Told(t, d)' \/ (Head(replies).said = t /\ Head(replies).code = d)
  <2>1. Told(t, d)' => Told(t, d)
    <3> SUFFICES ASSUME NEW i \in 1..(n - 1), replies'[i].said = t, replies'[i].code = d
                 PROVE  Told(t, d)
      BY <1>1 DEF Told
    <3>1. i + 1 \in 1..n /\ replies[i + 1].said = t /\ replies[i + 1].code = d
      BY <1>1
    <3> QED BY <3>1 DEF Told, n
  <2>2. ASSUME Told(t, d), ~(Head(replies).said = t /\ Head(replies).code = d) PROVE Told(t, d)'
    <3>1. PICK i \in 1..n : replies[i].said = t /\ replies[i].code = d
      BY <2>2 DEF Told, n
    <3>2. i - 1 \in 1..(n - 1) /\ replies'[i - 1] = replies[i]
      BY <1>1, <2>2, <3>1
    <3> QED BY <1>1, <3>1, <3>2 DEF Told
  <2> QED BY <1>1, <2>1, <2>2 DEF Told, n
<1> QED BY <1>1, <1>3

\* Nothing is on its way once the line is broken.
LEMMA EmptyFacts ==
    /\ wire = <<>> => /\ (\A k, c : ~Sent(k, c) /\ ~Twice(k, c)) /\ (\A c : ~Crossed(c))
                      /\ UnsubsFirst
    /\ replies = <<>> => \A s, c : ~Told(s, c)
BY DEF Sent, Told, Crossed, Twice, UnsubsFirst

\* What is on its way is the same while nothing is sent or taken.
LEMMA SameTraffic ==
    /\ UNCHANGED wire => /\ \A k, c : (Sent(k, c)' <=> Sent(k, c)) /\ (Twice(k, c)' <=> Twice(k, c))
                         /\ \A c : Crossed(c)' <=> Crossed(c)
                         /\ UnsubsFirst' <=> UnsubsFirst
    /\ UNCHANGED replies => \A s, c : Told(s, c)' <=> Told(s, c)
BY DEF Sent, Told, Crossed, Twice, UnsubsFirst

-----------------------------------------------------------------------------
(* The ranking *)

D == Desired(refs)

LEMMA BeforeIsOrder ==
    ASSUME NEW h, NEW a \in Nat, NEW b \in Nat, NEW c \in Nat
    PROVE  /\ ~Before(h, a, a)
           /\ a # b => Before(h, a, b) \/ Before(h, b, a)
           /\ Before(h, a, b) /\ Before(h, b, c) => Before(h, a, c)
BY DEF Before

LEMMA BetterFacts ==
    ASSUME Books, NEW c \in Wanted(refs)
    PROVE  /\ Better(refs, c) \subseteq Codes \ {c}
           /\ IsFiniteSet(Better(refs, c)) /\ Cardinality(Better(refs, c)) \in Nat
           /\ Cardinality(Better(refs, c)) < Cardinality(Codes)
           /\ \A d \in Wanted(refs) \ {c} : Before(Held(refs), d, c) \/ Before(Held(refs), c, d)
           /\ \A d \in Wanted(refs) :
                 Before(Held(refs), d, c) =>
                    /\ Better(refs, d) \subseteq Better(refs, c) /\ d \in Better(refs, c)
                    /\ d \notin Better(refs, d)
<1>0. /\ Wanted(refs) \subseteq Codes /\ Codes \subseteq Nat /\ IsFiniteSet(Codes)
      /\ c \in Nat /\ \A d \in Wanted(refs) : d \in Nat
  BY Constants DEF Wanted
<1>1. Better(refs, c) \subseteq Codes \ {c}
  BY <1>0, BeforeIsOrder DEF Better
<1>2. IsFiniteSet(Codes \ {c})
  BY <1>0, FS_Subset
<1>3. IsFiniteSet(Better(refs, c)) /\ Cardinality(Better(refs, c)) <= Cardinality(Codes \ {c})
  BY <1>1, <1>2, FS_Subset
<1>4. /\ Cardinality(Better(refs, c)) \in Nat
      /\ Cardinality(Codes \ {c}) \in Nat /\ Cardinality(Codes) \in Nat
  BY <1>0, <1>2, <1>3, FS_CardinalityType
<1>5. Cardinality(Codes \ {c}) = Cardinality(Codes) - 1
  BY <1>0, FS_RemoveElement
<1>6. \A d \in Wanted(refs) \ {c} : Before(Held(refs), d, c) \/ Before(Held(refs), c, d)
  BY <1>0, BeforeIsOrder
<1>7. ASSUME NEW d \in Wanted(refs), Before(Held(refs), d, c)
      PROVE  /\ Better(refs, d) \subseteq Better(refs, c) /\ d \in Better(refs, c)
             /\ d \notin Better(refs, d)
  BY <1>0, <1>7, BeforeIsOrder DEF Better
<1> QED BY <1>1, <1>3, <1>4, <1>5, <1>6, <1>7

\* A code is ranked before another if and only if fewer are better.
LEMMA RankFacts ==
    ASSUME Books, NEW c \in Wanted(refs), NEW d \in Wanted(refs), Before(Held(refs), d, c)
    PROVE  Cardinality(Better(refs, d)) < Cardinality(Better(refs, c))
<1>1. /\ Better(refs, d) \subseteq Better(refs, c) \ {d}
      /\ IsFiniteSet(Better(refs, c)) /\ d \in Better(refs, c)
  BY BetterFacts
<1>2. /\ Cardinality(Better(refs, c) \ {d}) = Cardinality(Better(refs, c)) - 1
      /\ IsFiniteSet(Better(refs, c) \ {d})
  BY <1>1, FS_RemoveElement, FS_Subset
<1>3. Cardinality(Better(refs, d)) <= Cardinality(Better(refs, c) \ {d})
  BY <1>1, <1>2, FS_Subset
<1> QED BY <1>2, <1>3, BetterFacts

\* No more codes are desired than there are slots, and one if any is wanted.
LEMMA DesiredFacts ==
    ASSUME Books
    PROVE  /\ D \subseteq Wanted(refs) /\ D \subseteq Codes
           /\ IsFiniteSet(D) /\ Cardinality(D) <= slots
           /\ D = {} => Wanted(refs) = {}
           /\ slots >= Cardinality(Codes) => D = Wanted(refs)
<1>0. D \subseteq Wanted(refs) /\ D \subseteq Codes /\ slots \in Nat /\ slots >= 1
  BY Constants DEF D, Desired, Wanted, Books
<1>1. IsFiniteSet(D)
  BY <1>0, Constants, FS_Subset
<1>2. Cardinality(D) <= slots
  <2> DEFINE rank == [c \in D |-> Cardinality(Better(refs, c))]
  <2>1. rank \in [D -> 0..(slots - 1)]
    <3> SUFFICES ASSUME NEW c \in D PROVE Cardinality(Better(refs, c)) \in 0..(slots - 1)
      OBVIOUS
    <3>1. Cardinality(Better(refs, c)) \in Nat
      BY <1>0, BetterFacts
    <3>2. Cardinality(Better(refs, c)) < slots
      BY DEF D, Desired
    <3> QED BY <1>0, <3>1, <3>2
  <2>2. ASSUME NEW c \in D, NEW d \in D, c # d PROVE rank[c] # rank[d]
    <3>0. c \in Wanted(refs) /\ d \in Wanted(refs) /\ rank[c] \in Nat /\ rank[d] \in Nat
      BY <1>0, <2>1
    <3>1. Before(Held(refs), d, c) \/ Before(Held(refs), c, d)
      BY <2>2, <3>0, BetterFacts
    <3>2. rank[d] < rank[c] \/ rank[c] < rank[d]
      BY <3>0, <3>1, RankFacts
    <3> QED BY <3>0, <3>2
  <2> HIDE DEF rank
  <2>3. rank \in Injection(D, 0..(slots - 1))
    BY <2>1, <2>2 DEF Injection, IsInjective
  <2>4. /\ IsFiniteSet(0..(slots - 1)) /\ Cardinality(0..(slots - 1)) = slots
    BY <1>0, FS_Interval
  <2>5. Cardinality(D) <= Cardinality(0..(slots - 1))
    BY <2>3, <2>4, FS_Injection
  <2> QED BY <2>4, <2>5
<1>3. ASSUME D = {} PROVE Wanted(refs) = {}
  <2> DEFINE F == {Better(refs, c) : c \in Wanted(refs)}
  <2> SUFFICES ASSUME Wanted(refs) # {} PROVE FALSE
    OBVIOUS
  <2>1. IsWellFoundedOn(StrictSubsetOrdering(Codes), SUBSET Codes)
    BY Constants, FS_StrictSubsetOrderingWellFounded, FS_FiniteSubsetsOfFinite
  <2>2. F \subseteq SUBSET Codes /\ F # {}
    BY BetterFacts
  <2> HIDE DEF F
  <2>3. PICK B \in F : \A C \in F : ~(<<C, B>> \in StrictSubsetOrdering(Codes))
    BY <2>1, <2>2, WFMin
  <2>4. PICK c \in Wanted(refs) : B = Better(refs, c)
    BY <2>3 DEF F
  <2>5. Better(refs, c) = {}
    <3> SUFFICES ASSUME NEW d \in Better(refs, c) PROVE FALSE
      OBVIOUS
    <3>1. d \in Wanted(refs) /\ Before(Held(refs), d, c)
      BY DEF Better
    <3>2. /\ Better(refs, d) \subseteq Better(refs, c) /\ Better(refs, d) # Better(refs, c)
          /\ Better(refs, c) \subseteq Codes
      BY <3>1, BetterFacts
    <3>3. <<Better(refs, d), B>> \in StrictSubsetOrdering(Codes)
      BY <2>4, <3>2 DEF StrictSubsetOrdering
    <3> QED BY <2>3, <3>1, <3>3 DEF F
  <2>6. c \in D
    BY <1>0, <2>5, FS_EmptySet DEF D, Desired
  <2> QED BY <1>3, <2>6
<1>4. ASSUME slots >= Cardinality(Codes) PROVE D = Wanted(refs)
  <2> SUFFICES ASSUME NEW c \in Wanted(refs) PROVE Cardinality(Better(refs, c)) < slots
    BY DEF D, Desired
  <2>1. Cardinality(Codes) \in Nat
    BY Constants, FS_CardinalityType
  <2> QED BY <1>0, <1>4, <2>1, BetterFacts
<1> QED BY <1>0, <1>1, <1>2, <1>3, <1>4

LEMMA SameDesired == UNCHANGED <<refs, slots>> => D' = D
BY DEF D, Desired

-----------------------------------------------------------------------------
(* The jobs *)

\* What a job is by itself: it has a plan only where it is carried out, and waits for an answer
\* only where it asked.
JobOk(p, j) ==
    /\ j \in Job
    /\ j.pc \notin {"run", "ask", "ack"} => j.drop = {} /\ j.take = {}
    /\ j.pc \in {"ask", "ack"} => j.drop = {}
    /\ j.pc \in {"restore", "reset", "cut", "link", "again", "await"} => p = Watchdog
    /\ j.pc \in {"ack", "await", "again"} => j.code \in Codes
    /\ j.pc \notin {"ack", "await"} => j.ack = "open"

JobInv == Jobs /\ \A p \in Procs : JobOk(p, job[p])

\* Only the job of p changes, to another that is right by itself.
OnlyJob(p) ==
    /\ p \in Procs /\ job' \in [Procs -> Job]
    /\ JobOk(p, job'[p])
    /\ \A q \in Procs \ {p} : job'[q] = job[q]

LEMMA OnlyJobKeeps == ASSUME JobInv, NEW p, OnlyJob(p) PROVE JobInv'
BY DEF JobInv, OnlyJob, Jobs

\* A changed job that is right by itself is the only one changed.
LEMMA ChangedJob ==
    ASSUME JobInv, NEW p \in Procs, NEW d, JobOk(p, d), job' = [job EXCEPT ![p] = d]
    PROVE  OnlyJob(p) /\ job'[p] = d
BY DEF JobInv, OnlyJob, Jobs, JobOk

LEMMA IdleFacts ==
    /\ Idle \in Job /\ Idle.pc = "idle" /\ Idle.drop = {} /\ Idle.take = {}
    /\ Idle.ack = "open" /\ \A p : JobOk(p, Idle)
    /\ \A pc \in PC \ {"ack", "await", "again"} :
          LET j == [Idle EXCEPT !.pc = pc] IN
          /\ j.pc = pc /\ j.drop = {} /\ j.take = {} /\ j.ack = "open" /\ JobOk(Watchdog, j)
<1>1. /\ Idle \in Job /\ Idle.pc = "idle" /\ Idle.drop = {} /\ Idle.take = {}
      /\ Idle.ack = "open"
  BY DEF Idle, Job, PC
<1>2. ASSUME NEW p PROVE JobOk(p, Idle)
  BY <1>1 DEF JobOk
<1>3. ASSUME NEW pc \in PC \ {"ack", "await", "again"}
      PROVE  LET j == [Idle EXCEPT !.pc = pc] IN
             /\ j.pc = pc /\ j.drop = {} /\ j.take = {} /\ j.ack = "open"
             /\ JobOk(Watchdog, j)
  BY DEF Idle, Job, PC, JobOk
<1> QED BY <1>1, <1>2, <1>3

\* A job that was carried out is over, one with something left is as it was.
LEMMA RestFacts ==
    ASSUME NEW p, NEW j, JobOk(p, j), j.pc \in {"run", "ask"}
    PROVE  /\ JobOk(p, Rest(j)) /\ Rest(j).ack = "open"
           /\ Rest(j).drop = j.drop /\ Rest(j).take = j.take
           /\ Rest(j).pc \in {j.pc, "idle"}
           /\ Rest(j).pc = "idle" => j.drop = {} /\ j.take = {}
BY IdleFacts DEF Rest, JobOk

\* p begins to carry out a plan, or has nothing to do.
Planning(p, r) ==
    /\ OnlyJob(p)
    /\ job'[p].pc \in {"run", "idle"} /\ job'[p].ack = "open"
    /\ job'[p].drop = (active \cup ledger) \ Desired(r)
    /\ job'[p].take = Desired(r) \ active
    /\ job'[p].pc = "idle" => job'[p].drop = {} /\ job'[p].take = {}

LEMMA PlanFacts ==
    ASSUME Books, JobInv, NEW p \in Procs, NEW r \in [Codes -> SUBSET Kinds], Plan(p, r)
    PROVE  Planning(p, r)
<1> DEFINE j == [Idle EXCEPT !.pc = "run", !.drop = (active \cup ledger) \ Desired(r),
                             !.take = Desired(r) \ active, !.held = Held(r)]
<1>0. Desired(r) \subseteq Codes /\ Held(r) \subseteq Codes
  BY DEF Desired, Wanted, Held
<1>1. /\ j \in Job /\ j.pc = "run" /\ j.ack = "open"
      /\ j.drop = (active \cup ledger) \ Desired(r) /\ j.take = Desired(r) \ active
  BY <1>0 DEF Idle, Job, PC, Books
<1>2. job' = [job EXCEPT ![p] = Rest(j)]
  BY DEF Plan
<1> HIDE DEF j
<1>3. JobOk(p, j)
  BY <1>1 DEF JobOk
<1>4. OnlyJob(p) /\ job'[p] = Rest(j)
  BY <1>2, <1>3, <1>1, RestFacts, ChangedJob
<1> QED BY <1>1, <1>3, <1>4, RestFacts DEF Planning

\* A rebalance begins: a change of the references when nothing is under way, or a repair, or
\* the end of a restore, or of the drop of a favorite.
Rebalance(p) ==
    /\ Planning(p, refs') /\ refs' \in [Codes -> SUBSET Kinds]
    /\ May(p) \/ (job[p].pc = "replan" /\ UNCHANGED refs)
    /\ noted' \subseteq Codes /\ changes' \in 0..MaxChanges /\ late' = {}
    /\ UNCHANGED <<mode, slots, active, listed, alive, line, ledger, pending, resend, wire, replies,
                   registered, asked, faults, refreshes>>

LEMMA RebalanceFacts ==
    ASSUME Books, JobInv
    PROVE  /\ \A p \in Callers, c \in Codes : AddSubscription(p, c) => Rebalance(p)
           /\ \A p \in Callers, S \in SUBSET Codes : RemoveSubscription(p, S) => Rebalance(p)
           /\ \A p \in Callers, k \in Lists, S \in SUBSET Codes :
                 SyncSubscriptions(p, k, S) => Rebalance(p)
           /\ \A p \in Procs : Replan(p) => Rebalance(p)
           /\ Repair => Rebalance(Watchdog)
<1>0. Callers \subseteq Procs /\ Watchdog \in Procs /\ refs \in [Codes -> SUBSET Kinds]
      /\ changes \in 0..MaxChanges /\ MaxChanges \in Nat /\ noted \subseteq Codes
  BY Constants DEF Books
<1>1. changes < MaxChanges => changes + 1 \in 0..MaxChanges
  BY <1>0
<1>2. ASSUME NEW p \in Callers, NEW c \in Codes, AddSubscription(p, c) PROVE Rebalance(p)
  <2>1. refs' \in [Codes -> SUBSET Kinds]
    BY <1>0, <1>2 DEF AddSubscription, Kinds
  <2>2. Planning(p, refs') /\ late' = {}
    BY <1>0, <1>2, <2>1, PlanFacts DEF AddSubscription, Plan
  <2> QED BY <1>0, <1>1, <1>2, <2>1, <2>2
          DEF AddSubscription, Rebalance, given, client, broker
<1>3. ASSUME NEW p \in Callers, NEW S \in SUBSET Codes, RemoveSubscription(p, S)
      PROVE  Rebalance(p)
  <2>1. refs' \in [Codes -> SUBSET Kinds]
    BY <1>0, <1>3 DEF RemoveSubscription
  <2>2. Planning(p, refs') /\ late' = {}
    BY <1>0, <1>3, <2>1, PlanFacts DEF RemoveSubscription, Plan
  <2> QED BY <1>0, <1>1, <1>3, <2>1, <2>2
          DEF RemoveSubscription, Rebalance, given, client, broker
<1>4. ASSUME NEW p \in Callers, NEW k \in Lists, NEW S \in SUBSET Codes,
             SyncSubscriptions(p, k, S)
      PROVE  Rebalance(p)
  <2>1. refs' \in [Codes -> SUBSET Kinds]
    <3>1. \A c \in Codes : (refs[c] \ {k}) \cup (IF c \in S THEN {k} ELSE {}) \in SUBSET Kinds
      BY <1>0 DEF Kinds
    <3> QED BY <1>4, <3>1 DEF SyncSubscriptions
  <2>2. Planning(p, refs') /\ late' = {}
    BY <1>0, <1>4, <2>1, PlanFacts DEF SyncSubscriptions, Plan
  <2>3. noted' \subseteq Codes
    BY <1>0, <1>4 DEF SyncSubscriptions
  <2> QED BY <1>0, <1>1, <1>4, <2>1, <2>2, <2>3
          DEF SyncSubscriptions, Rebalance, given, client, broker
<1>5. ASSUME NEW p \in Procs, Replan(p) PROVE Rebalance(p)
  <2>1. Plan(p, refs) /\ UNCHANGED refs
    BY <1>5 DEF Replan
  <2>2. Planning(p, refs) /\ late' = {}
    BY <1>0, <2>1, PlanFacts DEF Plan
  <2> QED BY <1>0, <1>5, <2>1, <2>2 DEF Replan, Rebalance, given, client, broker
<1>6. ASSUME Repair PROVE Rebalance(Watchdog)
  <2>1. Plan(Watchdog, refs) /\ UNCHANGED refs
    BY <1>6 DEF Repair
  <2>2. Planning(Watchdog, refs) /\ late' = {}
    BY <1>0, <2>1, PlanFacts DEF Plan
  <2> QED BY <1>0, <1>6, <2>1, <2>2 DEF Repair, Rebalance, given, client, broker
<1> QED BY <1>2, <1>3, <1>4, <1>5, <1>6

\* The effect of Register: more is asked for, and nothing is done about it.
Registers ==
    /\ Alone /\ (mode = "calm" => job[Watchdog].pc = "idle")
    /\ refs' \in [Codes -> SUBSET Kinds] /\ \A c \in Codes : refs[c] \subseteq refs'[c]
    /\ late' # {} /\ noted' \subseteq Codes /\ changes' \in 0..MaxChanges
    /\ UNCHANGED <<mode, slots, active, listed, job, alive, line, ledger, pending, resend, wire,
                   replies, registered, asked, faults, refreshes>>

LEMMA RegisterFacts ==
    ASSUME Books, NEW p \in Callers, NEW k \in Kinds, NEW S \in SUBSET Codes, Register(p, k, S)
    PROVE  Registers
<1>0. /\ refs \in [Codes -> SUBSET Kinds] /\ changes \in 0..MaxChanges /\ noted \subseteq Codes
      /\ MaxChanges \in Nat /\ changes < MaxChanges /\ S # {} /\ Watchdog \in Procs
  BY Constants DEF Books, Register
<1>1. Alone /\ (mode = "calm" => job[Watchdog].pc = "idle")
  BY <1>0 DEF Register, MaySkip, May, Alone, Still
<1>2. refs' \in [Codes -> SUBSET Kinds] /\ \A c \in Codes : refs[c] \subseteq refs'[c]
  BY <1>0 DEF Register
<1>3. late' # {} /\ noted' \subseteq Codes /\ changes' \in 0..MaxChanges
  BY <1>0 DEF Register
<1> QED BY <1>1, <1>2, <1>3 DEF Register, Registers, given, client, broker

-----------------------------------------------------------------------------
(* The steps of a plan *)

\* What is left of the plan of p, which goes on at pc, or is over.
Left(p, pc) ==
    /\ OnlyJob(p) /\ job'[p].pc \in {pc, "idle"} /\ job'[p].ack = "open"
    /\ job'[p].pc = "idle" => job'[p].drop = {} /\ job'[p].take = {}

\* The effect of Unsubscribe on code c.
Unsubscribes(p, c) ==
    /\ c \in job[p].drop /\ c \in Codes /\ job[p].pc = "run"
    /\ Left(p, "run") /\ job'[p].drop = job[p].drop \ {c} /\ job'[p].take = job[p].take
    /\ IF line THEN Send("unsub", c, Nobody) ELSE NotSent
    /\ active' = active \ {c} /\ listed' = listed \ {c}
    /\ UNCHANGED <<mode, slots, refs, late, noted, alive, line, resend, replies, registered,
                   changes, faults, refreshes>>

LEMMA UnsubscribeFacts ==
    ASSUME JobInv, NEW p \in Procs, Unsubscribe(p)
    PROVE  \E c : Unsubscribes(p, c)
<1>1. PICK c \in job[p].drop :
         LET left == [job[p] EXCEPT !.drop = @ \ {c}] IN
         /\ job[p].pc = "run"
         /\ SendUnsub(c)
         /\ active' = active \ {c} /\ listed' = listed \ {c}
         /\ job' = [job EXCEPT ![p] = Rest(left)]
         /\ UNCHANGED <<given, refs, noted, late, alive, line, resend, replies, registered,
                        changes, faults, refreshes>>
  BY DEF Unsubscribe
<1> DEFINE j == [job[p] EXCEPT !.drop = job[p].drop \ {c}]
<1>2. JobOk(p, job[p])
  BY DEF JobInv
<1>3. /\ j \in Job /\ j.pc = "run" /\ j.ack = "open" /\ c \in Codes
      /\ j.drop = job[p].drop \ {c} /\ j.take = job[p].take
  BY <1>1, <1>2 DEF JobOk, Job
<1>4. job' = [job EXCEPT ![p] = Rest(j)]
  BY <1>1
<1> HIDE DEF j
<1>5. JobOk(p, j)
  BY <1>3 DEF JobOk
<1>6. OnlyJob(p) /\ job'[p] = Rest(j)
  <2>1. JobOk(p, Rest(j))
    BY <1>3, <1>5, RestFacts
  <2> QED BY <1>4, <2>1, ChangedJob
<1>7. /\ Left(p, "run") /\ job'[p].drop = job[p].drop \ {c} /\ job'[p].take = job[p].take
  BY <1>3, <1>5, <1>6, RestFacts DEF Left
<1>8. /\ IF line THEN Send("unsub", c, Nobody) ELSE NotSent
      /\ active' = active \ {c} /\ listed' = listed \ {c}
  BY <1>1 DEF SendUnsub
<1>9. UNCHANGED <<mode, slots, refs, late, noted, alive, line, resend, replies, registered,
                  changes, faults, refreshes>>
  BY <1>1 DEF given
<1>10. c \in job[p].drop /\ job[p].pc = "run"
  BY <1>1
<1> QED BY <1>3, <1>7, <1>8, <1>9, <1>10 DEF Unsubscribes

\* The effect of DropUnhealthy on code c: it is no longer asked for, or p is to rebalance.
Discards(p, c) ==
    /\ Alone /\ (mode = "calm" => job[Watchdog].pc = "idle") /\ job[p].pc = "idle" /\ c \in Codes
    /\ refs' \in [Codes -> SUBSET Kinds] /\ \A d \in Codes \ {c} : refs'[d] = refs[d]
    /\ \/ c \in active /\ line /\ Send("unsub", c, Nobody)
       \/ ~(c \in active /\ line) /\ NotSent
    /\ active' = active \ {c} /\ listed' = listed \ {c}
    /\ \/ refs'[c] = {} /\ job' = job
       \/ /\ mode # "calm" /\ OnlyJob(p) /\ job'[p].pc = "replan" /\ job'[p].ack = "open"
          /\ job'[p].drop = {} /\ job'[p].take = {}
    /\ late' # {} /\ noted' \subseteq Codes /\ changes' \in 0..MaxChanges
    /\ UNCHANGED <<mode, slots, alive, line, resend, replies, registered, faults, refreshes>>

LEMMA DiscardFacts ==
    ASSUME Books, JobInv, NEW p \in Callers, NEW c \in Codes, DropUnhealthy(p, c)
    PROVE  Discards(p, c)
<1> DEFINE kept == refs[c] \cap {"favorite"}
           j == [job[p] EXCEPT !.pc = "replan"]
<1>0. /\ refs \in [Codes -> SUBSET Kinds] /\ changes \in 0..MaxChanges /\ noted \subseteq Codes
      /\ MaxChanges \in Nat /\ changes < MaxChanges /\ Watchdog \in Procs /\ p \in Procs
  BY Constants DEF Books, DropUnhealthy
<1>1. Alone /\ (mode = "calm" => job[Watchdog].pc = "idle") /\ job[p].pc = "idle"
  BY <1>0 DEF DropUnhealthy, MaySkip, May, Alone, Still
<1>2. /\ refs' \in [Codes -> SUBSET Kinds] /\ \A d \in Codes \ {c} : refs'[d] = refs[d]
      /\ refs'[c] = kept
  BY <1>0 DEF DropUnhealthy
<1>3. /\ late' # {} /\ noted' \subseteq Codes /\ changes' \in 0..MaxChanges
  BY <1>0 DEF DropUnhealthy
<1>4. \/ c \in active /\ line /\ Send("unsub", c, Nobody)
      \/ ~(c \in active /\ line) /\ NotSent
  BY DEF DropUnhealthy, SendUnsub
<1>5. /\ active' = active \ {c} /\ listed' = listed \ {c}
      /\ UNCHANGED <<mode, slots, alive, line, resend, replies, registered, faults, refreshes>>
  BY DEF DropUnhealthy, given
<1>6. CASE kept = {}
  <2>1. job' = job
    BY <1>6 DEF DropUnhealthy
  <2> QED BY <1>1, <1>2, <1>3, <1>4, <1>5, <1>6, <2>1 DEF Discards
<1>7. CASE kept # {}
  <2>1. mode # "calm" /\ job' = [job EXCEPT ![p] = j]
    BY <1>7 DEF DropUnhealthy
  <2>2. JobOk(p, job[p])
    BY <1>0 DEF JobInv
  <2>3. /\ j \in Job /\ j.pc = "replan" /\ j.ack = "open" /\ j.drop = {} /\ j.take = {}
    BY <1>1, <2>2 DEF JobOk, Job, PC
  <2> HIDE DEF j
  <2>4. JobOk(p, j)
    BY <2>3 DEF JobOk
  <2>5. OnlyJob(p) /\ job'[p] = j
    BY <1>0, <2>1, <2>4, ChangedJob
  <2>6. /\ mode # "calm" /\ OnlyJob(p) /\ job'[p].pc = "replan" /\ job'[p].ack = "open"
        /\ job'[p].drop = {} /\ job'[p].take = {}
    BY <2>1, <2>3, <2>5
  <2> QED BY <1>1, <1>2, <1>3, <1>4, <1>5, <2>6 DEF Discards
<1> QED BY <1>6, <1>7

\* The effect of Link: a connection, or the end of the plan.
Links(p) ==
    /\ job[p].pc = "run" /\ job[p].drop = {}
    /\ OnlyJob(p) /\ job'[p].ack = "open" /\ job'[p].drop = {}
    /\ \/ Connects /\ job'[p].pc = "ask" /\ job'[p].take = job[p].take /\ UNCHANGED faults
       \/ /\ ~alive /\ faults < MaxFaults /\ faults' = faults + 1
          /\ job'[p].pc = "idle" /\ job'[p].take = {} /\ UNCHANGED <<alive, line, asked>>
    /\ UNCHANGED <<mode, slots, refs, late, active, noted, listed, ledger, pending, resend, wire,
                   replies, registered, changes, refreshes>>

LEMMA LinkFacts == ASSUME JobInv, NEW p \in Procs, Link(p) PROVE Links(p)
<1> DEFINE j == [job[p] EXCEPT !.pc = "ask"]
<1>1. JobOk(p, job[p]) /\ job[p].pc = "run" /\ job[p].drop = {}
  BY DEF JobInv, Link
<1>2. /\ j \in Job /\ j.pc = "ask" /\ j.ack = "open" /\ j.drop = {} /\ j.take = job[p].take
  BY <1>1 DEF JobOk, Job, PC
<1>3. \/ Connects /\ job' = [job EXCEPT ![p] = j] /\ UNCHANGED faults
      \/ /\ ~alive /\ faults < MaxFaults /\ faults' = faults + 1
         /\ job' = [job EXCEPT ![p] = Idle] /\ UNCHANGED <<alive, line, asked>>
  BY DEF Link
<1> HIDE DEF j
<1>4. JobOk(p, j)
  BY <1>2 DEF JobOk
<1>5. UNCHANGED <<mode, slots, refs, late, active, noted, listed, ledger, pending, resend, wire,
                  replies, registered, changes, refreshes>>
  BY DEF Link, given, policy, broker
<1>6. CASE Connects /\ job' = [job EXCEPT ![p] = j] /\ UNCHANGED faults
  <2>1. OnlyJob(p) /\ job'[p] = j
    BY <1>4, <1>6, ChangedJob
  <2> QED BY <1>1, <1>2, <1>5, <1>6, <2>1 DEF Links
<1>7. CASE /\ ~alive /\ faults < MaxFaults /\ faults' = faults + 1
           /\ job' = [job EXCEPT ![p] = Idle] /\ UNCHANGED <<alive, line, asked>>
  <2>1. OnlyJob(p) /\ job'[p] = Idle
    BY <1>7, IdleFacts, ChangedJob
  <2> QED BY <1>1, <1>5, <1>7, <2>1, IdleFacts DEF Links
<1> QED BY <1>3, <1>6, <1>7

\* The effect of Subscribe on code c.
Subscribes(p, c) ==
    /\ c \in job[p].take /\ c \in Codes /\ job[p].pc = "ask"
    /\ OnlyJob(p) /\ job'[p].ack = "open"
    /\ job'[p].drop = {} /\ job'[p].take = job[p].take \ {c}
    /\ \/ line /\ Send("sub", c, p) /\ job'[p].pc = "ack" /\ job'[p].code = c
       \/ ~line /\ NotSent /\ Left(p, "ask")
    /\ UNCHANGED <<mode, slots, refs, late, active, noted, listed, alive, line, resend, replies,
                   registered, changes, faults, refreshes>>

LEMMA SubscribeFacts ==
    ASSUME JobInv, NEW p \in Procs, Subscribe(p)
    PROVE  \E c : Subscribes(p, c)
<1>1. PICK c \in job[p].take :
         LET left == [job[p] EXCEPT !.take = @ \ {c}] IN
         /\ job[p].pc = "ask"
         /\ IF line
            THEN /\ Send("sub", c, p)
                 /\ job' = [job EXCEPT ![p] = [left EXCEPT !.pc = "ack", !.code = c, !.ack = "open"]]
            ELSE NotSent /\ job' = [job EXCEPT ![p] = Rest(left)]
         /\ UNCHANGED <<given, policy, alive, line, resend, replies, registered, changes,
                        faults, refreshes>>
  BY DEF Subscribe
<1> DEFINE left == [job[p] EXCEPT !.take = job[p].take \ {c}]
           j == [left EXCEPT !.pc = "ack", !.code = c, !.ack = "open"]
<1>2. JobOk(p, job[p]) /\ job[p].drop = {}
  BY <1>1 DEF JobInv, JobOk
<1>3. /\ left \in Job /\ left.pc = "ask" /\ left.ack = "open" /\ c \in Codes
      /\ left.drop = {} /\ left.take = job[p].take \ {c}
  BY <1>1, <1>2 DEF JobOk, Job
<1>4. \/ line /\ Send("sub", c, p) /\ job' = [job EXCEPT ![p] = j]
      \/ ~line /\ NotSent /\ job' = [job EXCEPT ![p] = Rest(left)]
  BY <1>1
<1> HIDE DEF left
<1>5. /\ j \in Job /\ j.pc = "ack" /\ j.ack = "open" /\ j.code = c
      /\ j.drop = {} /\ j.take = job[p].take \ {c}
  BY <1>3 DEF Job, PC
<1> HIDE DEF j
<1>6. JobOk(p, left) /\ JobOk(p, j)
  BY <1>3, <1>5 DEF JobOk
<1>7. UNCHANGED <<mode, slots, refs, late, active, noted, listed, alive, line, resend, replies,
                  registered, changes, faults, refreshes>>
  BY <1>1 DEF given, policy
<1>8. CASE line /\ Send("sub", c, p) /\ job' = [job EXCEPT ![p] = j]
  <2>1. OnlyJob(p) /\ job'[p] = j
    BY <1>6, <1>8, ChangedJob
  <2> QED BY <1>1, <1>3, <1>5, <1>7, <1>8, <2>1 DEF Subscribes
<1>9. CASE ~line /\ NotSent /\ job' = [job EXCEPT ![p] = Rest(left)]
  <2>1. OnlyJob(p) /\ job'[p] = Rest(left)
    <3>1. JobOk(p, Rest(left))
      BY <1>3, <1>6, RestFacts
    <3> QED BY <1>9, <3>1, ChangedJob
  <2>2. Left(p, "ask") /\ job'[p].drop = {} /\ job'[p].take = job[p].take \ {c} /\ job'[p].ack = "open"
    BY <1>3, <1>6, <2>1, RestFacts DEF Left
  <2> QED BY <1>1, <1>3, <1>7, <1>9, <2>1, <2>2 DEF Subscribes
<1> QED BY <1>4, <1>8, <1>9

\* The wait of p is over: its plan goes on, or a refresh is done.
Resumes(p) ==
    /\ Left(p, "ask") /\ job'[p].drop = {} /\ job'[p].take = job[p].take

LEMMA OverFacts ==
    ASSUME JobInv, NEW p \in Procs, job[p].pc = "ack", job' = Over(p)
    PROVE  Resumes(p)
<1> DEFINE left == [job[p] EXCEPT !.pc = "ask", !.code = 0, !.ack = "open"]
<1>1. JobOk(p, job[p]) /\ job[p].drop = {}
  BY DEF JobInv, JobOk
<1>2. /\ left \in Job /\ left.pc = "ask" /\ left.ack = "open"
      /\ left.drop = {} /\ left.take = job[p].take
  BY <1>1 DEF JobOk, Job, PC
<1>3. job' = [job EXCEPT ![p] = Rest(left)]
  BY DEF Over
<1> HIDE DEF left
<1>4. JobOk(p, left)
  BY <1>2 DEF JobOk
<1>5. JobOk(p, Rest(left))
  BY <1>2, <1>4, RestFacts
<1>6. OnlyJob(p) /\ job'[p] = Rest(left)
  BY <1>3, <1>5, ChangedJob
<1> QED BY <1>2, <1>4, <1>6, RestFacts DEF Resumes, Left

\* The effect of Confirmed.
Confirms(p) ==
    /\ job[p].pc = "ack" /\ job[p].ack = "yes" /\ job[p].code \in Codes
    /\ Resumes(p)
    /\ active' = active \cup {job[p].code} /\ listed' = listed \cup {job[p].code}
    /\ UNCHANGED <<mode, slots, refs, late, noted, alive, line, ledger, pending, resend, wire, replies,
                   registered, asked, changes, faults, refreshes>>

LEMMA ConfirmFacts == ASSUME JobInv, NEW p \in Procs, Confirmed(p) PROVE Confirms(p)
<1>1. Resumes(p)
  BY OverFacts DEF Confirmed
<1> QED BY <1>1 DEF Confirms, Confirmed, JobInv, JobOk, given, client, broker

\* The effect of Unconfirmed.
GoesWithout(p) ==
    /\ \/ job[p].pc = "ack" /\ Resumes(p)
       \/ job[p].pc = "await" /\ OnlyJob(p) /\ job'[p] = Idle
    /\ \/ job[p].ack = "no" /\ UNCHANGED faults
       \/ job[p].ack = "open" /\ Lost(p) /\ UNCHANGED faults
       \/ job[p].ack = "open" /\ faults < MaxFaults /\ faults' = faults + 1
    /\ UNCHANGED <<mode, slots, refs, late, active, noted, listed, alive, line, ledger, pending, resend,
                   wire, replies, registered, asked, changes, refreshes>>

LEMMA UnconfirmedFacts == ASSUME JobInv, NEW p \in Procs, Unconfirmed(p) PROVE GoesWithout(p)
<1>1. UNCHANGED <<mode, slots, refs, late, active, noted, listed, alive, line, ledger, pending, resend,
                  wire, replies, registered, asked, changes, refreshes>>
  BY DEF Unconfirmed, given, policy, client, broker
<1>2. \/ job[p].ack = "no" /\ UNCHANGED faults
      \/ job[p].ack = "open" /\ Lost(p) /\ UNCHANGED faults
      \/ job[p].ack = "open" /\ faults < MaxFaults /\ faults' = faults + 1
  BY DEF Unconfirmed
<1>3. CASE job[p].pc = "ack"
  <2>1. job' = Over(p)
    BY <1>3 DEF Unconfirmed
  <2>2. Resumes(p)
    BY <1>3, <2>1, OverFacts
  <2> QED BY <1>1, <1>2, <1>3, <2>2 DEF GoesWithout
<1>4. CASE job[p].pc # "ack"
  <2>1. job[p].pc = "await" /\ job' = [job EXCEPT ![p] = Idle]
    BY <1>4 DEF Unconfirmed
  <2>2. OnlyJob(p) /\ job'[p] = Idle
    BY <2>1, IdleFacts, ChangedJob
  <2> QED BY <1>1, <1>2, <2>1, <2>2 DEF GoesWithout
<1> QED BY <1>3, <1>4

\* The job of p hears the verdict on the code it waits for.
Hears(p, c, said) ==
    /\ pending[c].kind = "sub" /\ pending[c].by = p
    /\ job[p].pc \in {"ack", "await"} /\ job[p].code = c /\ job[p].ack = "open"
    /\ job'[p].ack = Verdict(said)

\* The effect of Receive on the jobs.
Heard(c, said) ==
    /\ job' \in [Procs -> Job]
    /\ \A p \in Procs :
          /\ JobOk(p, job'[p])
          /\ job'[p].pc = job[p].pc /\ job'[p].drop = job[p].drop
          /\ job'[p].take = job[p].take /\ job'[p].code = job[p].code
          /\ job'[p].ack = job[p].ack \/ Hears(p, c, said)
          /\ /\ pending[c].kind = "sub" /\ pending[c].by = p
             /\ job[p].pc \in {"ack", "await"} /\ job[p].code = c /\ job[p].ack = "open"
             => Hears(p, c, said)

Receives(c, said) ==
    /\ c = Head(replies).code /\ said = Head(replies).said
    /\ alive /\ line /\ resend = {} /\ replies # <<>> /\ replies' = Tail(replies)
    /\ c \in Codes /\ said \in {"ok", "already", "no", "used"}
    /\ pending' = [pending EXCEPT ![c] = None]
    /\ \/ ledger' = ledger \cup {c} /\ (said = "already" \/ (said = "ok" /\ pending[c].kind = "sub"))
       \/ ledger' = ledger \ {c} /\ said = "no" /\ pending[c].kind = "sub"
       \/ ledger' = ledger /\ said # "already" /\ (pending[c].kind = "sub" => said = "used")
    /\ Heard(c, said)
    /\ UNCHANGED <<mode, slots, refs, late, active, noted, listed, alive, line, resend, wire, registered,
                   asked, changes, faults, refreshes>>

LEMMA ReceiveFacts ==
    ASSUME Books, Traffic, JobInv, Receive
    PROVE  Receives(Head(replies).code, Head(replies).said)
<1> DEFINE c == Head(replies).code
           said == Head(replies).said
<1>1. /\ alive /\ line /\ resend = {} /\ replies # <<>> /\ replies' = Tail(replies)
      /\ pending' = [pending EXCEPT ![c] = None]
      /\ UNCHANGED <<mode, slots, refs, late, active, noted, listed, alive, line, resend, wire,
                     registered, asked, changes, faults, refreshes>>
  BY DEF Receive, given, policy
<1>2. c \in Codes /\ said \in {"ok", "already", "no", "used"}
  BY <1>1, HearFacts DEF Reply
<1>3. /\ ledger' = IF said = "already" \/ (said = "ok" /\ pending[c].kind = "sub")
                   THEN ledger \cup {c}
                   ELSE IF said = "no" /\ pending[c].kind = "sub" THEN ledger \ {c} ELSE ledger
      /\ job' = IF /\ pending[c].kind = "sub" /\ pending[c].by \in Procs
                   /\ job[pending[c].by].pc \in {"ack", "await"}
                   /\ job[pending[c].by].code = c /\ job[pending[c].by].ack = "open"
                THEN [job EXCEPT ![pending[c].by].ack = Verdict(said)] ELSE job
  BY DEF Receive
<1> HIDE DEF c, said
<1>4. \/ ledger' = ledger \cup {c} /\ (said = "already" \/ (said = "ok" /\ pending[c].kind = "sub"))
      \/ ledger' = ledger \ {c} /\ said = "no" /\ pending[c].kind = "sub"
      \/ ledger' = ledger /\ said # "already" /\ (pending[c].kind = "sub" => said = "used")
  BY <1>2, <1>3
<1>5. Heard(c, said)
  <2>0. /\ job \in [Procs -> Job] /\ \A p \in Procs : JobOk(p, job[p])
        /\ Verdict(said) \in {"open", "yes", "no"}
    BY DEF JobInv, Jobs, Verdict
  <2>1. CASE /\ pending[c].kind = "sub" /\ pending[c].by \in Procs
             /\ job[pending[c].by].pc \in {"ack", "await"}
             /\ job[pending[c].by].code = c /\ job[pending[c].by].ack = "open"
    <3> DEFINE w == pending[c].by
               j == [job[w] EXCEPT !.ack = Verdict(said)]
    <3>1. /\ j \in Job /\ j.pc = job[w].pc /\ j.drop = job[w].drop /\ j.take = job[w].take
          /\ j.code = job[w].code /\ j.ack = Verdict(said)
      BY <2>0, <2>1 DEF Job
    <3>2. job' = [job EXCEPT ![w] = j] /\ w \in Procs
      BY <1>3, <2>1
    <3> HIDE DEF j
    <3>3. JobOk(w, j) /\ JobOk(w, job[w])
      BY <2>0, <2>1, <3>1, <3>2 DEF JobOk
    <3>4. job' \in [Procs -> Job] /\ job'[w] = j /\ \A q \in Procs \ {w} : job'[q] = job[q]
      BY <2>0, <3>1, <3>2
    <3> QED BY <2>0, <2>1, <3>1, <3>2, <3>3, <3>4 DEF Heard, Hears
  <2>2. CASE ~ /\ pending[c].kind = "sub" /\ pending[c].by \in Procs
               /\ job[pending[c].by].pc \in {"ack", "await"}
               /\ job[pending[c].by].code = c /\ job[pending[c].by].ack = "open"
    <3>1. job' = job
      BY <1>3, <2>2
    <3> QED BY <2>0, <2>2, <3>1 DEF Heard
  <2> QED BY <2>1, <2>2
<1>6. Receives(c, said)
  BY <1>1, <1>2, <1>4, <1>5 DEF Receives, c, said
<1> QED BY <1>6 DEF c, said

-----------------------------------------------------------------------------
(* The steps of client, broker and watchdog *)

\* What a request changes.
LEMMA SendKeeps ==
    ASSUME Books, Traffic, NEW k \in {"sub", "unsub"}, NEW c \in Codes,
           NEW by \in Procs \cup {Nobody}, Send(k, c, by)
    PROVE  /\ wire' = Append(wire, [kind |-> k, code |-> c]) /\ wire' \in Seq(Frame)
           /\ pending' \in [Codes -> Requests]
           /\ pending'[c].kind = k /\ pending'[c].by = by
           /\ \A d \in Codes \ {c} : pending'[d] = pending[d]
           /\ k = "sub" => ledger' = ledger /\ asked' = asked \cup {c}
           /\ k = "unsub" => ledger' = ledger \ {c} /\ asked' = asked
<1>1. wire' = Append(wire, [kind |-> k, code |-> c]) /\ wire' \in Seq(Frame)
  BY SendFacts DEF Send
<1> DEFINE r == [kind |-> k, by |-> by]
<1>2. r \in Requests /\ r.kind = k /\ r.by = by
  BY DEF Requests
<1>3. pending' = [pending EXCEPT ![c] = r]
  BY DEF Send
<1> HIDE DEF r
<1>4. /\ pending' \in [Codes -> Requests] /\ pending'[c] = r
      /\ \A d \in Codes \ {c} : pending'[d] = pending[d]
  BY <1>2, <1>3 DEF Books
<1> QED BY <1>1, <1>2, <1>4 DEF Send

\* What the broker makes of the frame (k, c), and its answer s.
Answers(k, c, s) ==
    /\ wire # <<>> /\ wire' = Tail(wire) /\ k = Head(wire).kind /\ c = Head(wire).code
    /\ k \in {"sub", "unsub"} /\ c \in Codes /\ s \in {"ok", "already", "no"}
    /\ replies' = Append(replies, [code |-> c, said |-> s])
    /\ \/ k = "sub" /\ c \in registered /\ s = "already" /\ registered' = registered
       \/ /\ k = "sub" /\ c \notin registered /\ Cardinality(registered) < slots
          /\ s = "ok" /\ registered' = registered \cup {c}
       \/ /\ k = "sub" /\ c \notin registered /\ ~(Cardinality(registered) < slots)
          /\ s = "no" /\ registered' = registered
       \/ k = "unsub" /\ c \in registered /\ s = "ok" /\ registered' = registered \ {c}
       \/ k = "unsub" /\ c \notin registered /\ s = "no" /\ registered' = registered
    /\ UNCHANGED <<mode, slots, refs, late, active, noted, listed, job, alive, line, ledger, pending,
                   resend, asked, changes, faults, refreshes>>

LEMMA AnswerFacts ==
    ASSUME Traffic, Answer
    PROVE  \E k, c, s : Answers(k, c, s)
<1> DEFINE k == Head(wire).kind
           c == Head(wire).code
           known == c \in registered
           taken == k = "sub" /\ ~known /\ Cardinality(registered) < slots
           s == IF k = "sub" /\ known THEN "already" ELSE IF taken \/ known THEN "ok" ELSE "no"
<1>1. wire # <<>> /\ wire' = Tail(wire)
  BY DEF Answer
<1>2. k \in {"sub", "unsub"} /\ c \in Codes
  BY <1>1, TakeFacts DEF Frame
<1>3. /\ registered' = IF taken THEN registered \cup {c}
                       ELSE IF k = "unsub" THEN registered \ {c} ELSE registered
      /\ replies' = Append(replies, [code |-> c, said |-> s])
  BY DEF Answer
<1>4. UNCHANGED <<mode, slots, refs, late, active, noted, listed, job, alive, line, ledger, pending,
                  resend, asked, changes, faults, refreshes>>
  BY DEF Answer, given, policy, client
<1> HIDE DEF k, c
<1>5. \/ k = "sub" /\ c \in registered /\ s = "already" /\ registered' = registered
      \/ /\ k = "sub" /\ c \notin registered /\ Cardinality(registered) < slots
         /\ s = "ok" /\ registered' = registered \cup {c}
      \/ /\ k = "sub" /\ c \notin registered /\ ~(Cardinality(registered) < slots)
         /\ s = "no" /\ registered' = registered
      \/ k = "unsub" /\ c \in registered /\ s = "ok" /\ registered' = registered \ {c}
      \/ k = "unsub" /\ c \notin registered /\ s = "no" /\ registered' = registered
  BY <1>2, <1>3
<1>6. s \in {"ok", "already", "no"}
  OBVIOUS
<1> HIDE DEF s, taken, known
<1>7. Answers(k, c, s)
  BY <1>1, <1>2, <1>3, <1>4, <1>5, <1>6 DEF Answers, k, c
<1> QED BY <1>7

\* The watchdog is now at pc, without a plan.
Turns(pc) ==
    /\ OnlyJob(Watchdog) /\ job'[Watchdog].pc = pc /\ job'[Watchdog].ack = "open"
    /\ job'[Watchdog].drop = {} /\ job'[Watchdog].take = {}

LEMMA GoesFacts ==
    ASSUME JobInv, NEW pc \in PC \ {"ack", "await", "again"}, Goes(pc)
    PROVE  Turns(pc)
<1> DEFINE j == [Idle EXCEPT !.pc = pc]
<1>1. job' = [job EXCEPT ![Watchdog] = j]
  BY DEF Goes
<1>2. /\ j.pc = pc /\ j.drop = {} /\ j.take = {} /\ j.ack = "open" /\ JobOk(Watchdog, j)
  BY IdleFacts
<1> HIDE DEF j
<1>3. OnlyJob(Watchdog) /\ job'[Watchdog] = j
  BY <1>1, <1>2, Constants, ChangedJob
<1> QED BY <1>2, <1>3 DEF Turns

\* The effect of Refresh on code c, and of Again on the code it is about.
Refreshes(c) ==
    /\ May(Watchdog) /\ mode # "calm" /\ alive /\ c \in listed /\ c \in Codes
    /\ IF line THEN Send("unsub", c, Nobody) ELSE NotSent
    /\ Turns("again") /\ job'[Watchdog].code = c
    /\ refreshes' \in [Codes -> 0..MaxRefresh]
    /\ UNCHANGED <<mode, slots, refs, late, active, noted, listed, alive, line, resend, replies, registered,
                   changes, faults>>

LEMMA RefreshFacts ==
    ASSUME Books, JobInv, NEW c \in Codes, Refresh(c)
    PROVE  Refreshes(c)
<1> DEFINE j == [Idle EXCEPT !.pc = "again", !.code = c]
<1>1. /\ j \in Job /\ j.pc = "again" /\ j.code = c /\ j.ack = "open"
      /\ j.drop = {} /\ j.take = {}
  BY DEF Idle, Job, PC
<1>2. job' = [job EXCEPT ![Watchdog] = j]
  BY DEF Refresh
<1> HIDE DEF j
<1>3. JobOk(Watchdog, j)
  BY <1>1 DEF JobOk
<1>4. OnlyJob(Watchdog) /\ job'[Watchdog] = j
  BY <1>2, <1>3, Constants, ChangedJob
<1>5. refreshes' \in [Codes -> 0..MaxRefresh]
  <2>1. refreshes' = [refreshes EXCEPT ![c] = refreshes[c] + 1] /\ refreshes[c] < MaxRefresh
    BY DEF Refresh
  <2>2. refreshes[c] + 1 \in 0..MaxRefresh /\ refreshes \in [Codes -> 0..MaxRefresh]
    BY <2>1, Constants DEF Books
  <2> QED BY <2>1, <2>2
<1> QED BY <1>1, <1>4, <1>5 DEF Refresh, Refreshes, SendUnsub, Turns, given, policy

AsksAgain(c) ==
    /\ job[Watchdog].pc = "again" /\ job[Watchdog].code = c /\ c \in Codes
    /\ \/ line /\ Send("sub", c, Watchdog) /\ Turns("await")
       \/ ~line /\ NotSent /\ Turns("idle")
    /\ UNCHANGED <<mode, slots, refs, late, active, noted, listed, alive, line, resend, replies, registered,
                   changes, faults, refreshes>>

LEMMA AgainFacts ==
    ASSUME JobInv, Again
    PROVE  AsksAgain(job[Watchdog].code)
<1> DEFINE c == job[Watchdog].code
           j == [job[Watchdog] EXCEPT !.pc = "await"]
<1>1. JobOk(Watchdog, job[Watchdog]) /\ job[Watchdog].pc = "again"
  BY Constants DEF JobInv, Again
<1>2. /\ j \in Job /\ j.pc = "await" /\ j.code \in Codes /\ j.ack = "open"
      /\ j.drop = {} /\ j.take = {} /\ c \in Codes
  BY <1>1 DEF JobOk, Job, PC
<1>3. \/ line /\ Send("sub", c, Watchdog) /\ job' = [job EXCEPT ![Watchdog] = j]
      \/ ~line /\ NotSent /\ Goes("idle")
  BY DEF Again
<1>4. UNCHANGED <<mode, slots, refs, late, active, noted, listed, alive, line, resend, replies, registered,
                  changes, faults, refreshes>>
  BY DEF Again, given, policy
<1> HIDE DEF j
<1>5. JobOk(Watchdog, j)
  BY <1>2 DEF JobOk
<1>6. job' = [job EXCEPT ![Watchdog] = j] => Turns("await")
  BY <1>2, <1>5, Constants, ChangedJob DEF Turns
<1>7. Goes("idle") => Turns("idle")
  BY GoesFacts DEF PC
<1> QED BY <1>1, <1>2, <1>3, <1>4, <1>6, <1>7 DEF AsksAgain

Drops ==
    /\ line /\ (mode = "busy" \/ job[Watchdog].pc # "restore")
    /\ faults < MaxFaults /\ faults' = faults + 1 /\ Broken
    /\ UNCHANGED <<mode, slots, refs, late, active, noted, listed, job, alive, ledger, pending, asked,
                   changes, refreshes>>

Reconnects ==
    /\ alive /\ ~line /\ line' = TRUE /\ resend' = ledger /\ asked' = {}
    /\ UNCHANGED <<mode, slots, refs, late, active, noted, listed, job, alive, ledger, pending, wire,
                   replies, registered, changes, faults, refreshes>>

Ends ==
    /\ mode # "calm" /\ alive /\ ~line /\ alive' = FALSE
    /\ UNCHANGED <<mode, slots, refs, late, active, noted, listed, job, line, ledger, pending, resend,
                   wire, replies, registered, asked, changes, faults, refreshes>>

Resubscribes(c) ==
    /\ c \in resend /\ c \in Codes /\ resend' = resend \ {c} /\ Send("sub", c, Nobody)
    /\ UNCHANGED <<mode, slots, refs, late, active, noted, listed, job, alive, line, replies, registered,
                   changes, faults, refreshes>>

Restores ==
    /\ job[Watchdog].pc = "restore" /\ Alone /\ active' = {} /\ listed' = {} /\ Turns("cut")
    /\ UNCHANGED <<mode, slots, refs, late, noted, alive, line, ledger, pending, resend, wire, replies,
                   registered, asked, changes, faults, refreshes>>

Cuts ==
    /\ job[Watchdog].pc = "cut" /\ Broken /\ alive' = FALSE /\ Turns("link")
    /\ UNCHANGED <<mode, slots, refs, late, active, noted, listed, ledger, pending, asked, changes,
                   faults, refreshes>>

Forces ==
    /\ May(Watchdog) /\ Wanted(refs) # {} /\ Broken /\ Turns("reset") /\ alive' = FALSE
    /\ \/ ~alive /\ UNCHANGED faults
       \/ mode # "calm" /\ faults < MaxFaults /\ faults' = faults + 1
    /\ UNCHANGED <<mode, slots, refs, late, active, noted, listed, ledger, pending, asked, changes,
                   refreshes>>

Resets ==
    /\ job[Watchdog].pc = "reset" /\ listed' = {} /\ Turns("link")
    /\ UNCHANGED <<mode, slots, refs, late, active, noted, alive, line, ledger, pending, resend, wire,
                   replies, registered, asked, changes, faults, refreshes>>

Relinks ==
    /\ job[Watchdog].pc = "link"
    /\ \/ Connects /\ Turns("replan") /\ UNCHANGED faults
       \/ /\ mode # "calm" /\ faults < MaxFaults /\ faults' = faults + 1
          /\ Turns("replan") /\ UNCHANGED <<alive, line, asked>>
       \/ Wanted(refs) = {} /\ Turns("idle") /\ UNCHANGED <<alive, line, asked, faults>>
    /\ UNCHANGED <<mode, slots, refs, late, active, noted, listed, ledger, pending, resend, wire,
                   replies, registered, changes, refreshes>>

IsRefreshed ==
    /\ job[Watchdog].pc = "await" /\ Turns("idle")
    /\ UNCHANGED <<mode, slots, refs, late, active, noted, listed, alive, line, ledger, pending, resend,
                   wire, replies, registered, asked, changes, faults, refreshes>>

\* The broker takes no request.
Refuses(c) ==
    /\ mode # "calm" /\ wire # <<>> /\ wire' = Tail(wire) /\ c \in Codes
    /\ faults < MaxFaults /\ faults' = faults + 1
    /\ replies' = Append(replies, [code |-> c, said |-> "used"])
    /\ UNCHANGED <<mode, slots, refs, late, active, noted, listed, job, alive, line, ledger, pending,
                   resend, registered, asked, changes, refreshes>>

\* Every step is one of these.
LEMMA Steps ==
    ASSUME Books, Traffic, JobInv, Next
    PROVE  \/ \E p \in Procs : Rebalance(p) \/ Links(p) \/ Confirms(p) \/ GoesWithout(p)
           \/ \E p \in Procs : \E c : Unsubscribes(p, c) \/ Subscribes(p, c)
           \/ Registers \/ \E p \in Procs : \E c : Discards(p, c)
           \/ \E c : Refuses(c)
           \/ \E c, s : Receives(c, s)
           \/ \E k, c, s : Answers(k, c, s)
           \/ \E c : Resubscribes(c) \/ Refreshes(c) \/ AsksAgain(c)
           \/ Drops \/ Reconnects \/ Ends \/ Restores \/ Cuts \/ Forces \/ Resets \/ Relinks
           \/ IsRefreshed
<1>1. CASE \/ \E p \in Callers, c \in Codes : AddSubscription(p, c)
           \/ \E p \in Callers, S \in SUBSET Codes : RemoveSubscription(p, S)
           \/ \E p \in Callers, k \in Lists, S \in SUBSET Codes : SyncSubscriptions(p, k, S)
           \/ (\E p \in Procs : Replan(p)) \/ Repair
  <2>1. \E p \in Procs : Rebalance(p)
    BY <1>1, RebalanceFacts, Constants
  <2> QED BY <2>1
<1>2. ASSUME NEW p \in Procs, Unsubscribe(p) \/ Subscribe(p)
      PROVE  \E q \in Procs : \E c : Unsubscribes(q, c) \/ Subscribes(q, c)
  BY <1>2, UnsubscribeFacts, SubscribeFacts
<1>3. ASSUME NEW p \in Procs, Link(p) \/ Confirmed(p) \/ Unconfirmed(p)
      PROVE  Links(p) \/ Confirms(p) \/ GoesWithout(p)
  BY <1>3, LinkFacts, ConfirmFacts, UnconfirmedFacts
<1>4. Drop => Drops
  BY DEF Drop, Drops, given, policy
<1>5. Reconnect => Reconnects
  BY DEF Reconnect, Reconnects, given, policy, broker
<1>6. GivesUp => Ends
  BY DEF GivesUp, Ends, given, policy, broker
<1>7. ASSUME NEW c \in Codes, Resubscribe(c) PROVE Resubscribes(c)
  BY <1>7 DEF Resubscribe, Resubscribes, given, policy
<1>8. Restore => Restores
  BY GoesFacts DEF Restore, Restores, PC, given, client, broker
<1>9. Cut => Cuts
  BY GoesFacts DEF Cut, Cuts, PC, given, policy
<1>10. ForceReconnect => Forces
  BY GoesFacts DEF ForceReconnect, Forces, PC, given, policy
<1>11. Reset => Resets
  BY GoesFacts DEF Reset, Resets, PC, given, client, broker
<1>12. ASSUME Relink PROVE Relinks
  <2>1. UNCHANGED <<mode, slots, refs, late, active, noted, listed, ledger, pending, resend, wire,
                    replies, registered, changes, refreshes>>
    BY <1>12 DEF Relink, given, policy, broker
  <2>2. \/ Connects /\ Goes("replan") /\ UNCHANGED faults
        \/ /\ mode # "calm" /\ faults < MaxFaults /\ faults' = faults + 1
           /\ Goes("replan") /\ UNCHANGED <<alive, line, asked>>
        \/ Wanted(refs) = {} /\ Goes("idle") /\ UNCHANGED <<alive, line, asked, faults>>
    BY <1>12 DEF Relink
  <2> QED BY <1>12, <2>1, <2>2, GoesFacts DEF Relinks, Relink, PC
<1>13. Refreshed => IsRefreshed
  BY GoesFacts DEF Refreshed, IsRefreshed, PC, given, policy, client, broker
<1>14. Receive => \E c, s : Receives(c, s)
  BY ReceiveFacts
<1>15. Answer => \E k, c, s : Answers(k, c, s)
  BY AnswerFacts
<1>16. ASSUME NEW c \in Codes, Refresh(c) PROVE Refreshes(c)
  BY <1>16, RefreshFacts
<1>17. Again => \E c : AsksAgain(c)
  BY AgainFacts
<1>18. ASSUME NEW p \in Callers, NEW k \in Kinds, NEW S \in SUBSET Codes, Register(p, k, S)
       PROVE  Registers
  BY <1>18, RegisterFacts
<1>19. ASSUME NEW p \in Callers, NEW c \in Codes, DropUnhealthy(p, c)
       PROVE  \E q \in Procs : \E d : Discards(q, d)
  BY <1>19, DiscardFacts, Constants
<1>20. ASSUME AnswerInUse PROVE Refuses(Head(wire).code)
  <2>1. Head(wire) \in Frame
    BY <1>20, TakeFacts DEF AnswerInUse
  <2> QED BY <1>20, <2>1 DEF AnswerInUse, Refuses, Frame, given, policy, client
<1> QED
  BY <1>1, <1>2, <1>3, <1>4, <1>5, <1>6, <1>7, <1>8, <1>9, <1>10, <1>11, <1>12, <1>13, <1>14,
     <1>15, <1>16, <1>17, <1>18, <1>19, <1>20 DEF Next

-----------------------------------------------------------------------------
(* Types, the line and what was asked for *)

\* A line has a receive task; without one nothing is on its way or registered; a code is listed
\* only while the policy takes it for active.
LineInv ==
    /\ line => alive
    /\ ~line => wire = <<>> /\ replies = <<>> /\ registered = {} /\ resend = {}
    /\ listed \subseteq active

\* A code that was not asked for on this connection is not registered on it, nor will be.
AskedInv ==
    \A c \in Codes \ asked :
        c \notin registered /\ ~Sent("sub", c) /\ ~Told("ok", c) /\ ~Told("already", c)

Base == Books /\ Traffic /\ JobInv /\ LineInv /\ AskedInv

\* The same books, traffic and line, whatever the jobs do.
LEMMA BaseFrame ==
    ASSUME Base, JobInv',
           UNCHANGED <<mode, slots, alive, line, ledger, pending, resend, wire, replies,
                       registered, asked>>,
           refs' \in [Codes -> SUBSET Kinds],
           active' \subseteq Codes, noted' \subseteq Codes, listed' \subseteq active',
           changes' \in 0..MaxChanges, faults' \in 0..MaxFaults,
           refreshes' \in [Codes -> 0..MaxRefresh]
    PROVE  Base'
BY SameTraffic DEF Base, Books, Traffic, LineInv, AskedInv

\* A request is sent, or there is no line to send it on.
LEMMA BaseSend ==
    ASSUME Base, JobInv', NEW k \in {"sub", "unsub"}, NEW c \in Codes,
           NEW by \in Procs \cup {Nobody},
           (line /\ Send(k, c, by)) \/ (~line /\ NotSent),
           UNCHANGED <<mode, slots, alive, line, replies, registered, faults>>,
           resend' \subseteq resend, changes' \in 0..MaxChanges,
           refs' \in [Codes -> SUBSET Kinds], noted' \subseteq Codes,
           active' \subseteq Codes, listed' \subseteq active',
           refreshes' \in [Codes -> 0..MaxRefresh]
    PROVE  Base'
<1>1. CASE line /\ Send(k, c, by)
  <2>1. /\ wire' = Append(wire, [kind |-> k, code |-> c]) /\ wire' \in Seq(Frame)
        /\ pending' \in [Codes -> Requests]
        /\ ledger' \subseteq ledger
        /\ asked' = IF k = "sub" THEN asked \cup {c} ELSE asked
    BY <1>1, SendKeeps DEF Base
  <2>2. \A m, d : Sent(m, d)' <=> Sent(m, d) \/ (m = k /\ d = c)
    BY <2>1, SendFacts DEF Base
  <2>3. Books' /\ Traffic'
    BY <2>1 DEF Base, Books, Traffic
  <2>4. LineInv'
    BY <1>1 DEF Base, LineInv
  <2>5. AskedInv'
    <3> SUFFICES ASSUME NEW d \in Codes \ asked'
                 PROVE  /\ d \notin registered /\ ~Sent("sub", d)'
                        /\ ~Told("ok", d)' /\ ~Told("already", d)'
      BY DEF AskedInv
    <3>1. d \in Codes \ asked /\ (k = "sub" => d # c)
      BY <2>1
    <3> QED BY <2>2, <3>1, SameTraffic DEF Base, AskedInv
  <2> QED BY <2>3, <2>4, <2>5 DEF Base
<1>2. CASE ~line /\ NotSent
  BY <1>2, SameTraffic DEF Base, Books, Traffic, LineInv, AskedInv, NotSent
<1> QED BY <1>1, <1>2

\* A connection is there, or a new one was made.
LEMMA BaseConnect ==
    ASSUME Base, JobInv', Connects,
           UNCHANGED <<mode, slots, refs, late, active, noted, listed, ledger, pending, resend, wire,
                       replies, registered, changes, faults, refreshes>>
    PROVE  Base'
<1>1. CASE alive /\ UNCHANGED <<alive, line, asked>>
  BY <1>1, BaseFrame DEF Base, Books, LineInv
<1>2. CASE ~alive /\ alive' = TRUE /\ line' = TRUE /\ asked' = {}
  <2>1. wire = <<>> /\ replies = <<>> /\ registered = {} /\ resend = {}
    BY <1>2 DEF Base, LineInv
  <2>2. Books' /\ Traffic' /\ LineInv'
    BY <1>2, <2>1 DEF Base, Books, Traffic, LineInv
  <2>3. AskedInv'
    BY <2>1, EmptyFacts, SameTraffic DEF AskedInv
  <2> QED BY <2>2, <2>3 DEF Base
<1> QED BY <1>1, <1>2 DEF Connects

\* The line breaks.
LEMMA BaseBreak ==
    ASSUME Base, JobInv', Broken, alive' \in BOOLEAN,
           UNCHANGED <<mode, slots, refs, late, active, noted, listed, ledger, pending, asked, changes,
                       refreshes>>,
           faults' \in 0..MaxFaults
    PROVE  Base'
<1>1. Books' /\ LineInv'
  BY DEF Base, Books, LineInv, Broken
<1>2. Traffic'
  <2>1. <<>> \in Seq(Frame) /\ <<>> \in Seq(Reply)
    OBVIOUS
  <2> QED BY <2>1 DEF Traffic, Broken
<1>3. (\A k, c : ~Sent(k, c)') /\ (\A s, c : ~Told(s, c)')
  BY DEF Broken, Sent, Told
<1>4. AskedInv'
  BY <1>3 DEF AskedInv, Broken
<1> QED BY <1>1, <1>2, <1>4 DEF Base

LEMMA BaseStep == Base /\ [Next]_vars => Base'
<1> SUFFICES ASSUME Base, [Next]_vars PROVE Base'
  OBVIOUS
<1>0. Books /\ Traffic /\ JobInv /\ LineInv /\ AskedInv
  BY DEF Base
<1>1. ASSUME NEW p \in Procs, Rebalance(p) PROVE Base'
  <2>1. JobInv'
    BY <1>0, <1>1, OnlyJobKeeps DEF Rebalance, Planning
  <2> QED BY <1>0, <1>1, <2>1, BaseFrame DEF Rebalance, Books, LineInv
<1>2. ASSUME NEW p \in Procs, Links(p) PROVE Base'
  <2>1. JobInv'
    BY <1>0, <1>2, OnlyJobKeeps DEF Links
  <2>2. CASE Connects /\ UNCHANGED faults
    BY <1>2, <2>1, <2>2, BaseConnect DEF Links
  <2>3. CASE faults < MaxFaults /\ faults' = faults + 1 /\ UNCHANGED <<alive, line, asked>>
    <3>1. faults' \in 0..MaxFaults
      BY <1>0, <2>3, Constants DEF Books
    <3> QED BY <1>0, <1>2, <2>1, <2>3, <3>1, BaseFrame DEF Links, Books, LineInv
  <2> QED BY <1>2, <2>2, <2>3 DEF Links
<1>3. ASSUME NEW p \in Procs, Confirms(p) PROVE Base'
  <2>1. JobInv'
    BY <1>0, <1>3, OnlyJobKeeps DEF Confirms, Resumes, Left
  <2>2. active' \subseteq Codes /\ listed' \subseteq active'
    BY <1>0, <1>3 DEF Confirms, Books, LineInv
  <2> QED BY <1>0, <1>3, <2>1, <2>2, BaseFrame DEF Confirms, Books
<1>4. ASSUME NEW p \in Procs, GoesWithout(p) PROVE Base'
  <2>1. JobInv'
    BY <1>0, <1>4, OnlyJobKeeps DEF GoesWithout, Resumes, Left
  <2>2. faults' \in 0..MaxFaults
    BY <1>0, <1>4, Constants DEF GoesWithout, Books
  <2> QED BY <1>0, <1>4, <2>1, <2>2, BaseFrame DEF GoesWithout, Books, LineInv
<1>5. ASSUME NEW p \in Procs, NEW c, Unsubscribes(p, c) PROVE Base'
  <2>1. JobInv' /\ c \in Codes
    BY <1>0, <1>5, OnlyJobKeeps DEF Unsubscribes, Left
  <2>2. active' \subseteq Codes /\ listed' \subseteq active'
    BY <1>0, <1>5 DEF Unsubscribes, Books, LineInv
  <2>3. (line /\ Send("unsub", c, Nobody)) \/ (~line /\ NotSent)
    BY <1>5 DEF Unsubscribes
  <2> QED BY <1>0, <1>5, <2>1, <2>2, <2>3, BaseSend DEF Unsubscribes, Books
<1>6. ASSUME NEW p \in Procs, NEW c, Subscribes(p, c) PROVE Base'
  <2>1. JobInv' /\ c \in Codes
    BY <1>0, <1>6, OnlyJobKeeps DEF Subscribes
  <2>2. (line /\ Send("sub", c, p)) \/ (~line /\ NotSent)
    BY <1>6 DEF Subscribes
  <2> QED BY <1>0, <1>6, <2>1, <2>2, BaseSend DEF Subscribes, Books, LineInv
<1>7. ASSUME NEW c, NEW s, Receives(c, s) PROVE Base'
  <2>1. JobInv'
    BY <1>0, <1>7 DEF Receives, Heard, JobInv, Jobs
  <2>2. /\ replies' \in Seq(Reply) /\ \A t, d : Told(t, d)' => Told(t, d)
    BY <1>0, <1>7, HearFacts DEF Receives
  <2>3. None \in Requests
    BY DEF None, Requests
  <2>4. Books' /\ Traffic' /\ LineInv'
    BY <1>0, <1>7, <2>2, <2>3 DEF Receives, Books, Traffic, LineInv
  <2>5. AskedInv'
    BY <1>0, <1>7, <2>2, SameTraffic DEF Receives, AskedInv
  <2> QED BY <2>1, <2>4, <2>5 DEF Base
<1>8. ASSUME NEW k, NEW c, NEW s, Answers(k, c, s) PROVE Base'
  <2>1. /\ wire' \in Seq(Frame)
        /\ \A m, d : Sent(m, d) <=> Sent(m, d)' \/ (k = m /\ c = d)
    BY <1>0, <1>8, TakeFacts DEF Answers
  <2>2. /\ replies' \in Seq(Reply)
        /\ \A t, d : Told(t, d)' <=> Told(t, d) \/ (t = s /\ d = c)
    BY <1>0, <1>8, ReplyFacts DEF Answers
  <2>3. JobInv'
    BY <1>0, <1>8 DEF Answers, JobInv, Jobs
  <2>4. line
    BY <1>0, <1>8 DEF Answers, LineInv
  <2>5. Books' /\ Traffic' /\ LineInv'
    BY <1>0, <1>8, <2>1, <2>2, <2>4 DEF Answers, Books, Traffic, LineInv
  <2>6. AskedInv'
    <3> SUFFICES ASSUME NEW d \in Codes \ asked
                 PROVE  /\ d \notin registered' /\ ~Sent("sub", d)'
                        /\ ~Told("ok", d)' /\ ~Told("already", d)'
      BY <1>8 DEF AskedInv, Answers
    <3>1. d \notin registered /\ ~Sent("sub", d) /\ ~Told("ok", d) /\ ~Told("already", d)
      BY <1>0 DEF AskedInv
    <3>2. ~(k = "sub" /\ c = d)
      BY <2>1, <3>1
    <3> QED BY <1>8, <2>1, <2>2, <3>1, <3>2 DEF Answers
  <2> QED BY <2>3, <2>5, <2>6 DEF Base
<1>9. ASSUME NEW c, Resubscribes(c) PROVE Base'
  <2>1. JobInv' /\ c \in Codes
    BY <1>0, <1>9 DEF Resubscribes, JobInv, Jobs
  <2>2. (line /\ Send("sub", c, Nobody)) \/ (~line /\ NotSent)
    BY <1>0, <1>9 DEF Resubscribes, LineInv
  <2> QED BY <1>0, <1>9, <2>1, <2>2, BaseSend DEF Resubscribes, Books, LineInv
<1>10. ASSUME NEW c, Refreshes(c) PROVE Base'
  <2>1. JobInv' /\ c \in Codes
    BY <1>0, <1>10, OnlyJobKeeps DEF Refreshes, Turns
  <2>2. (line /\ Send("unsub", c, Nobody)) \/ (~line /\ NotSent)
    BY <1>10 DEF Refreshes
  <2> QED BY <1>0, <1>10, <2>1, <2>2, BaseSend DEF Refreshes, Books, LineInv
<1>11. ASSUME NEW c, AsksAgain(c) PROVE Base'
  <2>1. JobInv' /\ c \in Codes
    BY <1>0, <1>11, OnlyJobKeeps DEF AsksAgain, Turns
  <2>2. (line /\ Send("sub", c, Watchdog)) \/ (~line /\ NotSent)
    BY <1>11 DEF AsksAgain
  <2> QED BY <1>0, <1>11, <2>1, <2>2, Constants, BaseSend DEF AsksAgain, Books, LineInv
<1>12. CASE Drops
  <2>1. JobInv' /\ faults' \in 0..MaxFaults
    BY <1>0, <1>12, Constants DEF Drops, JobInv, Jobs, Books
  <2> QED BY <1>0, <1>12, <2>1, BaseBreak DEF Drops, Books
<1>13. CASE Reconnects
  <2>1. JobInv'
    BY <1>0, <1>13 DEF Reconnects, JobInv, Jobs
  <2>2. wire = <<>> /\ replies = <<>> /\ registered = {} /\ resend = {}
    BY <1>0, <1>13 DEF Reconnects, LineInv
  <2>3. Books' /\ Traffic' /\ LineInv'
    BY <1>0, <1>13, <2>2 DEF Reconnects, Books, Traffic, LineInv
  <2>4. AskedInv'
    BY <1>13, <2>2, EmptyFacts, SameTraffic DEF Reconnects, AskedInv
  <2> QED BY <2>1, <2>3, <2>4 DEF Base
<1>14. CASE Ends
  <2>1. JobInv'
    BY <1>0, <1>14 DEF Ends, JobInv, Jobs
  <2>2. Books' /\ Traffic' /\ LineInv'
    BY <1>0, <1>14 DEF Ends, Books, Traffic, LineInv
  <2>3. AskedInv'
    BY <1>0, <1>14, SameTraffic DEF Ends, AskedInv
  <2> QED BY <2>1, <2>2, <2>3 DEF Base
<1>15. CASE Restores \/ Resets \/ IsRefreshed
  <2>1. JobInv'
    BY <1>0, <1>15, OnlyJobKeeps DEF Restores, Resets, IsRefreshed, Turns
  <2> QED BY <1>0, <1>15, <2>1, BaseFrame DEF Restores, Resets, IsRefreshed, Books, LineInv
<1>16. CASE Cuts \/ Forces
  <2>1. JobInv'
    BY <1>0, <1>16, OnlyJobKeeps DEF Cuts, Forces, Turns
  <2>2. faults' \in 0..MaxFaults
    BY <1>0, <1>16, Constants DEF Cuts, Forces, Books
  <2> QED BY <1>0, <1>16, <2>1, <2>2, BaseBreak DEF Cuts, Forces
<1>17. CASE Relinks
  <2>1. JobInv'
    BY <1>0, <1>17, OnlyJobKeeps DEF Relinks, Turns
  <2>2. CASE Connects /\ UNCHANGED faults
    BY <1>17, <2>1, <2>2, BaseConnect DEF Relinks
  <2>3. CASE UNCHANGED <<alive, line, asked>> /\ faults' \in 0..MaxFaults
    BY <1>0, <1>17, <2>1, <2>3, BaseFrame DEF Relinks, Books, LineInv
  <2>4. \/ Connects /\ UNCHANGED faults
        \/ UNCHANGED <<alive, line, asked>> /\ faults' \in 0..MaxFaults
    BY <1>0, <1>17, Constants DEF Relinks, Books
  <2> QED BY <2>2, <2>3, <2>4
<1>18. CASE Registers
  <2>1. JobInv'
    BY <1>0, <1>18 DEF Registers, JobInv, Jobs
  <2> QED BY <1>0, <1>18, <2>1, BaseFrame DEF Registers, Books, LineInv
<1>19. ASSUME NEW p \in Procs, NEW c, Discards(p, c) PROVE Base'
  <2>1. JobInv' /\ c \in Codes
    <3>1. CASE job' = job
      BY <1>0, <1>19, <3>1 DEF Discards, JobInv, Jobs
    <3>2. CASE OnlyJob(p)
      BY <1>0, <1>19, <3>2, OnlyJobKeeps DEF Discards
    <3> QED BY <1>19, <3>1, <3>2 DEF Discards
  <2>2. active' \subseteq Codes /\ listed' \subseteq active'
    BY <1>0, <1>19 DEF Discards, Books, LineInv
  <2>3. CASE line /\ Send("unsub", c, Nobody)
    BY <1>0, <1>19, <2>1, <2>2, <2>3, BaseSend DEF Discards, Books
  <2>4. CASE NotSent
    BY <1>0, <1>19, <2>1, <2>2, <2>4, BaseFrame DEF Discards, Books, NotSent
  <2> QED BY <1>19, <2>3, <2>4 DEF Discards
<1>20. ASSUME NEW c, Refuses(c) PROVE Base'
  <2>1. wire' \in Seq(Frame) /\ \A m, d : Sent(m, d)' => Sent(m, d)
    BY <1>0, <1>20, TakeFacts DEF Refuses
  <2>2. /\ replies' \in Seq(Reply)
        /\ \A t, d : Told(t, d)' <=> Told(t, d) \/ (t = "used" /\ d = c)
    BY <1>0, <1>20, ReplyFacts DEF Refuses
  <2>3. JobInv' /\ faults' \in 0..MaxFaults
    BY <1>0, <1>20, Constants DEF Refuses, JobInv, Jobs, Books
  <2>4. Books' /\ Traffic' /\ LineInv'
    BY <1>0, <1>20, <2>1, <2>2, <2>3 DEF Refuses, Books, Traffic, LineInv
  <2>5. AskedInv'
    BY <1>0, <1>20, <2>1, <2>2 DEF Refuses, AskedInv
  <2> QED BY <2>3, <2>4, <2>5 DEF Base
<1>21. CASE UNCHANGED vars
  BY <1>0, <1>21, SameTraffic
     DEF vars, given, policy, client, broker, Base, Books, Traffic, JobInv, Jobs, LineInv, AskedInv
<1> QED
  BY <1>0, <1>1, <1>2, <1>3, <1>4, <1>5, <1>6, <1>7, <1>8, <1>9, <1>10, <1>11, <1>12, <1>13,
     <1>14, <1>15, <1>16, <1>17, <1>18, <1>19, <1>20, <1>21, Steps

\* The codes with an age and those without a rebalance are codes.
LEMMA MarksStep == Marks /\ Base /\ [Next]_vars => Marks'
<1> SUFFICES ASSUME Marks, Base, [Next]_vars PROVE Marks'
  OBVIOUS
<1>0. JobInv /\ Watchdog \in Procs
  BY Constants DEF Base
<1>1. ASSUME NEW p \in Callers, NEW c \in Codes, AddSubscription(p, c) \/ DropUnhealthy(p, c)
      PROVE  Marks'
  BY <1>1 DEF AddSubscription, DropUnhealthy, SendUnsub, Plan, Marks, client
<1>2. ASSUME NEW p \in Callers, NEW k \in Kinds, NEW S \in SUBSET Codes,
             RemoveSubscription(p, S) \/ SyncSubscriptions(p, k, S) \/ Register(p, k, S)
      PROVE  Marks'
  BY <1>2 DEF RemoveSubscription, SyncSubscriptions, Register, Plan, Marks, client
<1>3. ASSUME NEW p \in Procs, Unsubscribe(p) \/ Link(p) \/ Subscribe(p) PROVE Marks'
  <2>1. Unsubscribe(p) => Marks'
    BY DEF Unsubscribe, SendUnsub, Marks
  <2>2. Link(p) => Marks'
    BY DEF Link, Marks, policy
  <2>3. Subscribe(p) => Marks'
    BY <1>0 DEF Subscribe, Marks, policy, JobInv, JobOk, Job
  <2> QED BY <1>3, <2>1, <2>2, <2>3
<1>4. ASSUME NEW p \in Procs, Confirmed(p) \/ Unconfirmed(p) \/ Replan(p) PROVE Marks'
  BY <1>4 DEF Confirmed, Unconfirmed, Replan, Plan, Marks, policy, client
<1>5. CASE Receive \/ Drop \/ Reconnect \/ GivesUp \/ Answer \/ AnswerInUse
  BY <1>5 DEF Receive, Drop, Reconnect, GivesUp, Answer, AnswerInUse, Marks, policy, client
<1>6. ASSUME NEW c \in Codes, Resubscribe(c) \/ Refresh(c) PROVE Marks'
  BY <1>6 DEF Resubscribe, Refresh, SendUnsub, Marks, policy
<1>7. CASE Restore \/ Cut \/ ForceReconnect \/ Reset \/ Relink \/ Repair
  BY <1>7 DEF Restore, Cut, ForceReconnect, Reset, Relink, Repair, Plan, Marks, policy, client
<1>8. CASE Again
  BY <1>0, <1>8 DEF Again, Marks, policy, JobInv, JobOk
<1>9. CASE Refreshed \/ UNCHANGED vars
  BY <1>9 DEF Refreshed, vars, Marks, policy, client
<1> QED
  BY <1>1, <1>2, <1>3, <1>4, <1>5, <1>6, <1>7, <1>8, <1>9 DEF Next, Kinds

-----------------------------------------------------------------------------
(* The inductive invariant *)

\* p is not at work: it has nothing to do, or waits to restore.
Idles(p) == job[p].pc \in {"idle", "restore"}

AtMostOne == \A p, q \in Procs : ~Idles(p) /\ ~Idles(q) => p = q

\* A plan drops what is not desired and takes what is.
PlanOk(p) ==
    /\ job[p].drop \cap D = {} /\ job[p].take \subseteq D
    /\ job[p].pc = "ack" => job[p].code \in D

PlanInv == AtMostOne /\ \A p \in Procs : PlanOk(p)

W == job[Watchdog].pc

\* Calm: a dead receive task is one that was never there, or one that the watchdog cut.
CalmInv ==
    /\ \A p \in Procs : job[p].pc \notin {"again", "await"} /\ (job[p].pc = "replan" => p = Watchdog)
    /\ \A p \in Procs : job[p].pc \in {"ask", "ack"} => alive
    /\ ~alive => active = {} /\ (ledger = {} \/ W = "link")
    /\ W \in {"cut", "reset", "link", "replan"} => active = {}
    /\ W \in {"cut", "reset", "link"} => ledger \subseteq D
    /\ W \in {"reset", "link"} => ~alive

\* Calm, once the books are cleared: what is still on its way is about the best codes.
CutInv ==
    W = "cut" => /\ resend \subseteq D
                 /\ \A c \in Codes : /\ ~Sent("unsub", c)
                                     /\ Sent("sub", c) \/ Told("ok", c) => c \in D

\* Calm, before the watchdog restored: the books of earlier callers are its to drop.
StartOk(c) ==
    /\ Sent("sub", c) => c \in D
    /\ Told("ok", c) /\ pending[c].kind = "sub" => c \in D
    /\ Sent("unsub", c) => pending[c].kind # "sub"
    /\ c \in ledger => c \in D \/ \E p \in Procs : c \in job[p].drop

StartInv ==
    W = "restore" => resend = {} /\ (alive => line) /\ \A c \in Codes : StartOk(c)

\* Calm: the traffic about c.
TrafficOk(c) ==
    /\ ~Told("used", c)
    /\ Told("already", c) => c \in D /\ c \in registered
    /\ Told("ok", c) /\ (pending[c].kind = "sub" \/ c \in D) => c \in registered
    /\ Sent("unsub", c) => /\ c \notin D /\ c \notin ledger
                           /\ pending[c].kind = "sub" =>
                                 c \notin registered /\ ~Told("ok", c) /\ ~Crossed(c)
    /\ c \in resend \ D => c \notin asked
    /\ c \notin D /\ Sent("sub", c) => c \notin registered /\ ~Twice("sub", c)

TrafficInv == \A c \in Codes : TrafficOk(c)

\* Calm: a code in the ledger is registered, or somebody has yet to settle it.
Planned(c) == W = "replan" \/ \E p \in Procs : c \in job[p].drop \cup job[p].take

LedgerOk(c) ==
    line /\ c \in ledger =>
       \/ c \in registered \/ c \in resend \/ Planned(c)
       \/ pending[c].kind = "sub" /\ (Sent("sub", c) \/ Told("no", c))

LedgerInv == \A c \in Codes : LedgerOk(c)

Calm == CalmInv /\ CutInv /\ StartInv /\ TrafficInv /\ LedgerInv

\* Calm, with slots for all: no desired code is refused.
RoomInv ==
    /\ active \subseteq ledger
    /\ \A p \in Procs : job[p].ack = "yes" => job[p].code \in ledger
    /\ \A c \in Codes : /\ Told("no", c) => c \notin D
                        /\ Told("no", c) \/ Sent("unsub", c) => c \notin active

\* What the broker will have registered once it has read what is on its way.
Ending(c) == Sent("sub", c) \/ (c \in registered /\ ~Sent("unsub", c))

EndsAt(S) == \A c \in Codes : Ending(c) <=> c \in S

NoSub == \A c \in Codes : ~Sent("sub", c)

\* The policy takes only wanted codes for active, and after a rebalance the best of them.
Settled == active \subseteq Wanted(refs) /\ (late = {} => active = D)

\* Without a fault: while p carries out its plan, ...
BestRun(p) ==
    job[p].pc \in {"run", "ask"} =>
       /\ job[p].pc = "run" => NoSub
       /\ EndsAt(active)
       /\ active \ D \subseteq job[p].drop /\ job[p].take = D \ active

\* ... while it waits for an answer, ...
BestAck(p) ==
    job[p].pc = "ack" =>
       LET c == job[p].code IN
       /\ active \subseteq D /\ job[p].take = D \ (active \cup {c})
       /\ EndsAt(active \cup {c})
       /\ job[p].ack = "open" => pending[c].kind = "sub" /\ pending[c].by = p /\ c \in asked
       /\ job[p].ack # "no"

\* ... and while it refreshes, restores or is about to rebalance.
BestRest(p) ==
    /\ job[p].pc = "again" =>
          /\ Settled /\ job[p].code \in active /\ Cardinality(active) <= slots
          /\ NoSub /\ EndsAt(active \ {job[p].code})
    /\ job[p].pc = "await" => Settled /\ EndsAt(active)
    /\ job[p].pc \in {"cut", "reset", "link"} => active = {} /\ wire = <<>> /\ replies = <<>>
    /\ job[p].pc \in {"reset", "link"} => registered = {}
    /\ job[p].pc = "replan" => EndsAt(active) /\ NoSub

\* No desired code is refused, nor are more registered in the end than there are slots.
NoRefusal ==
    \A c \in D : /\ ~Told("no", c) /\ ~Told("used", c) /\ ~Twice("unsub", c)
                 /\ Sent("unsub", c) => c \in registered

Fits == Cardinality({c \in Codes : Ending(c)}) <= slots

BestInv ==
    /\ alive => line
    /\ resend = {} /\ UnsubsFirst /\ NoRefusal /\ Fits
    /\ \A p \in Procs : job[p].pc \in {"ask", "ack", "again"} => line
    /\ \A p \in Procs : BestRun(p) /\ BestAck(p) /\ BestRest(p)
    /\ (\A p \in Procs : Idles(p)) => Settled /\ EndsAt(active)

IInv ==
    /\ Base /\ Marks
    /\ mode # "busy" => PlanInv
    /\ mode = "calm" => Calm
    /\ mode = "calm" /\ slots >= Cardinality(Codes) => RoomInv
    /\ mode # "busy" /\ faults = 0 => BestInv

LEMMA PlanKeeps ==
    ASSUME PlanInv, UNCHANGED <<refs, slots>>, NEW p \in Procs, OnlyJob(p),
           ~Idles(p) \/ \A q \in Procs : Idles(q),
           PlanOk(p)'
    PROVE  PlanInv'
<1>1. D' = D /\ \A q \in Procs \ {p} : job'[q] = job[q]
  BY SameDesired DEF OnlyJob
<1>2. AtMostOne'
  <2> SUFFICES ASSUME NEW q \in Procs, NEW r \in Procs, ~Idles(q)', ~Idles(r)' PROVE q = r
    BY DEF AtMostOne
  <2> QED BY <1>1 DEF PlanInv, AtMostOne, Idles
<1>3. \A q \in Procs : PlanOk(q)'
  BY <1>1 DEF PlanInv, PlanOk
<1> QED BY <1>2, <1>3 DEF PlanInv

\* Where jobs keep what they are about.
LEMMA PlanStays ==
    ASSUME PlanInv, UNCHANGED <<refs, slots>>,
           \A p \in Procs : /\ job'[p].pc = job[p].pc /\ job'[p].drop = job[p].drop
                            /\ job'[p].take = job[p].take /\ job'[p].code = job[p].code
    PROVE  PlanInv'
<1>1. D' = D
  BY SameDesired
<1> QED BY <1>1 DEF PlanInv, AtMostOne, PlanOk, Idles

LEMMA PlanStep == Base /\ mode # "busy" /\ PlanInv /\ [Next]_vars => PlanInv'
<1> SUFFICES ASSUME Base, mode # "busy", PlanInv, [Next]_vars PROVE PlanInv'
  OBVIOUS
<1>0. /\ Books /\ Traffic /\ JobInv /\ Watchdog \in Procs
      /\ AtMostOne /\ \A p \in Procs : PlanOk(p) /\ JobOk(p, job[p])
  BY Constants DEF Base, PlanInv, JobInv
<1>1. ASSUME NEW p \in Procs, Rebalance(p) PROVE PlanInv'
  <2>1. D' = Desired(refs')
    BY <1>1 DEF Rebalance, Desired, D
  <2>2. PlanOk(p)'
    BY <1>1, <2>1 DEF Rebalance, Planning, PlanOk
  <2>3. CASE May(p)
    <3>1. \A q \in Procs : Idles(q)
      BY <1>0, <2>3 DEF May, Alone, Still, Idles
    <3>2. \A q \in Procs \ {p} : Idles(q)' /\ job'[q] = job[q] /\ PlanOk(q)'
      BY <1>0, <1>1, <3>1 DEF Rebalance, Planning, OnlyJob, Idles, JobOk, PlanOk
    <3> QED BY <2>2, <3>2 DEF PlanInv, AtMostOne
  <2>4. CASE job[p].pc = "replan" /\ UNCHANGED refs
    BY <1>0, <1>1, <2>2, <2>4, PlanKeeps DEF Rebalance, Planning, Idles
  <2> QED BY <1>1, <2>3, <2>4 DEF Rebalance
<1>2. ASSUME NEW p \in Procs, NEW c, Unsubscribes(p, c) PROVE PlanInv'
  <2>1. PlanOk(p)'
    BY <1>0, <1>2, SameDesired DEF Unsubscribes, Left, PlanOk
  <2> QED BY <1>0, <1>2, <2>1, PlanKeeps DEF Unsubscribes, Left, Idles
<1>3. ASSUME NEW p \in Procs, Links(p) PROVE PlanInv'
  <2>1. PlanOk(p)'
    BY <1>0, <1>3, SameDesired DEF Links, PlanOk
  <2> QED BY <1>0, <1>3, <2>1, PlanKeeps DEF Links, Idles
<1>4. ASSUME NEW p \in Procs, NEW c, Subscribes(p, c) PROVE PlanInv'
  <2>1. PlanOk(p)'
    BY <1>0, <1>4, SameDesired DEF Subscribes, Left, PlanOk
  <2> QED BY <1>0, <1>4, <2>1, PlanKeeps DEF Subscribes, Idles
<1>5. ASSUME NEW p \in Procs, Resumes(p), job[p].pc = "ack", UNCHANGED <<refs, slots>>
      PROVE  PlanInv'
  <2>1. PlanOk(p)'
    BY <1>0, <1>5, SameDesired DEF Resumes, Left, PlanOk
  <2> QED BY <1>0, <1>5, <2>1, PlanKeeps DEF Resumes, Left, Idles
<1>6. ASSUME NEW p \in Procs, Confirms(p) PROVE PlanInv'
  BY <1>5, <1>6 DEF Confirms
<1>7. ASSUME NEW p \in Procs, GoesWithout(p) PROVE PlanInv'
  <2>1. CASE job[p].pc = "await" /\ OnlyJob(p) /\ job'[p] = Idle
    <3>1. PlanOk(p)'
      BY <2>1, IdleFacts DEF PlanOk
    <3> QED BY <1>0, <1>7, <2>1, <3>1, PlanKeeps DEF GoesWithout, Idles
  <2> QED BY <1>5, <1>7, <2>1 DEF GoesWithout
<1>8. ASSUME NEW pc, Turns(pc), pc # "ack", UNCHANGED <<refs, slots>>,
             ~Idles(Watchdog) \/ Still
      PROVE  PlanInv'
  <2>1. PlanOk(Watchdog)'
    BY <1>8 DEF Turns, PlanOk
  <2>2. Still => \A q \in Procs : Idles(q)
    BY DEF Still, Idles
  <2> QED BY <1>0, <1>8, <2>1, <2>2, PlanKeeps DEF Turns
<1>9. CASE Restores \/ Cuts \/ Forces \/ Resets \/ Relinks \/ IsRefreshed
  BY <1>0, <1>8, <1>9
     DEF Restores, Cuts, Forces, Resets, Relinks, IsRefreshed, Idles, May, Alone
<1>10. ASSUME NEW c, Refreshes(c) \/ AsksAgain(c) PROVE PlanInv'
  BY <1>0, <1>8, <1>10 DEF Refreshes, AsksAgain, Idles, May, Alone
<1>11. ASSUME NEW c, NEW s, Receives(c, s) PROVE PlanInv'
  BY <1>11, PlanStays DEF Receives, Heard
<1>12. ASSUME \/ Drops \/ Reconnects \/ Ends \/ UNCHANGED vars
              \/ \E c : Resubscribes(c)
              \/ \E k, c, s : Answers(k, c, s)
              \/ \E c : Refuses(c)
       PROVE  PlanInv'
  <2>1. UNCHANGED <<refs, slots, job>>
    BY <1>12 DEF Drops, Reconnects, Ends, vars, given, policy, Resubscribes, Answers, Refuses
  <2> QED BY <2>1, PlanStays
\* Nobody is at work, so there is no plan that the new ranking could be against.
<1>13. ASSUME NEW p \in Procs, Still,
              job' = job \/ (OnlyJob(p) /\ job'[p].drop = {} /\ job'[p].take = {}
                                /\ job'[p].pc # "ack")
       PROVE  PlanInv'
  <2>1. \A q \in Procs : Idles(q) /\ job[q].drop = {} /\ job[q].take = {} /\ job[q].pc # "ack"
    BY <1>0, <1>13 DEF Still, Idles, JobOk
  <2>2. \A q \in Procs : job'[q].drop = {} /\ job'[q].take = {} /\ job'[q].pc # "ack"
    BY <1>13, <2>1 DEF OnlyJob
  <2>3. \A q \in Procs \ {p} : Idles(q)'
    BY <1>13, <2>1 DEF OnlyJob, Idles
  <2> QED BY <2>2, <2>3 DEF PlanInv, AtMostOne, PlanOk
<1>14. CASE Registers
  BY <1>0, <1>13, <1>14 DEF Registers, Alone
<1>15. ASSUME NEW p \in Procs, NEW c, Discards(p, c) PROVE PlanInv'
  BY <1>0, <1>13, <1>15 DEF Discards, Alone
<1> QED
  BY <1>0, <1>1, <1>2, <1>3, <1>4, <1>6, <1>7, <1>9, <1>10, <1>11, <1>12, <1>14, <1>15, Steps

\* What the steps of a calm run may use.
Given ==
    /\ Books /\ Traffic /\ JobInv /\ LineInv /\ AskedInv /\ PlanInv
    /\ mode = "calm" /\ CalmInv /\ CutInv /\ StartInv /\ TrafficInv

\* Who is at work is alone, and nobody begins while there is anything under way.
LEMMA OneAtWork ==
    ASSUME Given
    PROVE  /\ \A p, q \in Procs : ~Idles(p) /\ ~Idles(q) => p = q
           /\ \A p \in Procs : ~Idles(p) /\ p # Watchdog => W \in {"idle", "restore"}
           /\ \A p \in Procs : May(p) => Still /\ Idles(p)
           /\ Still => \A p \in Procs : Idles(p) /\ job[p].drop = {} /\ job[p].take = {}
           /\ Watchdog \in Procs
BY Constants DEF Given, PlanInv, AtMostOne, Idles, W, May, Alone, Still, JobInv, JobOk

\* What a change without a rebalance may be in a calm run.
LEMMA CalmChange ==
    ASSUME Given
    PROVE  /\ Registers => Still /\ W = "idle"
           /\ \A p, c : Discards(p, c) =>
                 /\ Still /\ W = "idle" /\ job' = job /\ c \in Codes /\ c \notin D'
                 /\ active' = active \ {c} /\ UNCHANGED <<alive, line, resend, replies, registered>>
           /\ \A c : ~Refuses(c)
BY DEF Given, Registers, Discards, Refuses, Alone, W, D, Desired, Wanted

\* And what is then on its way.
LEMMA DiscardTraffic ==
    ASSUME Given, NEW p, NEW c, Discards(p, c)
    PROVE  /\ \A s, d : ~Told(s, d)'
           /\ \A k, d : Sent(k, d)' => k = "unsub" /\ d = c
           /\ Sent("unsub", c)' => c \notin ledger' /\ pending'[c].kind = "unsub"
           /\ \A d : ~Crossed(d)' /\ resend' = {}
           /\ ledger' \subseteq ledger
           /\ \A d \in Codes \ {c} : (d \in ledger' <=> d \in ledger) /\ pending'[d] = pending[d]
           /\ c \in ledger' => ledger' = ledger /\ pending' = pending
<1>1. /\ Books /\ Traffic /\ Still /\ c \in Codes /\ UNCHANGED <<resend, replies>>
      /\ wire = <<>> /\ replies = <<>> /\ resend = {}
  BY CalmChange DEF Given, Still
<1>2. /\ \A k, d : ~Sent(k, d)
      /\ (\A d : ~Crossed(d)) /\ \A s, d : ~Told(s, d)'
  BY <1>1, EmptyFacts, SameTraffic
<1>3. CASE Send("unsub", c, Nobody)
  <2>1. /\ \A m, d : Sent(m, d)' <=> Sent(m, d) \/ (m = "unsub" /\ d = c)
        /\ \A d : Crossed(d)' <=> Crossed(d) \/ (d = c /\ Sent("sub", c))
    BY <1>1, <1>3, SendFacts DEF Send
  <2>2. /\ pending'[c].kind = "unsub" /\ ledger' = ledger \ {c}
        /\ \A d \in Codes \ {c} : pending'[d] = pending[d]
    BY <1>1, <1>3, SendKeeps
  <2> QED BY <1>1, <1>2, <2>1, <2>2
<1>4. CASE NotSent
  <2>1. UNCHANGED <<wire, pending, ledger>>
    BY <1>4 DEF NotSent
  <2> QED BY <1>1, <1>2, <2>1, SameTraffic
<1> QED BY <1>3, <1>4 DEF Discards

LEMMA CalmStep == Given /\ [Next]_vars => CalmInv'
<1> SUFFICES ASSUME Given, [Next]_vars PROVE CalmInv'
  OBVIOUS
<1>0. /\ Books /\ Traffic /\ JobInv /\ LineInv /\ AskedInv /\ PlanInv
      /\ mode = "calm" /\ CalmInv /\ CutInv /\ StartInv /\ TrafficInv /\ Watchdog \in Procs
      /\ \A p \in Procs : JobOk(p, job[p])
  BY Constants DEF Given, JobInv
<1>1. ASSUME NEW p \in Procs, Rebalance(p) PROVE CalmInv'
  <2>1. \/ Still /\ Idles(p)
        \/ p = Watchdog /\ W = "replan" /\ UNCHANGED refs
    BY <1>0, <1>1, OneAtWork DEF Rebalance, W, CalmInv
  <2>2. /\ W' \notin {"cut", "reset", "link", "replan", "again", "await"}
        /\ W' = W \/ p = Watchdog
        /\ \A q \in Procs : job'[q] = job[q] \/ job'[q].pc \in {"run", "idle"}
        /\ UNCHANGED <<active, ledger, alive>>
    BY <1>0, <1>1, <2>1, OneAtWork DEF Rebalance, Planning, OnlyJob, Idles, W
  <2>3. W # "link"
    BY <1>0, <2>1, OneAtWork DEF Idles, W
  <2> QED BY <1>0, <2>2, <2>3 DEF CalmInv, W
<1>2. ASSUME NEW p \in Procs, NEW c, Unsubscribes(p, c) PROVE CalmInv'
  <2>1. /\ W' = W \/ p = Watchdog
        /\ \A q \in Procs : job'[q] = job[q] \/ job'[q].pc \in {"run", "idle"}
        /\ UNCHANGED <<alive, refs, slots>> /\ active' \subseteq active
    <3>1. OnlyJob(p) /\ job'[p].pc \in {"run", "idle"}
      BY <1>2 DEF Unsubscribes, Left
    <3>2. UNCHANGED <<alive, refs, slots>> /\ active' \subseteq active
      BY <1>2 DEF Unsubscribes
    <3> QED BY <3>1, <3>2, <1>0 DEF OnlyJob, W
  <2>4. ledger' \subseteq ledger
    <3>1. CASE line
      BY <1>2, <3>1 DEF Unsubscribes, Send
    <3>2. CASE ~line
      BY <1>2, <3>2 DEF Unsubscribes, NotSent
    <3> QED BY <3>1, <3>2
  <2>2. W # "link" /\ W # "cut" /\ W # "replan"
    BY <1>0, <1>2, OneAtWork DEF Idles, W, Unsubscribes
  <2>3. D' = D /\ W' # "reset" /\ W' # "cut" /\ W' # "link" /\ W' # "replan"
    BY <1>0, <1>2, <2>1, OneAtWork, SameDesired DEF Idles, W, Unsubscribes
  <2> QED BY <1>0, <2>1, <2>2, <2>3, <2>4 DEF CalmInv, W
<1>3. ASSUME NEW p \in Procs, Links(p) PROVE CalmInv'
  <2>1. /\ \A q \in Procs : job'[q] = job[q] \/ (job'[q].pc = "ask" /\ alive') \/ job'[q].pc = "idle"
        /\ UNCHANGED <<active, ledger, refs, slots>>
    BY <1>3, <1>0 DEF Links, Connects, OnlyJob
  <2>3. D' = D /\ (alive' = alive \/ alive')
    BY <1>3, SameDesired DEF Links, Connects
  <2>2. W \in {"run", "idle", "restore"} /\ W' \in {"ask", "idle", "restore"}
    BY <1>0, <1>3, <2>1, OneAtWork DEF Idles, W, Links, OnlyJob
  <2> QED BY <1>0, <2>1, <2>2, <2>3 DEF CalmInv, W
<1>4. ASSUME NEW p \in Procs, NEW c, Subscribes(p, c) PROVE CalmInv'
  <2>1. /\ \A q \in Procs : job'[q] = job[q] \/ job'[q].pc \in {"ask", "ack", "idle"}
        /\ UNCHANGED <<active, ledger, alive, refs, slots>> /\ alive
    BY <1>4, <1>0 DEF Subscribes, Left, OnlyJob, Send, NotSent, CalmInv
  <2>2. W \in {"ask", "idle", "restore"} /\ W' \in {"ask", "ack", "idle", "restore"}
    BY <1>0, <1>4, <2>1, OneAtWork DEF Idles, W, Subscribes
  <2> QED BY <1>0, <2>1, <2>2 DEF CalmInv, W
<1>5. ASSUME NEW p \in Procs, Resumes(p), job[p].pc = "ack",
             UNCHANGED <<ledger, alive, refs, slots>>
      PROVE  CalmInv'
  <2>1. /\ \A q \in Procs : job'[q] = job[q] \/ job'[q].pc \in {"ask", "idle"}
        /\ alive
    BY <1>5, <1>0 DEF Resumes, Left, OnlyJob, CalmInv
  <2>2. W \in {"ack", "idle", "restore"} /\ W' \in {"ask", "idle", "restore"}
    BY <1>0, <1>5, <2>1, OneAtWork DEF Idles, W, Resumes, Left, OnlyJob
  <2> QED BY <1>0, <1>5, <2>1, <2>2 DEF CalmInv, W
<1>6. ASSUME NEW p \in Procs, Confirms(p) \/ GoesWithout(p) PROVE CalmInv'
  BY <1>0, <1>5, <1>6 DEF Confirms, GoesWithout, CalmInv
<1>7. ASSUME NEW c, NEW s, Receives(c, s) PROVE CalmInv'
  <2>1. /\ \A q \in Procs : job'[q].pc = job[q].pc
        /\ UNCHANGED <<active, alive, refs, slots>> /\ alive
    BY <1>7 DEF Receives, Heard
  <2>2. W = "cut" => ledger' \subseteq D
    <3>1. Told(s, c) /\ c \in Codes
      BY <1>0, <1>7, HearFacts DEF Receives
    <3>2. W = "cut" => c \in D \/ ledger' \subseteq ledger
      BY <1>0, <1>7, <3>1 DEF Receives, CutInv, TrafficInv, TrafficOk
    <3> QED BY <1>0, <1>7, <3>2 DEF Receives, CalmInv
  <2>3. D' = D
    BY <2>1, SameDesired
  <2> QED BY <1>0, <2>1, <2>2, <2>3 DEF CalmInv, W
<1>8. ASSUME \/ Drops \/ Reconnects \/ UNCHANGED vars
             \/ \E c : Resubscribes(c)
             \/ \E k, c, s : Answers(k, c, s)
      PROVE  CalmInv'
  <2>1. UNCHANGED <<refs, slots, job, active, alive, ledger>>
    BY <1>8 DEF Drops, Reconnects, vars, given, policy, client, Resubscribes, Answers, Send
  <2>2. D' = D
    BY <2>1, SameDesired
  <2> QED BY <1>0, <2>1, <2>2 DEF CalmInv, W
<1>9. CASE Restores
  <2>1. ledger \subseteq D
    <3>1. Still /\ \A p \in Procs : job[p].drop = {}
      BY <1>0, <1>9, OneAtWork DEF Restores, Alone
    <3> QED BY <1>0, <1>9, <3>1 DEF Restores, StartInv, StartOk, W, Books
  <2>2. D' = D
    BY <1>9, SameDesired DEF Restores
  <2>3. \A p \in Procs : job'[p].pc = "cut" \/ (p # Watchdog /\ job'[p] = job[p])
    BY <1>9 DEF Restores, Turns, OnlyJob
  <2> QED BY <1>0, <1>9, <2>1, <2>2, <2>3 DEF CalmInv, W, Restores, Turns
<1>10. CASE Cuts \/ Forces
  <2>1. active = {} /\ ledger \subseteq D /\ (Forces => ledger = {})
    BY <1>0, <1>10, OneAtWork DEF Cuts, Forces, CalmInv, W, May
  <2>2. D' = D
    BY <1>10, SameDesired DEF Cuts, Forces
  <2>3. \A p \in Procs \ {Watchdog} : job'[p] = job[p] /\ Idles(p)
    BY <1>0, <1>10, OneAtWork DEF Cuts, Forces, Turns, OnlyJob, Idles, W
  <2>4. \A p \in Procs : job'[p].pc \notin {"ask", "ack", "again", "await", "replan"}
    BY <1>10, <2>3 DEF Cuts, Forces, Turns, Idles
  <2> QED BY <1>10, <2>1, <2>2, <2>4 DEF CalmInv, W, Cuts, Forces, Turns
<1>11. CASE Resets \/ Relinks
  <2>1. /\ active = {} /\ ledger \subseteq D /\ ~alive
        /\ UNCHANGED <<active, ledger, refs, slots>>
    BY <1>0, <1>11 DEF Resets, Relinks, CalmInv, W
  <2>2. D' = D
    BY <2>1, SameDesired
  <2>3. \A p \in Procs \ {Watchdog} : job'[p] = job[p] /\ Idles(p)
    BY <1>0, <1>11, OneAtWork DEF Resets, Relinks, Turns, OnlyJob, Idles, W
  <2>4. \A p \in Procs : /\ job'[p].pc \notin {"ask", "ack", "again", "await"}
                         /\ job'[p].pc = "replan" => p = Watchdog
    BY <1>11, <2>3 DEF Resets, Relinks, Turns, Idles
  <2>5. CASE Resets
    <3>1. W' = "link" /\ ~alive' /\ active' = {} /\ ledger' \subseteq D'
      BY <2>1, <2>2, <2>5 DEF W, Resets, Turns
    <3> QED BY <2>4, <3>1 DEF CalmInv
  <2>6. CASE Relinks /\ Connects /\ Turns("replan")
    <3>1. alive'
      BY <2>6 DEF Connects
    <3>2. W' = "replan" /\ active' = {}
      BY <2>1, <2>6 DEF W, Turns
    <3> QED BY <2>4, <3>1, <3>2 DEF CalmInv
  <2>7. CASE Relinks /\ Wanted(refs) = {} /\ Turns("idle")
    <3>1. ledger = {}
      BY <1>0, <2>1, <2>7, DesiredFacts
    <3>2. W' = "idle" /\ active' = {} /\ ledger' = {}
      BY <2>1, <2>7, <3>1 DEF W, Turns
    <3> QED BY <2>4, <3>2 DEF CalmInv
  <2> QED BY <1>0, <1>11, <2>5, <2>6, <2>7 DEF Relinks
<1>12. CASE Registers
  <2>1. W = "idle" /\ W' = "idle" /\ UNCHANGED <<job, active, alive, ledger>>
    BY <1>12, CalmChange DEF Registers, W
  <2> QED BY <1>0, <2>1 DEF CalmInv
<1>13. ASSUME NEW p \in Procs, NEW c, Discards(p, c) PROVE CalmInv'
  <2>1. W = "idle" /\ W' = "idle" /\ UNCHANGED <<job, alive>> /\ active' \subseteq active
    BY <1>13, CalmChange DEF W
  <2>2. ledger' \subseteq ledger
    BY <1>13, DiscardTraffic
  <2> QED BY <1>0, <2>1, <2>2 DEF CalmInv
<1>14. /\ ~Ends /\ ~IsRefreshed
       /\ \A c : ~Refreshes(c) /\ ~AsksAgain(c) /\ ~Refuses(c)
  BY <1>0, CalmChange DEF Ends, IsRefreshed, Refreshes, AsksAgain, CalmInv
<1> QED
  BY <1>0, <1>1, <1>2, <1>3, <1>4, <1>6, <1>7, <1>8, <1>9, <1>10, <1>11, <1>12, <1>13, <1>14, Steps

LEMMA CutStep == Given /\ [Next]_vars => CutInv'
<1> SUFFICES ASSUME Given, [Next]_vars, W' = "cut"
             PROVE  /\ resend' \subseteq D'
                    /\ \A c \in Codes : /\ ~Sent("unsub", c)'
                                        /\ Sent("sub", c)' \/ Told("ok", c)' => c \in D'
  BY DEF CutInv
<1>0. /\ Books /\ Traffic /\ JobInv /\ LineInv /\ CalmInv /\ CutInv /\ Watchdog \in Procs
  BY Constants DEF Given
<1>1. CASE W # "cut"
  <2>1. Restores
    <3>1. ASSUME NEW p \in Procs, Rebalance(p) PROVE FALSE
      BY <1>0, <1>1, <3>1 DEF Rebalance, Planning, OnlyJob, W
    <3>2. ASSUME NEW p \in Procs, Links(p) \/ Confirms(p) \/ GoesWithout(p) PROVE FALSE
      BY <1>0, <1>1, <3>2, IdleFacts
         DEF Links, Confirms, GoesWithout, Resumes, Left, OnlyJob, W
    <3>3. ASSUME NEW p \in Procs, NEW c, Unsubscribes(p, c) \/ Subscribes(p, c) PROVE FALSE
      <4>1. OnlyJob(p) /\ job'[p].pc \in {"run", "ack", "ask", "idle"}
        BY <3>3 DEF Unsubscribes, Subscribes, Left
      <4> QED BY <1>0, <1>1, <4>1 DEF OnlyJob, W
    <3>4. ASSUME NEW c, NEW s, Receives(c, s) PROVE FALSE
      BY <1>0, <1>1, <3>4 DEF Receives, Heard, W
    <3>5. ASSUME NEW c, Refreshes(c) \/ AsksAgain(c) PROVE FALSE
      BY <1>0, <1>1, <3>5 DEF Refreshes, AsksAgain, Turns, W
    <3>6. ASSUME \/ Drops \/ Reconnects \/ Ends \/ UNCHANGED vars
                 \/ \E c : Resubscribes(c)
                 \/ \E k, c, s : Answers(k, c, s)
          PROVE  FALSE
      BY <1>1, <3>6 DEF W, Drops, Reconnects, Ends, vars, Resubscribes, Answers
    <3>8. ~Registers /\ (\A p, c : ~Discards(p, c)) /\ \A c : ~Refuses(c)
      BY <1>1, CalmChange DEF Registers, W
    <3>7. ~Cuts /\ ~Forces /\ ~Resets /\ ~Relinks /\ ~IsRefreshed
      BY DEF Cuts, Forces, Resets, Relinks, IsRefreshed, Turns, W
    <3> QED BY <1>0, <3>1, <3>2, <3>3, <3>4, <3>5, <3>6, <3>7, <3>8, Steps
  <2>2. Still /\ UNCHANGED <<wire, replies, resend>>
    BY <1>0, <2>1 DEF Restores, Alone, Given
  <2> QED BY <2>2, EmptyFacts, SameTraffic DEF Still
<1>2. CASE W = "cut"
  <2>0. /\ resend \subseteq D /\ ledger \subseteq D
        /\ \A c \in Codes : ~Sent("unsub", c) /\ (Sent("sub", c) \/ Told("ok", c) => c \in D)
        /\ \A p \in Procs : ~May(p) /\ (~Idles(p) => p = Watchdog) /\ ~Idles(Watchdog)
    BY <1>0, <1>2, OneAtWork DEF CutInv, CalmInv, W, Idles, Still
  <2>1. ASSUME NEW c, NEW s, Receives(c, s)
        PROVE  /\ UNCHANGED <<refs, slots, wire, resend>> /\ \A t, d : Told(t, d)' => Told(t, d)
    BY <1>0, <2>1, HearFacts DEF Receives
  <2>2. ASSUME NEW k, NEW c, NEW s, Answers(k, c, s)
        PROVE  /\ UNCHANGED <<refs, slots, resend>> /\ \A m, d : Sent(m, d)' => Sent(m, d)
               /\ \A d \in Codes : Told("ok", d)' => d \in D
    <3>1. /\ \A m, d : Sent(m, d) <=> Sent(m, d)' \/ (k = m /\ c = d)
      BY <1>0, <2>2, TakeFacts DEF Answers
    <3>2. \A t, d : Told(t, d)' <=> Told(t, d) \/ (t = s /\ d = c)
      BY <1>0, <2>2, ReplyFacts DEF Answers
    <3> QED BY <2>0, <2>2, <3>1, <3>2 DEF Answers
  <2>3. ASSUME Drops
        PROVE  UNCHANGED <<refs, slots>> /\ resend' = {} /\ wire' = <<>> /\ replies' = <<>>
    BY <2>3 DEF Drops, Broken
  <2>4. ASSUME Reconnects
        PROVE  UNCHANGED <<refs, slots, wire, replies>> /\ resend' = ledger
    BY <2>4 DEF Reconnects
  <2>5. ASSUME NEW c, Resubscribes(c)
        PROVE  /\ UNCHANGED <<refs, slots, replies>> /\ resend' \subseteq resend /\ c \in D
               /\ \A m, d : Sent(m, d)' <=> Sent(m, d) \/ (m = "sub" /\ d = c)
    BY <1>0, <2>0, <2>5, SendFacts DEF Resubscribes, Send
  <2>6. UNCHANGED vars => UNCHANGED <<refs, slots, wire, replies, resend>>
    BY DEF vars, given, policy, client, broker
  <2>7. ASSUME NEW p \in Procs
        PROVE  ~Rebalance(p) /\ ~Links(p) /\ ~Confirms(p) /\ ~GoesWithout(p)
    BY <1>2, <2>0 DEF Rebalance, Links, Confirms, GoesWithout, Idles, W
  <2>8. ASSUME NEW p \in Procs, NEW c
        PROVE  ~Unsubscribes(p, c) /\ ~Subscribes(p, c) /\ ~Refreshes(c) /\ ~AsksAgain(c)
    BY <1>2, <2>0, <1>0 DEF Unsubscribes, Subscribes, Refreshes, AsksAgain, Idles, W
  <2>9. ~Cuts /\ ~Forces /\ ~Resets /\ ~Relinks /\ ~IsRefreshed /\ ~Ends /\ ~Restores
    BY <1>0, <1>2, <2>0 DEF Cuts, Forces, Resets, Relinks, IsRefreshed, Ends, Restores, Turns, W, Given
  <2>17. ~Registers /\ (\A p, c : ~Discards(p, c)) /\ \A c : ~Refuses(c)
    BY <1>2, CalmChange
  <2>10. \/ \E c, s : Receives(c, s)
         \/ \E k, c, s : Answers(k, c, s)
         \/ \E c : Resubscribes(c)
         \/ Drops \/ Reconnects \/ UNCHANGED vars
    BY <1>0, <2>7, <2>8, <2>9, <2>17, Steps
  <2>11. CASE \E c, s : Receives(c, s)
    BY <2>0, <2>1, <2>11, SameTraffic, SameDesired
  <2>12. CASE \E k, c, s : Answers(k, c, s)
    BY <2>0, <2>2, <2>12, SameDesired
  <2>13. CASE \E c : Resubscribes(c)
    BY <2>0, <2>5, <2>13, SameTraffic, SameDesired
  <2>14. CASE Drops
    BY <2>3, <2>14, EmptyFacts DEF Sent, Told
  <2>15. CASE Reconnects
    BY <2>0, <2>4, <2>15, SameTraffic, SameDesired
  <2>16. CASE UNCHANGED vars
    BY <2>0, <2>6, <2>16, SameTraffic, SameDesired
  <2> QED BY <2>10, <2>11, <2>12, <2>13, <2>14, <2>15, <2>16
<1> QED BY <1>1, <1>2

LEMMA StartStep == Given /\ [Next]_vars => StartInv'
<1> SUFFICES ASSUME Given, [Next]_vars, W' = "restore"
             PROVE  resend' = {} /\ (alive' => line') /\ \A c \in Codes : StartOk(c)'
  BY DEF StartInv
<1>0. /\ Books /\ Traffic /\ JobInv /\ LineInv /\ CalmInv /\ Watchdog \in Procs /\ mode = "calm"
      /\ \A c \in Codes : TrafficOk(c)
      /\ \A p \in Procs : PlanOk(p) /\ JobOk(p, job[p])
  BY Constants DEF Given, TrafficInv, PlanInv, JobInv
<1>1. W = "restore"
  <2>1. ASSUME NEW p \in Procs, Rebalance(p) \/ Links(p) \/ Confirms(p) \/ GoesWithout(p)
        PROVE  job'[p].pc # "restore" /\ OnlyJob(p)
    <3>1. Rebalance(p) => job'[p].pc # "restore" /\ OnlyJob(p)
      BY DEF Rebalance, Planning
    <3>2. Links(p) => job'[p].pc # "restore" /\ OnlyJob(p)
      BY DEF Links
    <3>3. Confirms(p) => job'[p].pc # "restore" /\ OnlyJob(p)
      BY DEF Confirms, Resumes, Left
    <3>4. GoesWithout(p) => job'[p].pc # "restore" /\ OnlyJob(p)
      BY IdleFacts DEF GoesWithout, Resumes, Left
    <3> QED BY <2>1, <3>1, <3>2, <3>3, <3>4
  <2>2. ASSUME NEW p \in Procs, NEW c, Unsubscribes(p, c) \/ Subscribes(p, c)
        PROVE  job'[p].pc # "restore" /\ OnlyJob(p)
    BY <2>2 DEF Unsubscribes, Subscribes, Left
  <2>3. ASSUME NEW c, Refreshes(c) \/ AsksAgain(c) PROVE FALSE
    BY <2>3 DEF Refreshes, AsksAgain, Turns, W
  <2>4. ASSUME NEW c, NEW s, Receives(c, s) PROVE W' = W
    BY <1>0, <2>4 DEF Receives, Heard, W
  <2>5. ASSUME \/ Drops \/ Reconnects \/ Ends \/ UNCHANGED vars
               \/ \E c : Resubscribes(c)
               \/ \E k, c, s : Answers(k, c, s)
        PROVE  W' = W
    BY <2>5 DEF W, Drops, Reconnects, Ends, vars, Resubscribes, Answers
  <2>6. ~Cuts /\ ~Forces /\ ~Resets /\ ~Relinks /\ ~IsRefreshed /\ ~Restores
    BY DEF Cuts, Forces, Resets, Relinks, IsRefreshed, Restores, Turns, W
  <2>7. \A p \in Procs : OnlyJob(p) /\ job'[p].pc # "restore" => W' = W
    BY <1>0 DEF OnlyJob, W
  <2>8. ~Registers /\ (\A p, c : ~Discards(p, c)) /\ \A c : ~Refuses(c)
    BY CalmChange DEF Registers, W
  <2> QED BY <1>0, <2>1, <2>2, <2>3, <2>4, <2>5, <2>6, <2>7, <2>8, Steps
<1>2. /\ resend = {} /\ (alive => line) /\ \A c \in Codes : StartOk(c)
      /\ ~line => ledger = {}
  BY <1>0, <1>1 DEF Given, StartInv, CalmInv, LineInv
<1>3. ASSUME NEW p \in Procs, Rebalance(p)
      PROVE  resend' = {} /\ (alive' => line') /\ \A c \in Codes : StartOk(c)'
  <2>1. May(p) /\ Still
    BY <1>0, <1>1, <1>3, OneAtWork DEF Rebalance, W, Given, CalmInv
  <2>2. \A c : ~Sent("sub", c)' /\ ~Sent("unsub", c)' /\ ~Told("ok", c)'
    BY <1>3, <2>1, EmptyFacts, SameTraffic DEF Still, Rebalance
  <2>3. D' = Desired(refs')
    BY <1>3 DEF Rebalance, Desired, D
  <2>4. \A c \in ledger' : c \in D' \/ c \in job'[p].drop
    BY <1>3, <2>3 DEF Rebalance, Planning
  <2> QED BY <1>2, <1>3, <2>2, <2>4 DEF StartOk, Rebalance
<1>4. ASSUME NEW p \in Procs, Links(p) \/ Confirms(p) \/ GoesWithout(p)
      PROVE  resend' = {} /\ (alive' => line') /\ \A c \in Codes : StartOk(c)'
  <2>1. /\ UNCHANGED <<refs, slots, wire, replies, pending, ledger, resend>>
    BY <1>4 DEF Links, Confirms, GoesWithout
  <2>2. alive' => line'
    BY <1>2, <1>4 DEF Links, Confirms, GoesWithout, Connects
  <2>3. \A q \in Procs : job[q].drop = job'[q].drop
    BY <1>0, <1>4, IdleFacts
       DEF Links, Confirms, GoesWithout, Resumes, Left, OnlyJob, JobOk
  <2> QED BY <1>2, <2>1, <2>2, <2>3, SameTraffic, SameDesired DEF StartOk
<1>5. ASSUME NEW p \in Procs, NEW c, Unsubscribes(p, c)
      PROVE  resend' = {} /\ (alive' => line') /\ \A d \in Codes : StartOk(d)'
  <2>1. /\ c \in Codes /\ UNCHANGED <<refs, slots, replies, resend, alive, line>>
        /\ \A q \in Procs : job[q].drop \ {c} \subseteq job'[q].drop
    BY <1>0, <1>5 DEF Unsubscribes, Left, OnlyJob
  <2>2. CASE line
    <3>1. Send("unsub", c, Nobody)
      BY <1>5, <2>2 DEF Unsubscribes
    <3>2. \A m, d : Sent(m, d)' <=> Sent(m, d) \/ (m = "unsub" /\ d = c)
      BY <1>0, <2>1, <3>1, SendFacts DEF Send
    <3>3. /\ pending'[c].kind = "unsub" /\ ledger' = ledger \ {c}
          /\ \A d \in Codes \ {c} : pending'[d] = pending[d]
      BY <1>0, <2>1, <3>1, SendKeeps
    <3> QED BY <1>2, <2>1, <3>2, <3>3, SameTraffic, SameDesired DEF StartOk
  <2>3. CASE ~line
    <3>1. UNCHANGED <<wire, pending, ledger>> /\ ledger = {}
      BY <1>2, <1>5, <2>3 DEF Unsubscribes, NotSent
    <3> QED BY <1>2, <2>1, <3>1, SameTraffic, SameDesired DEF StartOk
  <2> QED BY <2>2, <2>3
<1>6. ASSUME NEW p \in Procs, NEW c, Subscribes(p, c)
      PROVE  resend' = {} /\ (alive' => line') /\ \A d \in Codes : StartOk(d)'
  <2>1. /\ c \in D /\ c \in Codes /\ ~Sent("unsub", c)
        /\ UNCHANGED <<refs, slots, replies, resend, alive, line>>
        /\ \A q \in Procs : job[q].drop = job'[q].drop
    BY <1>0, <1>6 DEF Subscribes, OnlyJob, JobOk, PlanOk, TrafficOk
  <2>2. CASE line /\ Send("sub", c, p)
    <3>2. \A m, d : Sent(m, d)' <=> Sent(m, d) \/ (m = "sub" /\ d = c)
      BY <1>0, <2>1, <2>2, SendFacts DEF Send
    <3>3. ledger' = ledger /\ \A d \in Codes \ {c} : pending'[d] = pending[d]
      BY <1>0, <2>1, <2>2, SendKeeps
    <3> QED BY <1>2, <2>1, <3>2, <3>3, SameTraffic, SameDesired DEF StartOk
  <2>3. CASE ~line /\ NotSent
    BY <1>2, <2>1, <2>3, SameTraffic, SameDesired DEF StartOk, NotSent
  <2> QED BY <1>6, <2>2, <2>3 DEF Subscribes
<1>7. ASSUME NEW c, NEW s, Receives(c, s)
      PROVE  resend' = {} /\ (alive' => line') /\ \A d \in Codes : StartOk(d)'
  <2>1. /\ c \in Codes /\ UNCHANGED <<refs, slots, wire, resend, alive, line>>
        /\ pending' = [pending EXCEPT ![c] = None]
        /\ \A q \in Procs : job[q].drop = job'[q].drop
    BY <1>7 DEF Receives, Heard
  <2>2. Told(s, c) /\ \A t, d : Told(t, d)' => Told(t, d)
    BY <1>0, <1>7, HearFacts DEF Receives
  <2>3. pending'[c].kind = "none" /\ \A d \in Codes \ {c} : pending'[d] = pending[d]
    BY <1>0, <2>1 DEF Books, None
  <2>4. ledger' \subseteq ledger \/ (c \in D /\ ledger' = ledger \cup {c})
    BY <1>0, <1>2, <1>7, <2>1, <2>2 DEF Receives, StartOk, TrafficOk
  <2> QED BY <1>2, <2>1, <2>2, <2>3, <2>4, SameTraffic, SameDesired DEF StartOk
<1>8. ASSUME NEW k, NEW c, NEW s, Answers(k, c, s)
      PROVE  resend' = {} /\ (alive' => line') /\ \A d \in Codes : StartOk(d)'
  <2>1. UNCHANGED <<refs, slots, resend, alive, line, job, pending, ledger>> /\ c \in Codes
    BY <1>8 DEF Answers
  <2>2. \A m, d : Sent(m, d) <=> Sent(m, d)' \/ (k = m /\ c = d)
    BY <1>0, <1>8, TakeFacts DEF Answers
  <2>3. \A t, d : Told(t, d)' <=> Told(t, d) \/ (t = s /\ d = c)
    BY <1>0, <1>8, ReplyFacts DEF Answers
  <2>4. (k = "sub" => c \in D) /\ (k # "sub" => pending[c].kind # "sub")
    BY <1>2, <1>8, <2>1, <2>2 DEF StartOk, Answers
  <2> QED BY <1>2, <2>1, <2>2, <2>3, <2>4, SameDesired DEF StartOk
<1>9. CASE UNCHANGED vars
  <2>1. UNCHANGED <<refs, slots, resend, alive, line, job, pending, ledger, wire, replies>>
    BY <1>9 DEF vars, given, policy, client, broker
  <2> QED BY <1>2, <2>1, SameTraffic, SameDesired DEF StartOk
<1>10. /\ ~Drops /\ ~Reconnects /\ ~Ends /\ \A c : ~Resubscribes(c)
       /\ ~Restores /\ ~Cuts /\ ~Forces /\ ~Resets /\ ~Relinks /\ ~IsRefreshed
  BY <1>0, <1>1, <1>2
     DEF Drops, Reconnects, Ends, Resubscribes, Restores, Cuts, Forces, Resets, Relinks,
         IsRefreshed, Turns, W
<1>11. \A c : ~Refreshes(c) /\ ~AsksAgain(c)
  BY <1>0, <1>1 DEF Refreshes, AsksAgain, W
<1>12. ~Registers /\ (\A p, c : ~Discards(p, c)) /\ \A c : ~Refuses(c)
  BY <1>1, CalmChange
<1> QED
  BY <1>0, <1>3, <1>4, <1>5, <1>6, <1>7, <1>8, <1>9, <1>10, <1>11, <1>12, Steps

\* Only who is sent twice, or crossed, is sent a subscription.
LEMMA TwiceIsSent == \A c : Crossed(c) \/ Twice("sub", c) => Sent("sub", c)
BY DEF Crossed, Twice, Sent

\* Nothing is on its way about any code.
LEMMA QuietTraffic ==
    ASSUME wire' = <<>>, replies' = <<>>, resend' = {} PROVE TrafficInv'
<1>1. (\A k, c : ~Sent(k, c)') /\ (\A s, c : ~Told(s, c)')
  BY DEF Sent, Told
<1> QED BY <1>1 DEF TrafficInv, TrafficOk

\* Nothing about a code changes but that less of it may be asked for or in the ledger.
LEMMA SameForCode ==
    ASSUME NEW c, TrafficOk(c), UNCHANGED <<refs, slots>>,
           \A k : Sent(k, c)' <=> Sent(k, c),
           Crossed(c)' => Crossed(c), Twice("sub", c)' => Twice("sub", c),
           \A s : Told(s, c)' <=> Told(s, c),
           pending'[c] = pending[c], c \in registered' <=> c \in registered,
           c \in ledger' => c \in ledger,
           c \in resend' \ D => c \in resend, c \in asked' => c \in asked \/ c \in D
    PROVE  TrafficOk(c)'
BY SameDesired DEF TrafficOk

LEMMA TrafficStep == Given /\ [Next]_vars => TrafficInv'
<1> SUFFICES ASSUME Given, [Next]_vars PROVE TrafficInv'
  OBVIOUS
<1>0. /\ Books /\ Traffic /\ JobInv /\ LineInv /\ AskedInv /\ CalmInv /\ Watchdog \in Procs
      /\ mode = "calm"
      /\ \A c \in Codes : TrafficOk(c)
      /\ \A p \in Procs : PlanOk(p) /\ JobOk(p, job[p])
  BY Constants DEF Given, TrafficInv, PlanInv, JobInv
<1>1. ASSUME UNCHANGED <<refs, slots, wire, replies, pending, ledger, registered, resend>>,
             asked' \subseteq asked
      PROVE  TrafficInv'
  BY <1>0, <1>1, SameTraffic, SameForCode DEF TrafficInv
<1>2. ASSUME NEW p \in Procs, Rebalance(p) PROVE TrafficInv'
  <2>1. CASE May(p)
    BY <1>2, <2>1, OneAtWork, QuietTraffic DEF Still, Rebalance
  <2>2. CASE UNCHANGED refs
    BY <1>1, <1>2, <2>2 DEF Rebalance
  <2> QED BY <1>2, <2>1, <2>2 DEF Rebalance
<1>3. ASSUME NEW p \in Procs, Links(p) \/ Confirms(p) \/ GoesWithout(p) PROVE TrafficInv'
  BY <1>1, <1>3 DEF Links, Confirms, GoesWithout, Connects
<1>4. CASE Restores \/ Resets \/ Relinks \/ IsRefreshed
  BY <1>1, <1>4 DEF Restores, Resets, Relinks, IsRefreshed, Connects
<1>5. CASE Drops \/ Cuts \/ Forces
  BY <1>5, QuietTraffic DEF Drops, Cuts, Forces, Broken
<1>6. CASE UNCHANGED vars
  BY <1>1, <1>6 DEF vars, given, policy, client, broker
<1>7. CASE Reconnects
  <2>1. UNCHANGED <<refs, slots, wire, replies, pending, ledger, registered>> /\ asked' = {}
    BY <1>7 DEF Reconnects
  <2>2. D' = D
    BY <2>1, SameDesired
  <2> QED BY <1>0, <2>1, <2>2, SameTraffic DEF TrafficInv, TrafficOk
<1>8. ASSUME NEW p \in Procs, NEW c, Unsubscribes(p, c) PROVE TrafficInv'
  <2>1. /\ c \in Codes /\ c \notin D
        /\ UNCHANGED <<refs, slots, replies, resend, registered>> /\ D' = D
    BY <1>0, <1>8, SameDesired DEF Unsubscribes, PlanOk
  <2>2. CASE line
    <3>1. Send("unsub", c, Nobody)
      BY <1>8, <2>2 DEF Unsubscribes
    <3>2. /\ \A m, d : Sent(m, d)' <=> Sent(m, d) \/ (m = "unsub" /\ d = c)
          /\ \A d : Twice("sub", d)' <=> Twice("sub", d)
          /\ \A d : d # c => (Crossed(d)' <=> Crossed(d))
      BY <1>0, <2>1, <3>1, SendFacts DEF Send
    <3>3. /\ pending'[c].kind = "unsub" /\ ledger' = ledger \ {c} /\ asked' = asked
          /\ \A d \in Codes \ {c} : pending'[d] = pending[d]
      BY <1>0, <2>1, <3>1, SendKeeps
    <3>4. TrafficOk(c)'
      BY <1>0, <2>1, <3>2, <3>3, SameTraffic DEF TrafficOk
    <3>5. \A d \in Codes \ {c} : TrafficOk(d)'
      BY <1>0, <2>1, <3>2, <3>3, SameTraffic, SameForCode
    <3> QED BY <3>4, <3>5 DEF TrafficInv
  <2>3. CASE ~line
    BY <1>1, <1>8, <2>3 DEF Unsubscribes, NotSent
  <2> QED BY <2>2, <2>3
<1>9. ASSUME NEW p \in Procs, NEW c, Subscribes(p, c) PROVE TrafficInv'
  <2>1. /\ c \in Codes /\ c \in D
        /\ UNCHANGED <<refs, slots, replies, resend, registered>> /\ D' = D
    BY <1>0, <1>9, SameDesired DEF Subscribes, PlanOk
  <2>2. CASE line /\ Send("sub", c, p)
    <3>2. /\ \A m, d : Sent(m, d)' <=> Sent(m, d) \/ (m = "sub" /\ d = c)
          /\ \A d : d # c => (Twice("sub", d)' <=> Twice("sub", d)) /\ (Crossed(d)' <=> Crossed(d))
      BY <1>0, <2>1, <2>2, SendFacts DEF Send
    <3>3. /\ ledger' = ledger /\ asked' = asked \cup {c}
          /\ \A d \in Codes \ {c} : pending'[d] = pending[d]
      BY <1>0, <2>1, <2>2, SendKeeps
    <3>4. TrafficOk(c)'
      BY <1>0, <2>1, <3>2, <3>3, SameTraffic DEF TrafficOk
    <3>5. \A d \in Codes \ {c} : TrafficOk(d)'
      BY <1>0, <2>1, <3>2, <3>3, SameTraffic, SameForCode
    <3> QED BY <3>4, <3>5 DEF TrafficInv
  <2>3. CASE ~line /\ NotSent
    BY <1>1, <1>9, <2>3 DEF Subscribes, NotSent
  <2> QED BY <1>9, <2>2, <2>3 DEF Subscribes
<1>10. ASSUME NEW c, Resubscribes(c) PROVE TrafficInv'
  <2>1. /\ c \in Codes /\ c \in resend /\ resend' = resend \ {c} /\ Send("sub", c, Nobody)
        /\ UNCHANGED <<refs, slots, replies, registered>> /\ D' = D
    BY <1>10, SameDesired DEF Resubscribes
  <2>2. /\ \A m, d : Sent(m, d)' <=> Sent(m, d) \/ (m = "sub" /\ d = c)
        /\ \A d : Twice("sub", d)' => Twice("sub", d) \/ (d = c /\ Sent("sub", c))
        /\ \A d : Crossed(d)' <=> Crossed(d)
    BY <1>0, <2>1, SendFacts DEF Send
  <2>3. /\ ledger' = ledger /\ asked' = asked \cup {c}
        /\ \A d \in Codes \ {c} : pending'[d] = pending[d]
    BY <1>0, <2>1, SendKeeps
  <2>4. c \notin D => /\ c \notin registered /\ ~Sent("sub", c) /\ ~Told("ok", c)
                      /\ ~Crossed(c) /\ ~Twice("sub", c)
    BY <1>0, <2>1, TwiceIsSent DEF AskedInv, TrafficOk
  <2>5. TrafficOk(c)'
    BY <1>0, <2>1, <2>2, <2>3, <2>4, SameTraffic DEF TrafficOk
  <2>6. \A d \in Codes \ {c} : TrafficOk(d)'
    BY <1>0, <2>1, <2>2, <2>3, SameTraffic, SameForCode
  <2> QED BY <2>5, <2>6 DEF TrafficInv
<1>11. ASSUME NEW c, NEW s, Receives(c, s) PROVE TrafficInv'
  <2>1. /\ c \in Codes
        /\ UNCHANGED <<refs, slots, wire, resend, registered, asked>> /\ D' = D
        /\ pending' = [pending EXCEPT ![c] = None]
    BY <1>11, SameDesired DEF Receives
  <2>2. /\ Told(s, c) /\ \A t, d : Told(t, d)' => Told(t, d)
        /\ \A t, d : d # c => (Told(t, d)' <=> Told(t, d))
    BY <1>0, <1>11, HearFacts DEF Receives
  <2>3. pending'[c].kind = "none" /\ \A d \in Codes \ {c} : pending'[d] = pending[d]
    BY <1>0, <2>1 DEF Books, None
  <2>4. \A d \in Codes \ {c} : d \in ledger' <=> d \in ledger
    BY <1>11 DEF Receives
  <2>5. Sent("unsub", c) => c \notin ledger'
    BY <1>0, <1>11, <2>1, <2>2 DEF Receives, TrafficOk
  <2>6. TrafficOk(c)'
    BY <1>0, <2>1, <2>2, <2>3, <2>5, SameTraffic DEF TrafficOk
  <2>7. \A d \in Codes \ {c} : TrafficOk(d)'
    BY <1>0, <2>1, <2>2, <2>3, <2>4, SameTraffic, SameForCode
  <2> QED BY <2>6, <2>7 DEF TrafficInv
<1>12. ASSUME NEW k, NEW c, NEW s, Answers(k, c, s) PROVE TrafficInv'
  <2>1. /\ c \in Codes /\ UNCHANGED <<refs, slots, resend, ledger, asked, pending>> /\ D' = D
        /\ Head(wire).kind = k /\ Head(wire).code = c
    BY <1>12, SameDesired DEF Answers
  <2>2. /\ \A m, d : Sent(m, d) <=> Sent(m, d)' \/ (k = m /\ c = d)
        /\ \A d : (Crossed(d)' => Crossed(d)) /\ (Twice("sub", d)' => Twice("sub", d))
        /\ k = "sub" /\ Sent("unsub", c)' => Crossed(c)
        /\ k = "sub" /\ Sent("sub", c)' => Twice("sub", c)
    BY <1>0, <1>12, <2>1, TakeFacts DEF Answers
  <2>3. \A t, d : Told(t, d)' <=> Told(t, d) \/ (t = s /\ d = c)
    BY <1>0, <1>12, ReplyFacts DEF Answers
  <2>4. TrafficOk(c) /\ Sent(k, c)
    BY <1>0, <2>1, <2>2
  <2>5. TrafficOk(c)'
    <3>1. CASE k = "sub" /\ c \in registered /\ s = "already" /\ registered' = registered
      BY <2>1, <2>2, <2>3, <2>4, <3>1 DEF TrafficOk
    <3>2. CASE k = "sub" /\ c \notin registered /\ s = "ok" /\ registered' = registered \cup {c}
      BY <2>1, <2>2, <2>3, <2>4, <3>2 DEF TrafficOk
    <3>3. CASE k = "sub" /\ c \notin registered /\ s = "no" /\ registered' = registered
      BY <2>1, <2>2, <2>3, <2>4, <3>3 DEF TrafficOk
    <3>4. CASE k = "unsub" /\ c \in registered /\ s = "ok" /\ registered' = registered \ {c}
      BY <2>1, <2>2, <2>3, <2>4, <3>4 DEF TrafficOk
    <3>5. CASE k = "unsub" /\ c \notin registered /\ s = "no" /\ registered' = registered
      BY <2>1, <2>2, <2>3, <2>4, <3>5 DEF TrafficOk
    <3> QED BY <1>12, <3>1, <3>2, <3>3, <3>4, <3>5 DEF Answers
  <2>6. \A d \in Codes \ {c} : d \in registered' <=> d \in registered
    BY <1>12 DEF Answers
  <2>7. \A d \in Codes \ {c} : TrafficOk(d)'
    BY <1>0, <2>1, <2>2, <2>3, <2>6, SameForCode
  <2> QED BY <2>5, <2>7 DEF TrafficInv
<1>13. CASE Registers
  BY <1>13, CalmChange, QuietTraffic DEF Registers, Still
<1>14. ASSUME NEW p \in Procs, NEW c, Discards(p, c) PROVE TrafficInv'
  <2>1. c \notin D'
    BY <1>14, CalmChange
  <2>2. /\ \A s, d : ~Told(s, d)'
        /\ \A k, d : Sent(k, d)' => k = "unsub" /\ d = c
        /\ Sent("unsub", c)' => c \notin ledger' /\ pending'[c].kind = "unsub"
        /\ resend' = {}
    BY <1>14, DiscardTraffic
  <2> QED BY <2>1, <2>2 DEF TrafficInv, TrafficOk
<1>15. ~Ends /\ \A c : ~Refreshes(c) /\ ~AsksAgain(c) /\ ~Refuses(c)
  BY <1>0, CalmChange DEF Ends, Refreshes, AsksAgain, CalmInv
<1> QED
  BY <1>0, <1>2, <1>3, <1>4, <1>5, <1>6, <1>7, <1>8, <1>9, <1>10, <1>11, <1>12, <1>13, <1>14,
     <1>15, Steps

LEMMA LedgerKeeps ==
    ASSUME NEW c, LedgerOk(c), line' => line, c \in ledger' => c \in ledger,
           c \in registered => c \in registered', c \in resend => c \in resend',
           Planned(c) => Planned(c)', pending'[c] = pending[c],
           Sent("sub", c) => Sent("sub", c)', Told("no", c) => Told("no", c)'
    PROVE  LedgerOk(c)'
BY DEF LedgerOk

LEMMA LedgerStep == Given /\ LedgerInv /\ [Next]_vars => LedgerInv'
<1> SUFFICES ASSUME Given, LedgerInv, [Next]_vars PROVE LedgerInv'
  OBVIOUS
<1>0. /\ Books /\ Traffic /\ JobInv /\ LineInv /\ CalmInv /\ Watchdog \in Procs
      /\ mode = "calm"
      /\ \A c \in Codes : TrafficOk(c) /\ LedgerOk(c)
      /\ \A p \in Procs : PlanOk(p) /\ JobOk(p, job[p])
  BY Constants DEF Given, LedgerInv, TrafficInv, PlanInv, JobInv
<1>1. ~line' => LedgerInv'
  BY DEF LedgerInv, LedgerOk
\* A plan is in a job that is at work, the replan of the watchdog in none.
<1>2. ASSUME NEW p \in Procs, OnlyJob(p), NEW c,
             W # "replan" \/ W' = "replan",
             \/ c \notin job[p].drop \cup job[p].take
             \/ c \in job'[p].drop \cup job'[p].take
      PROVE  Planned(c) => Planned(c)'
  <2>1. CASE W = "replan"
    BY <1>2, <2>1 DEF Planned
  <2>2. ASSUME NEW q \in Procs, c \in job[q].drop \cup job[q].take PROVE Planned(c)'
    BY <1>2, <2>2 DEF Planned, OnlyJob
  <2> QED BY <2>1, <2>2 DEF Planned
<1>3. ASSUME NEW p \in Procs, OnlyJob(p), W # "replan" \/ W' = "replan",
             job[p].drop \subseteq job'[p].drop, job[p].take \subseteq job'[p].take,
             UNCHANGED <<line, wire, replies, pending, ledger, registered, resend>>
      PROVE  LedgerInv'
  <2> SUFFICES ASSUME NEW c \in Codes PROVE LedgerOk(c)'
    BY DEF LedgerInv
  <2>1. Planned(c) => Planned(c)'
    BY <1>2, <1>3
  <2> QED BY <1>0, <1>3, <2>1, SameTraffic, LedgerKeeps
<1>4. ASSUME NEW p \in Procs, Rebalance(p) PROVE LedgerInv'
  <2>0. /\ OnlyJob(p) /\ D' = Desired(refs')
        /\ UNCHANGED <<line, wire, replies, pending, ledger, registered, resend>>
    BY <1>4 DEF Rebalance, Planning, D, Desired
  <2>1. CASE May(p)
    <3>1. Still /\ job[p].drop = {} /\ job[p].take = {} /\ W # "replan"
      BY <1>0, <2>1, OneAtWork DEF Idles, W
    <3> QED BY <1>3, <2>0, <3>1
  <2>2. CASE p = Watchdog /\ W = "replan" /\ UNCHANGED refs
    <3>1. active = {} /\ job'[p].drop = ledger \ D' /\ job'[p].take = D'
      BY <1>0, <1>4, <2>0, <2>2 DEF CalmInv, Rebalance, Planning
    <3>2. \A c \in ledger' : Planned(c)'
      BY <2>0, <2>2, <3>1 DEF Planned
    <3> QED BY <3>2 DEF LedgerInv, LedgerOk
  <2> QED BY <1>0, <1>4, <2>1, <2>2 DEF Rebalance, W, Given, CalmInv
<1>5. ASSUME NEW p \in Procs, NEW c, Unsubscribes(p, c) PROVE LedgerInv'
  <2>1. /\ c \in Codes /\ W # "replan" /\ OnlyJob(p)
        /\ job'[p].drop = job[p].drop \ {c} /\ job'[p].take = job[p].take
        /\ UNCHANGED <<line, replies, resend, registered>>
    BY <1>0, <1>5, OneAtWork DEF Unsubscribes, Left, Idles, W
  <2>2. CASE line
    <3>1. Send("unsub", c, Nobody)
      BY <1>5, <2>2 DEF Unsubscribes
    <3>2. \A m, d : Sent(m, d)' <=> Sent(m, d) \/ (m = "unsub" /\ d = c)
      BY <1>0, <2>1, <3>1, SendFacts DEF Send
    <3>3. ledger' = ledger \ {c} /\ \A d \in Codes \ {c} : pending'[d] = pending[d]
      BY <1>0, <2>1, <3>1, SendKeeps
    <3>4. ASSUME NEW d \in Codes \ {c} PROVE LedgerOk(d)'
      <4>1. Planned(d) => Planned(d)'
        BY <1>2, <2>1
      <4> QED BY <1>0, <2>1, <3>2, <3>3, <4>1, SameTraffic, LedgerKeeps
    <3>5. LedgerOk(c)'
      BY <3>3 DEF LedgerOk
    <3> QED BY <3>4, <3>5 DEF LedgerInv
  <2> QED BY <1>1, <2>1, <2>2
<1>6. ASSUME NEW p \in Procs, Links(p) PROVE LedgerInv'
  <2>1. /\ OnlyJob(p) /\ W # "replan" /\ W # "link"
        /\ job[p].drop = {} /\ UNCHANGED <<wire, replies, pending, ledger, registered, resend>>
    BY <1>0, <1>6, OneAtWork DEF Links, Idles, W
  <2>2. CASE ~alive
    <3>1. ledger' = {}
      BY <1>0, <2>1, <2>2 DEF CalmInv
    <3> QED BY <3>1 DEF LedgerInv, LedgerOk
  <2>3. CASE alive
    <3>1. UNCHANGED line /\ job'[p].take = job[p].take
      BY <1>6, <2>3 DEF Links, Connects
    <3> QED BY <1>3, <2>1, <3>1
  <2> QED BY <2>2, <2>3
<1>7. ASSUME NEW p \in Procs, NEW c, Subscribes(p, c) PROVE LedgerInv'
  <2>1. /\ c \in Codes /\ W # "replan" /\ OnlyJob(p)
        /\ job[p].drop = {} /\ job'[p].take = job[p].take \ {c}
        /\ UNCHANGED <<line, replies, resend, registered>>
    BY <1>0, <1>7, OneAtWork DEF Subscribes, Idles, W, JobOk
  <2>2. CASE line /\ Send("sub", c, p)
    <3>2. \A m, d : Sent(m, d)' <=> Sent(m, d) \/ (m = "sub" /\ d = c)
      BY <1>0, <2>1, <2>2, SendFacts DEF Send
    <3>3. /\ ledger' = ledger /\ pending'[c].kind = "sub"
          /\ \A d \in Codes \ {c} : pending'[d] = pending[d]
      BY <1>0, <2>1, <2>2, SendKeeps
    <3>4. ASSUME NEW d \in Codes \ {c} PROVE LedgerOk(d)'
      <4>1. Planned(d) => Planned(d)'
        BY <1>2, <2>1
      <4> QED BY <1>0, <2>1, <3>2, <3>3, <4>1, SameTraffic, LedgerKeeps
    <3>5. LedgerOk(c)'
      BY <3>2, <3>3 DEF LedgerOk
    <3> QED BY <3>4, <3>5 DEF LedgerInv
  <2>3. CASE ~line
    BY <1>1, <2>1, <2>3
  <2> QED BY <1>7, <2>2, <2>3 DEF Subscribes
<1>8. ASSUME NEW p \in Procs, Confirms(p) \/ GoesWithout(p) PROVE LedgerInv'
  <2>1. job[p].pc = "ack" /\ Resumes(p)
    BY <1>0, <1>8 DEF Confirms, GoesWithout, CalmInv
  <2>2. OnlyJob(p) /\ W # "replan" /\ job[p].drop = {} /\ job'[p].take = job[p].take
    BY <1>0, <2>1, OneAtWork DEF Resumes, Left, Idles, W, JobOk
  <2> QED BY <1>3, <1>8, <2>2 DEF Confirms, GoesWithout
<1>9. ASSUME NEW c, NEW s, Receives(c, s) PROVE LedgerInv'
  <2>1. /\ c \in Codes
        /\ UNCHANGED <<line, wire, resend, registered>>
        /\ pending' = [pending EXCEPT ![c] = None]
        /\ \A q \in Procs : /\ job'[q].pc = job[q].pc /\ job'[q].drop = job[q].drop
                            /\ job'[q].take = job[q].take
    BY <1>9 DEF Receives, Heard
  <2>2. Told(s, c) /\ \A t, d : d # c => (Told(t, d)' <=> Told(t, d))
    BY <1>0, <1>9, HearFacts DEF Receives
  <2>3. \A d \in Codes \ {c} : pending'[d] = pending[d] /\ (d \in ledger' <=> d \in ledger)
    BY <1>0, <1>9, <2>1 DEF Books, Receives
  <2>4. \A d : Planned(d) => Planned(d)'
    BY <1>0, <2>1 DEF Planned, W
  <2>5. \A d \in Codes \ {c} : LedgerOk(d)'
    BY <1>0, <2>1, <2>2, <2>3, <2>4, SameTraffic, LedgerKeeps
  <2>6. LedgerOk(c)'
    <3>1. TrafficOk(c) /\ LedgerOk(c)
      BY <1>0, <2>1
    <3>2. CASE s = "already" \/ (s = "ok" /\ pending[c].kind = "sub")
      BY <2>1, <2>2, <3>1, <3>2 DEF LedgerOk, TrafficOk
    <3>3. CASE ledger' = ledger \ {c}
      BY <3>3 DEF LedgerOk
    <3>4. CASE ledger' = ledger /\ pending[c].kind # "sub"
      BY <2>1, <2>4, <3>1, <3>4 DEF LedgerOk
    <3>5. s # "used"
      BY <2>2, <3>1 DEF TrafficOk
    <3> QED BY <1>9, <3>2, <3>3, <3>4, <3>5 DEF Receives
  <2> QED BY <2>5, <2>6 DEF LedgerInv
<1>10. ASSUME NEW k, NEW c, NEW s, Answers(k, c, s) PROVE LedgerInv'
  <2>1. c \in Codes /\ UNCHANGED <<line, resend, ledger, pending, job>>
    BY <1>10 DEF Answers
  <2>2. \A m, d : Sent(m, d) <=> Sent(m, d)' \/ (k = m /\ c = d)
    BY <1>0, <1>10, TakeFacts DEF Answers
  <2>3. \A t, d : Told(t, d)' <=> Told(t, d) \/ (t = s /\ d = c)
    BY <1>0, <1>10, ReplyFacts DEF Answers
  <2>4. \A d : Planned(d) => Planned(d)'
    BY <2>1 DEF Planned, W
  <2>5. \A d \in Codes \ {c} : LedgerOk(d)'
    <3>1. \A d \in Codes \ {c} : d \in registered' <=> d \in registered
      BY <1>10 DEF Answers
    <3> QED BY <1>0, <2>1, <2>2, <2>3, <2>4, <3>1, LedgerKeeps
  <2>6. LedgerOk(c)'
    <3>1. TrafficOk(c) /\ LedgerOk(c)
      BY <1>0, <2>1
    <3>2. CASE k = "unsub"
      BY <2>1, <2>2, <3>1, <3>2 DEF TrafficOk, LedgerOk
    <3>3. CASE k = "sub" /\ c \in registered'
      BY <3>3 DEF LedgerOk
    <3>4. CASE k = "sub" /\ s = "no" /\ registered' = registered
      BY <2>1, <2>2, <2>3, <2>4, <3>1, <3>4 DEF LedgerOk
    <3> QED BY <1>10, <3>2, <3>3, <3>4 DEF Answers
  <2> QED BY <2>5, <2>6 DEF LedgerInv
<1>11. CASE Drops \/ Cuts \/ Forces
  BY <1>1, <1>11 DEF Drops, Cuts, Forces, Broken
<1>12. CASE Reconnects
  <2>1. \A c \in ledger' : c \in resend'
    BY <1>12 DEF Reconnects
  <2> QED BY <2>1 DEF LedgerInv, LedgerOk
<1>13. ASSUME NEW c, Resubscribes(c) PROVE LedgerInv'
  <2>1. /\ c \in Codes /\ resend' = resend \ {c} /\ Send("sub", c, Nobody)
        /\ UNCHANGED <<line, replies, registered, job>>
    BY <1>13 DEF Resubscribes
  <2>2. \A m, d : Sent(m, d)' <=> Sent(m, d) \/ (m = "sub" /\ d = c)
    BY <1>0, <2>1, SendFacts DEF Send
  <2>3. /\ ledger' = ledger /\ pending'[c].kind = "sub"
        /\ \A d \in Codes \ {c} : pending'[d] = pending[d]
    BY <1>0, <2>1, SendKeeps
  <2>4. \A d : Planned(d) => Planned(d)'
    BY <2>1 DEF Planned, W
  <2>5. \A d \in Codes \ {c} : LedgerOk(d)'
    BY <1>0, <2>1, <2>2, <2>3, <2>4, SameTraffic, LedgerKeeps
  <2>6. LedgerOk(c)'
    BY <2>2, <2>3 DEF LedgerOk
  <2> QED BY <2>5, <2>6 DEF LedgerInv
<1>14. CASE Restores
  <2>1. W = "restore" /\ job[Watchdog].drop = {} /\ job[Watchdog].take = {}
    BY <1>0, <1>14 DEF Restores, W, JobOk
  <2> QED BY <1>0, <1>3, <1>14, <2>1 DEF Restores, Turns
<1>15. CASE Resets \/ Relinks
  <2>1. ~line
    BY <1>0, <1>15 DEF Resets, Relinks, CalmInv, LineInv, W
  <2>2. CASE W' = "replan"
    BY <2>2 DEF LedgerInv, LedgerOk, Planned
  <2>3. CASE UNCHANGED line
    BY <1>1, <2>1, <2>3
  <2> QED BY <1>15, <2>2, <2>3 DEF Resets, Relinks, Turns, W
<1>16. CASE UNCHANGED vars
  <2>1. UNCHANGED <<line, wire, replies, pending, ledger, registered, resend, job>>
    BY <1>16 DEF vars, client, broker
  <2>2. \A d : Planned(d) => Planned(d)'
    BY <2>1 DEF Planned, W
  <2> QED BY <1>0, <2>1, <2>2, SameTraffic, LedgerKeeps DEF LedgerInv
<1>17. CASE Registers
  <2>1. UNCHANGED <<line, wire, replies, pending, ledger, registered, resend, job>>
    BY <1>17 DEF Registers
  <2>2. \A d : Planned(d) => Planned(d)'
    BY <2>1 DEF Planned, W
  <2> QED BY <1>0, <2>1, <2>2, SameTraffic, LedgerKeeps DEF LedgerInv
<1>18. ASSUME NEW p \in Procs, NEW c, Discards(p, c) PROVE LedgerInv'
  <2>1. Still /\ job' = job /\ c \in Codes /\ UNCHANGED <<line, registered, resend>>
    BY <1>18, CalmChange
  <2>2. \A d : Planned(d) => Planned(d)'
    BY <2>1 DEF Planned, W
  <2>3. \A d \in Codes : d \in ledger' => d \in ledger /\ pending'[d] = pending[d]
    BY <1>18, <2>1, DiscardTraffic
  <2>4. \A k, d : ~Sent(k, d) /\ ~Told("no", d)
    BY <2>1, EmptyFacts DEF Still
  <2> QED BY <1>0, <2>1, <2>2, <2>3, <2>4 DEF LedgerInv, LedgerOk
<1>19. ~Ends /\ ~IsRefreshed /\ \A c : ~Refreshes(c) /\ ~AsksAgain(c) /\ ~Refuses(c)
  BY <1>0, CalmChange DEF Ends, IsRefreshed, Refreshes, AsksAgain, CalmInv
<1> QED
  BY <1>0, <1>4, <1>5, <1>6, <1>7, <1>8, <1>9, <1>10, <1>11, <1>12, <1>13, <1>14, <1>15, <1>16,
     <1>17, <1>18, <1>19, Steps

\* A code the broker has not registered finds a slot, where there is one for each.
LEMMA RoomForAll ==
    ASSUME Books, slots >= Cardinality(Codes), NEW c \in Codes \ registered
    PROVE  Cardinality(registered) < slots
<1>1. /\ IsFiniteSet(Codes \ {c}) /\ Cardinality(Codes \ {c}) = Cardinality(Codes) - 1
      /\ Cardinality(Codes) \in Nat /\ registered \subseteq Codes \ {c}
  BY Constants, FS_RemoveElement, FS_Subset, FS_CardinalityType DEF Books
<1>2. Cardinality(registered) <= Cardinality(Codes \ {c}) /\ Cardinality(registered) \in Nat
  BY <1>1, FS_Subset, FS_CardinalityType
<1> QED BY <1>1, <1>2, Constants DEF Books

LEMMA RoomKeeps ==
    ASSUME RoomInv, UNCHANGED <<refs, slots>>,
           active' \subseteq active, active' \subseteq ledger',
           \A p \in Procs : job'[p].ack = "yes" => job'[p].code \in ledger',
           \A c : Told("no", c)' => Told("no", c),
           \A c : Sent("unsub", c)' => Sent("unsub", c) \/ c \notin active'
    PROVE  RoomInv'
BY SameDesired DEF RoomInv

LEMMA RoomStep ==
    Given /\ slots >= Cardinality(Codes) /\ RoomInv /\ [Next]_vars => RoomInv'
<1> SUFFICES ASSUME Given, slots >= Cardinality(Codes), RoomInv, [Next]_vars PROVE RoomInv'
  OBVIOUS
<1>0. /\ Books /\ Traffic /\ JobInv /\ LineInv /\ CalmInv /\ Watchdog \in Procs
      /\ mode = "calm" /\ active \subseteq ledger
      /\ \A c \in Codes : TrafficOk(c)
      /\ \A p \in Procs : /\ PlanOk(p) /\ JobOk(p, job[p])
                          /\ job[p].ack = "yes" => job[p].code \in ledger
  BY Constants DEF Given, TrafficInv, PlanInv, JobInv, RoomInv
\* Who has heard yes is at work, so alone.
<1>1. ASSUME NEW p \in Procs, OnlyJob(p), ~Idles(p) \/ Still, job'[p].ack = "open"
      PROVE  \A q \in Procs : job'[q].ack # "yes"
  BY <1>0, <1>1, OneAtWork DEF OnlyJob, Idles, JobOk
<1>2. ASSUME NEW p \in Procs, Rebalance(p) PROVE RoomInv'
  <2>1. UNCHANGED <<active, ledger, wire, replies, slots>> /\ OnlyJob(p) /\ job'[p].ack = "open"
    BY <1>2 DEF Rebalance, Planning
  <2>2. CASE May(p)
    <3>1. Still /\ wire' = <<>> /\ replies' = <<>>
      BY <2>1, <2>2, OneAtWork DEF Still
    <3>2. (\A k, c : ~Sent(k, c)') /\ (\A s, c : ~Told(s, c)')
      BY <3>1 DEF Sent, Told
    <3>3. \A q \in Procs : job'[q].ack # "yes"
      BY <1>1, <2>1, <3>1
    <3> QED BY <1>0, <2>1, <3>2, <3>3 DEF RoomInv
  <2>3. CASE p = Watchdog /\ W = "replan" /\ UNCHANGED refs
    <3>1. \A q \in Procs : job'[q].ack # "yes"
      BY <1>1, <2>1, <2>3 DEF Idles, W
    <3> QED BY <1>0, <2>1, <2>3, <3>1, SameTraffic, RoomKeeps
  <2> QED BY <1>0, <1>2, <2>2, <2>3 DEF Rebalance, W, CalmInv
<1>3. ASSUME NEW p \in Procs, NEW c, Unsubscribes(p, c) PROVE RoomInv'
  <2>1. /\ c \in Codes /\ active' = active \ {c} /\ OnlyJob(p) /\ ~Idles(p)
        /\ job'[p].ack = "open" /\ UNCHANGED <<refs, slots, replies>>
    BY <1>3 DEF Unsubscribes, Left, Idles
  <2>2. \A q \in Procs : job'[q].ack # "yes"
    BY <1>1, <2>1
  <2>3. CASE line
    <3>1. Send("unsub", c, Nobody)
      BY <1>3, <2>3 DEF Unsubscribes
    <3>2. \A m, d : Sent(m, d)' <=> Sent(m, d) \/ (m = "unsub" /\ d = c)
      BY <1>0, <2>1, <3>1, SendFacts DEF Send
    <3>3. ledger' = ledger \ {c}
      BY <3>1 DEF Send
    <3> QED BY <1>0, <2>1, <2>2, <3>2, <3>3, SameTraffic, RoomKeeps
  <2>4. CASE ~line
    <3>1. UNCHANGED <<wire, ledger>>
      BY <1>3, <2>4 DEF Unsubscribes, NotSent
    <3> QED BY <1>0, <2>1, <2>2, <3>1, SameTraffic, RoomKeeps
  <2> QED BY <2>3, <2>4
<1>4. ASSUME NEW p \in Procs, Links(p) \/ GoesWithout(p) PROVE RoomInv'
  <2>1. /\ OnlyJob(p) /\ ~Idles(p) /\ job'[p].ack = "open"
        /\ UNCHANGED <<refs, slots, replies, wire, ledger, active>>
    BY <1>4, IdleFacts DEF Links, GoesWithout, Resumes, Left, Idles
  <2>2. \A q \in Procs : job'[q].ack # "yes"
    BY <1>1, <2>1
  <2> QED BY <1>0, <2>1, <2>2, SameTraffic, RoomKeeps
<1>5. ASSUME NEW p \in Procs, NEW c, Subscribes(p, c) PROVE RoomInv'
  <2>1. /\ c \in Codes /\ OnlyJob(p) /\ ~Idles(p) /\ job'[p].ack = "open"
        /\ UNCHANGED <<refs, slots, replies, active>>
    BY <1>5 DEF Subscribes, Idles
  <2>2. \A q \in Procs : job'[q].ack # "yes"
    BY <1>1, <2>1
  <2>3. CASE line /\ Send("sub", c, p)
    <3>1. \A m, d : Sent(m, d)' <=> Sent(m, d) \/ (m = "sub" /\ d = c)
      BY <1>0, <2>1, <2>3, SendFacts DEF Send
    <3>2. ledger' = ledger
      BY <2>3 DEF Send
    <3> QED BY <1>0, <2>1, <2>2, <3>1, <3>2, SameTraffic, RoomKeeps
  <2>4. CASE ~line /\ NotSent
    BY <1>0, <2>1, <2>2, <2>4, SameTraffic, RoomKeeps DEF NotSent
  <2> QED BY <1>5, <2>3, <2>4 DEF Subscribes
<1>6. ASSUME NEW p \in Procs, Confirms(p) PROVE RoomInv'
  <2>1. /\ OnlyJob(p) /\ ~Idles(p) /\ job'[p].ack = "open" /\ job[p].code \in ledger
        /\ job[p].code \in D /\ job[p].code \in Codes
        /\ active' = active \cup {job[p].code}
        /\ UNCHANGED <<refs, slots, replies, wire, ledger>>
    BY <1>0, <1>6 DEF Confirms, Resumes, Left, Idles, PlanOk
  <2>2. \A q \in Procs : job'[q].ack # "yes"
    BY <1>1, <2>1
  <2>3. ~Told("no", job[p].code) /\ ~Sent("unsub", job[p].code)
    BY <1>0, <2>1 DEF RoomInv, TrafficOk
  <2>4. D' = D
    BY <2>1, SameDesired
  <2> QED BY <1>0, <2>1, <2>2, <2>3, <2>4, SameTraffic DEF RoomInv
<1>7. ASSUME NEW c, NEW s, Receives(c, s) PROVE RoomInv'
  <2>1. c \in Codes /\ UNCHANGED <<refs, slots, wire, active>>
    BY <1>7 DEF Receives
  <2>2. Told(s, c) /\ \A t, d : Told(t, d)' => Told(t, d)
    BY <1>0, <1>7, HearFacts DEF Receives
  <2>3. active' \subseteq ledger'
    BY <1>0, <1>7, <2>1, <2>2 DEF Receives, RoomInv
  <2>4. ASSUME NEW p \in Procs, job'[p].ack = "yes" PROVE job'[p].code \in ledger'
    <3>1. CASE job[p].ack = "yes"
      <4>1. job'[p].code = job[p].code /\ job[p].code \in ledger /\ job[p].pc = "ack"
        BY <1>0, <1>7, <3>1 DEF Receives, Heard, JobOk, CalmInv
      <4>2. s = "no" => c # job[p].code
        BY <1>0, <2>1, <2>2, <4>1 DEF PlanOk, RoomInv
      <4> QED BY <1>7, <4>1, <4>2 DEF Receives
    <3>2. CASE Hears(p, c, s)
      <4>1. s \notin {"no", "used"} /\ job'[p].code = c /\ pending[c].kind = "sub"
        BY <1>7, <2>4, <3>2 DEF Hears, Verdict, Receives, Heard
      <4> QED BY <1>7, <4>1 DEF Receives
    <3> QED BY <1>7, <2>4, <3>1, <3>2 DEF Receives, Heard
  <2> QED BY <2>1, <2>2, <2>3, <2>4, SameTraffic, RoomKeeps
<1>8. ASSUME NEW k, NEW c, NEW s, Answers(k, c, s) PROVE RoomInv'
  <2>1. c \in Codes /\ UNCHANGED <<refs, slots, ledger, active, job>> /\ D' = D
    BY <1>8, SameDesired DEF Answers
  <2>2. \A m, d : Sent(m, d) <=> Sent(m, d)' \/ (k = m /\ c = d)
    BY <1>0, <1>8, TakeFacts DEF Answers
  <2>3. \A t, d : Told(t, d)' <=> Told(t, d) \/ (t = s /\ d = c)
    BY <1>0, <1>8, ReplyFacts DEF Answers
  <2>4. s = "no" => k = "unsub" /\ Sent("unsub", c)
    <3>1. c \notin registered => Cardinality(registered) < slots
      BY <1>0, <2>1, RoomForAll
    <3> QED BY <1>8, <2>2, <3>1 DEF Answers
  <2>5. s = "no" => c \notin D /\ c \notin active
    BY <1>0, <2>1, <2>4 DEF TrafficOk, RoomInv
  <2> QED BY <2>1, <2>2, <2>3, <2>5 DEF RoomInv
<1>9. CASE Drops
  <2>1. UNCHANGED <<refs, slots, ledger, active, job>> /\ wire' = <<>> /\ replies' = <<>>
    BY <1>9 DEF Drops, Broken
  <2>2. (\A k, c : ~Sent(k, c)') /\ (\A s, c : ~Told(s, c)')
    BY <2>1 DEF Sent, Told
  <2> QED BY <1>0, <2>1, <2>2, RoomKeeps
<1>10. ASSUME Reconnects \/ UNCHANGED vars PROVE RoomInv'
  <2>1. UNCHANGED <<refs, slots, ledger, active, job, wire, replies>>
    BY <1>10 DEF Reconnects, vars, given, policy, client, broker
  <2> QED BY <1>0, <2>1, SameTraffic, RoomKeeps
<1>11. ASSUME NEW c, Resubscribes(c) PROVE RoomInv'
  <2>1. /\ c \in Codes /\ UNCHANGED <<refs, slots, active, job, replies>>
        /\ Send("sub", c, Nobody)
    BY <1>11 DEF Resubscribes
  <2>2. \A m, d : Sent(m, d)' <=> Sent(m, d) \/ (m = "sub" /\ d = c)
    BY <1>0, <2>1, SendFacts DEF Send
  <2>3. ledger' = ledger
    BY <2>1 DEF Send
  <2> QED BY <1>0, <2>1, <2>2, <2>3, SameTraffic, RoomKeeps
<1>12. ASSUME NEW pc, Turns(pc), ~Idles(Watchdog) \/ Still,
              active' \subseteq active, UNCHANGED <<refs, slots, ledger>>,
              UNCHANGED <<wire, replies>> \/ Broken
       PROVE  RoomInv'
  <2>1. \A q \in Procs : job'[q].ack # "yes"
    BY <1>0, <1>1, <1>12 DEF Turns
  <2>2. (\A c : Told("no", c)' => Told("no", c)) /\ (\A c : Sent("unsub", c)' => Sent("unsub", c))
    <3>1. CASE UNCHANGED <<wire, replies>>
      BY <3>1, SameTraffic
    <3>2. CASE Broken
      BY <3>2 DEF Broken, Sent, Told
    <3> QED BY <1>12, <3>1, <3>2
  <2> QED BY <1>0, <1>12, <2>1, <2>2, RoomKeeps
<1>13. CASE Restores
  BY <1>12, <1>13, <1>0 DEF Restores, Alone
<1>14. CASE Cuts \/ Resets \/ Relinks
  BY <1>12, <1>14 DEF Cuts, Resets, Relinks, Idles
<1>15. CASE Forces
  BY <1>12, <1>15, <1>0, OneAtWork DEF Forces
<1>16. CASE Registers
  <2>1. Still /\ UNCHANGED <<active, ledger, job, wire, replies>>
    BY <1>16, CalmChange DEF Registers
  <2>2. (\A k, c : ~Sent(k, c)') /\ (\A s, c : ~Told(s, c)')
    BY <2>1, EmptyFacts, SameTraffic DEF Still
  <2> QED BY <1>0, <2>1, <2>2 DEF RoomInv
<1>17. ASSUME NEW p \in Procs, NEW c, Discards(p, c) PROVE RoomInv'
  <2>1. /\ Still /\ job' = job /\ c \in Codes /\ active' = active \ {c}
    BY <1>17, CalmChange
  <2>2. /\ \A s, d : ~Told(s, d)'
        /\ \A k, d : Sent(k, d)' => k = "unsub" /\ d = c
        /\ \A d \in Codes \ {c} : d \in ledger' <=> d \in ledger
    BY <1>17, DiscardTraffic
  <2>3. \A q \in Procs : job'[q].ack # "yes"
    BY <1>0, <2>1 DEF Still, JobOk
  <2> QED BY <1>0, <2>1, <2>2, <2>3 DEF RoomInv, Books
<1>18. ~Ends /\ ~IsRefreshed /\ \A c : ~Refreshes(c) /\ ~AsksAgain(c) /\ ~Refuses(c)
  BY <1>0, CalmChange DEF Ends, IsRefreshed, Refreshes, AsksAgain, CalmInv
<1> QED
  BY <1>0, <1>2, <1>3, <1>4, <1>5, <1>6, <1>7, <1>8, <1>9, <1>10, <1>11, <1>13, <1>14, <1>15,
     <1>16, <1>17, <1>18, Steps

\* What the steps of a run without faults may use.
Faultless ==
    /\ Books /\ Traffic /\ JobInv /\ LineInv /\ PlanInv
    /\ mode # "busy" /\ BestInv /\ faults = 0

\* While one is at work the others are not, and nobody begins until all is done.
LEMMA OneBest ==
    ASSUME Faultless
    PROVE  /\ \A p, q \in Procs : ~Idles(p) /\ p # q => Idles(q)
           /\ \A p \in Procs : May(p) => Still /\ \A q \in Procs : Idles(q)
           /\ Still => \A q \in Procs : Idles(q)
           /\ Watchdog \in Procs
BY Constants DEF Faultless, PlanInv, AtMostOne, Idles, May, Alone, Still

\* Once nothing is under way, the broker has what the policy takes for active.
LEMMA BestAtRest ==
    ASSUME Faultless, Still
    PROVE  /\ Settled /\ registered = active
           /\ wire = <<>> /\ replies = <<>> /\ NoSub
           /\ \A k, c : ~Sent(k, c)
           /\ \A s, c : ~Told(s, c)
           /\ Cardinality(active) <= slots /\ (active # {} => line)
<1>1. Settled /\ EndsAt(active) /\ Fits
  BY OneBest DEF Faultless, BestInv
<1>2. /\ wire = <<>> /\ replies = <<>> /\ registered \subseteq Codes /\ active \subseteq Codes
      /\ ~line => registered = {}
  BY DEF Still, Faultless, Books, LineInv
<1>3. (\A k, c : ~Sent(k, c)) /\ (\A s, c : ~Told(s, c))
  BY <1>2, EmptyFacts
<1>4. registered = active
  BY <1>1, <1>2, <1>3 DEF EndsAt, Ending
<1>5. {c \in Codes : Ending(c)} = active
  BY <1>1, <1>2 DEF EndsAt
<1> QED BY <1>1, <1>2, <1>3, <1>4, <1>5 DEF NoSub, Fits

\* Only the job of p is to be looked at.
LEMMA BestOfOne ==
    ASSUME Faultless, NEW p \in Procs, OnlyJob(p), ~Idles(p) \/ Still,
           alive' => line', resend' = {}, UnsubsFirst', NoRefusal', Fits',
           job'[p].pc \in {"ask", "ack", "again"} => line',
           BestRun(p)', BestAck(p)', BestRest(p)',
           job'[p].pc = "idle" => Settled' /\ EndsAt(active)',
           job'[p].pc # "restore"
    PROVE  BestInv'
<1>1. \A q \in Procs \ {p} : Idles(q) /\ job'[q] = job[q]
  BY OneBest DEF OnlyJob
<1>2. \A q \in Procs \ {p} : BestRun(q)' /\ BestAck(q)' /\ BestRest(q)'
  BY <1>1 DEF Idles, BestRun, BestAck, BestRest
<1>3. \A q \in Procs : job'[q].pc \in {"ask", "ack", "again"} => line'
  BY <1>1 DEF Idles
<1>4. (\A q \in Procs : Idles(q)') => Settled' /\ EndsAt(active)'
  BY DEF Idles
<1> QED BY <1>1, <1>2, <1>3, <1>4 DEF BestInv

\* The codes of a set that is no larger than the slots fit.
LEMMA FitsIn ==
    ASSUME Books, NEW S \in SUBSET Codes, Cardinality(S) <= slots, slots' = slots,
           \A c \in Codes : Ending(c)' => c \in S
    PROVE  Fits'
<1> DEFINE T == {c \in Codes : Ending(c)'}
<1>1. T \subseteq S
  OBVIOUS
<1>2. IsFiniteSet(S)
  BY Constants, FS_Subset
<1>3. IsFiniteSet(T) /\ Cardinality(T) <= Cardinality(S)
  BY <1>1, <1>2, FS_Subset
<1>4. Cardinality(T) \in Nat /\ Cardinality(S) \in Nat /\ slots \in Nat
  BY <1>2, <1>3, FS_CardinalityType, Constants DEF Books
<1>5. Cardinality(T) <= slots
  BY <1>3, <1>4
<1> QED BY <1>5 DEF Fits

LEMMA FitsKept ==
    ASSUME Books, Fits, slots' = slots, \A c \in Codes : Ending(c)' => Ending(c)
    PROVE  Fits'
<1> DEFINE S == {c \in Codes : Ending(c)}
<1>1. S \in SUBSET Codes /\ Cardinality(S) <= slots /\ \A c \in Codes : Ending(c)' => c \in S
  BY DEF Fits
<1> HIDE DEF S
<1> QED BY <1>1, FitsIn

\* Where the traffic and the ranking stay, so does all that is said of them.
LEMMA FlowStays ==
    ASSUME Faultless, UNCHANGED <<refs, slots, wire, registered>>,
           \A s, c : Told(s, c)' => Told(s, c)
    PROVE  /\ D' = D /\ UnsubsFirst' /\ NoRefusal' /\ Fits'
           /\ (\A c \in Codes : Ending(c)' <=> Ending(c)) /\ (NoSub' <=> NoSub)
<1>1. /\ D' = D /\ UnsubsFirst /\ NoRefusal /\ Fits /\ Books
      /\ \A k, c : (Sent(k, c)' <=> Sent(k, c)) /\ (Twice(k, c)' <=> Twice(k, c))
      /\ UnsubsFirst' <=> UnsubsFirst
  BY SameDesired, SameTraffic DEF Faultless, BestInv
<1>2. \A c \in Codes : Ending(c)' <=> Ending(c)
  BY <1>1 DEF Ending
<1>3. NoRefusal'
  BY <1>1 DEF NoRefusal
<1>4. Fits'
  BY <1>1, <1>2, FitsKept
<1> QED BY <1>1, <1>2, <1>3, <1>4 DEF NoSub

\* Where nothing is on its way and nothing is registered in the end that was not.
LEMMA FlowAtRest ==
    ASSUME Faultless, wire' = <<>>, replies' = <<>>, slots' = slots,
           \A c \in registered' : Ending(c)
    PROVE  /\ UnsubsFirst' /\ NoRefusal' /\ Fits' /\ NoSub'
           /\ \A c \in Codes : Ending(c)' <=> c \in registered'
<1>1. /\ (\A k, c : ~Sent(k, c)' /\ ~Twice(k, c)') /\ UnsubsFirst'
      /\ \A s, c : ~Told(s, c)'
  BY DEF Sent, Told, Twice, UnsubsFirst
<1>2. Fits /\ Books
  BY DEF Faultless, BestInv
<1>3. \A c \in Codes : Ending(c)' <=> c \in registered'
  BY <1>1 DEF Ending
<1>4. Fits'
  BY <1>2, <1>3, FitsKept
<1> QED BY <1>1, <1>3, <1>4 DEF NoRefusal, NoSub

\* Once an unsubscription was sent to end the registration of c.
LEMMA FlowDrops ==
    ASSUME Faultless, NEW c \in Codes, NoSub, Send("unsub", c, Nobody), slots' = slots,
           UNCHANGED <<replies, registered>>,
           D' = D \/ ((\A s, d : ~Told(s, d)) /\ \A k, d : ~Sent(k, d)),
           c \notin D' \/ (c \in registered /\ ~Sent("unsub", c))
    PROVE  /\ UnsubsFirst' /\ NoRefusal' /\ Fits' /\ NoSub'
           /\ \A d \in Codes : Ending(d)' <=> Ending(d) /\ d # c
<1>1. /\ UnsubsFirst /\ NoRefusal /\ Fits /\ Books /\ Traffic
  BY DEF Faultless, BestInv
<1>2. /\ \A m, d : Sent(m, d)' <=> Sent(m, d) \/ (m = "unsub" /\ d = c)
      /\ \A m, d : Twice(m, d)' <=> Twice(m, d) \/ (m = "unsub" /\ d = c /\ Sent("unsub", c))
      /\ UnsubsFirst'
  BY <1>1, SendFacts DEF Send, NoSub
<1>3. /\ \A s, d : Told(s, d)' <=> Told(s, d)
  BY SameTraffic
<1>4. \A d : Twice("unsub", d) => Sent("unsub", d)
  BY DEF Twice, Sent
<1>5. NoRefusal'
  <2> SUFFICES ASSUME NEW d \in D'
               PROVE  /\ ~Told("no", d)' /\ ~Told("used", d)' /\ ~Twice("unsub", d)'
                      /\ Sent("unsub", d)' => d \in registered'
    BY DEF NoRefusal
  <2>1. CASE D' = D
    BY <1>1, <1>2, <1>3, <2>1 DEF NoRefusal
  <2>2. CASE (\A s, e : ~Told(s, e)) /\ \A k, e : ~Sent(k, e)
    BY <1>2, <1>3, <1>4, <2>2
  <2> QED BY <2>1, <2>2
<1>6. \A d \in Codes : Ending(d)' <=> Ending(d) /\ d # c
  BY <1>2 DEF NoSub, Ending
<1>7. Fits'
  BY <1>1, <1>6, FitsKept
<1> QED BY <1>2, <1>5, <1>6, <1>7 DEF NoSub

\* Once a subscription was sent that ends in S, which fits.
LEMMA FlowTakes ==
    ASSUME Faultless, NEW c \in Codes, NEW by \in Procs, Send("sub", c, by),
           UNCHANGED <<refs, slots, replies, registered>>,
           NEW S \in SUBSET Codes, Cardinality(S) <= slots,
           \A d \in Codes : Ending(d) \/ d = c <=> d \in S
    PROVE  /\ D' = D /\ UnsubsFirst' /\ NoRefusal' /\ Fits'
           /\ \A d \in Codes : Ending(d)' <=> d \in S
<1>1. /\ UnsubsFirst /\ NoRefusal /\ Fits /\ Books /\ Traffic /\ D' = D
  BY SameDesired DEF Faultless, BestInv
<1>2. /\ \A m, d : Sent(m, d)' <=> Sent(m, d) \/ (m = "sub" /\ d = c)
      /\ \A d : Twice("unsub", d)' <=> Twice("unsub", d)
      /\ UnsubsFirst'
  BY <1>1, SendFacts DEF Send
<1>3. \A s, d : Told(s, d)' <=> Told(s, d)
  BY SameTraffic
<1>4. NoRefusal'
  BY <1>1, <1>2, <1>3 DEF NoRefusal
<1>5. \A d \in Codes : Ending(d)' <=> Ending(d) \/ d = c
  BY <1>2 DEF Ending
<1>6. Fits'
  BY <1>1, <1>5, FitsIn
<1> QED BY <1>1, <1>2, <1>4, <1>5, <1>6

\* An answer moves no code from what is registered in the end, and refuses none that is desired.
LEMMA FlowAnswers ==
    ASSUME Faultless, NEW k, NEW c, NEW s, Answers(k, c, s)
    PROVE  /\ D' = D /\ UnsubsFirst' /\ NoRefusal' /\ Fits'
           /\ \A d \in Codes : Ending(d)' <=> Ending(d)
           /\ NoSub => NoSub'
<1>0. /\ Books /\ Traffic /\ UnsubsFirst /\ NoRefusal /\ Fits /\ registered \subseteq Codes
      /\ c \in Codes /\ D' = D /\ D \subseteq Codes /\ slots' = slots
  BY SameDesired, DesiredFacts DEF Faultless, BestInv, Books, Answers
<1>1. /\ \A m, d : Sent(m, d) <=> Sent(m, d)' \/ (k = m /\ c = d)
      /\ \A m, d : Twice(m, d)' => Twice(m, d)
      /\ \A m, d : k = m /\ c = d /\ Sent(m, d)' => Twice(m, d)
      /\ UnsubsFirst' /\ (k = "sub" => \A d : ~Sent("unsub", d)')
  BY <1>0, TakeFacts DEF Answers
<1>2. \A t, d : Told(t, d)' <=> Told(t, d) \/ (t = s /\ d = c)
  BY <1>0, ReplyFacts DEF Answers
<1>3. CASE k = "unsub"
  <2>1. /\ s \in {"ok", "no"} /\ (s = "no" => c \notin registered) /\ registered' = registered \ {c}
    BY <1>3 DEF Answers
  <2>2. \A d \in Codes : Ending(d)' <=> Ending(d)
    BY <1>1, <1>3, <2>1 DEF Ending
  <2>3. NoRefusal'
    <3> SUFFICES ASSUME NEW d \in D
                 PROVE  /\ ~Told("no", d)' /\ ~Told("used", d)' /\ ~Twice("unsub", d)'
                        /\ Sent("unsub", d)' => d \in registered'
      BY <1>0 DEF NoRefusal
    <3>1. /\ ~Told("no", d) /\ ~Told("used", d) /\ ~Twice("unsub", d)
          /\ Sent("unsub", d) => d \in registered
      BY <1>0 DEF NoRefusal
    <3>2. CASE d = c
      BY <1>1, <1>2, <1>3, <2>1, <3>1, <3>2
    <3>3. CASE d # c
      BY <1>1, <1>2, <2>1, <3>1, <3>3
    <3> QED BY <3>2, <3>3
  <2> QED BY <1>0, <1>1, <2>2, <2>3, FitsKept DEF NoSub
<1>4. CASE k = "sub"
  <2>1. \A d : ~Sent("unsub", d) /\ ~Sent("unsub", d)'
    BY <1>1, <1>4
  <2>2. c \notin registered => Cardinality(registered) < slots
    <3> SUFFICES ASSUME c \notin registered PROVE Cardinality(registered) < slots
      OBVIOUS
    <3> DEFINE E == {d \in Codes : Ending(d)}
    <3>1. registered \cup {c} \subseteq E
      BY <1>0, <1>1, <1>4, <2>1 DEF Ending
    <3>2. Cardinality(E) <= slots /\ E \subseteq Codes
      BY <1>0 DEF Fits
    <3> HIDE DEF E
    <3>3. IsFiniteSet(E) /\ IsFiniteSet(registered) /\ IsFiniteSet(registered \cup {c})
      BY <1>0, <3>1, <3>2, Constants, FS_Subset
    <3>4. Cardinality(registered \cup {c}) = Cardinality(registered) + 1
      BY <3>3, FS_AddElement
    <3>5. Cardinality(registered \cup {c}) <= Cardinality(E)
      BY <3>1, <3>3, FS_Subset
    <3>6. Cardinality(registered) \in Nat /\ Cardinality(E) \in Nat /\ slots \in Nat
      BY <1>0, <3>3, FS_CardinalityType, Constants DEF Books
    <3> QED BY <3>2, <3>4, <3>5, <3>6
  <2>3. s \in {"ok", "already"} /\ registered' = registered \cup {c}
    BY <1>4, <2>2 DEF Answers
  <2>4. \A d \in Codes : Ending(d)' <=> Ending(d)
    BY <1>1, <1>4, <2>1, <2>3 DEF Ending
  <2>5. NoRefusal'
    BY <1>0, <1>1, <1>2, <2>1, <2>3 DEF NoRefusal
  <2> QED BY <1>0, <1>1, <2>4, <2>5, FitsKept DEF NoSub
<1> QED BY <1>3, <1>4 DEF Answers

LEMMA BestStep == Faultless /\ [Next]_vars /\ faults' = 0 => BestInv'
<1> SUFFICES ASSUME Faultless, [Next]_vars, faults' = 0 PROVE BestInv'
  OBVIOUS
<1>0. /\ Books /\ Traffic /\ JobInv /\ LineInv /\ Watchdog \in Procs /\ mode # "busy"
      /\ faults = 0 /\ (alive => line) /\ resend = {} /\ UnsubsFirst /\ NoRefusal /\ Fits
      /\ \A p \in Procs : /\ job[p].pc \in {"ask", "ack", "again"} => line
                          /\ BestRun(p) /\ BestAck(p) /\ BestRest(p)
                          /\ PlanOk(p) /\ JobOk(p, job[p])
      /\ D \subseteq Codes /\ active \subseteq Codes /\ slots \in Nat
      /\ Cardinality(D) <= slots /\ D \subseteq Wanted(refs)
  BY Constants, DesiredFacts DEF Faultless, BestInv, PlanInv, JobInv, Books
<1>1. ASSUME NEW p \in Procs, Rebalance(p) PROVE BestInv'
  <2>1. /\ D' = Desired(refs') /\ OnlyJob(p) /\ job'[p].pc \in {"run", "idle"}
        /\ UNCHANGED <<slots, active, ledger, registered, wire, replies, alive, line, resend>>
        /\ job'[p].drop = (active \cup ledger) \ D' /\ job'[p].take = D' \ active
        /\ job'[p].pc = "idle" => job'[p].drop = {} /\ job'[p].take = {}
    BY <1>1 DEF Rebalance, Planning, D, Desired
  <2>2. /\ ~Idles(p) \/ Still
        /\ UnsubsFirst' /\ NoRefusal' /\ Fits' /\ NoSub' /\ EndsAt(active)'
    <3>1. CASE May(p)
      <4>1. Still /\ wire = <<>> /\ replies = <<>> /\ registered = active
        BY <3>1, OneBest, BestAtRest
      <4>2. \A c \in registered' : Ending(c)
        BY <2>1, <4>1, BestAtRest DEF Ending
      <4>3. /\ UnsubsFirst' /\ NoRefusal' /\ Fits' /\ NoSub'
            /\ \A c \in Codes : Ending(c)' <=> c \in registered'
        BY <2>1, <4>1, <4>2, FlowAtRest
      <4> QED BY <2>1, <4>1, <4>3 DEF EndsAt
    <3>2. CASE job[p].pc = "replan" /\ UNCHANGED refs
      <4>1. EndsAt(active) /\ NoSub /\ ~Idles(p)
        BY <1>0, <3>2 DEF BestRest, Idles
      <4>2. \A s, c : Told(s, c)' => Told(s, c)
        BY <2>1, SameTraffic
      <4>3. /\ UnsubsFirst' /\ NoRefusal' /\ Fits'
            /\ (\A c \in Codes : Ending(c)' <=> Ending(c)) /\ (NoSub' <=> NoSub)
        BY <2>1, <3>2, <4>2, FlowStays
      <4> QED BY <2>1, <4>1, <4>3 DEF EndsAt
    <3> QED BY <1>1, <3>1, <3>2 DEF Rebalance
  <2>3. BestRun(p)'
    BY <2>1, <2>2 DEF BestRun
  <2>4. BestAck(p)' /\ BestRest(p)'
    BY <2>1 DEF BestAck, BestRest
  <2>5. job'[p].pc = "idle" => Settled' /\ EndsAt(active)'
    <3> SUFFICES ASSUME job'[p].pc = "idle" PROVE Settled'
      BY <2>2
    <3>1. active' = D'
      BY <2>1
    <3>2. D' \subseteq Wanted(refs)'
      BY <2>1 DEF Desired
    <3> QED BY <3>1, <3>2 DEF Settled
  <2> QED BY <1>0, <2>1, <2>2, <2>3, <2>4, <2>5, BestOfOne
<1>2. ASSUME NEW p \in Procs, NEW c, Unsubscribes(p, c) PROVE BestInv'
  <2>1. /\ c \in job[p].drop /\ c \in Codes /\ job[p].pc = "run" /\ c \notin D
        /\ OnlyJob(p) /\ job'[p].pc \in {"run", "idle"} /\ ~Idles(p)
        /\ job'[p].drop = job[p].drop \ {c} /\ job'[p].take = job[p].take
        /\ job'[p].pc = "idle" => job'[p].drop = {} /\ job'[p].take = {}
        /\ active' = active \ {c}
        /\ UNCHANGED <<refs, slots, alive, line, resend, replies, registered>> /\ D' = D
    BY <1>0, <1>2, SameDesired DEF Unsubscribes, Left, Idles, PlanOk
  <2>2. /\ NoSub /\ EndsAt(active)
        /\ active \ D \subseteq job[p].drop /\ job[p].take = D \ active
    BY <1>0, <2>1 DEF BestRun
  <2>3. UnsubsFirst' /\ NoRefusal' /\ Fits' /\ NoSub' /\ EndsAt(active)'
    <3>1. CASE line
      <4>1. Send("unsub", c, Nobody)
        BY <1>2, <3>1 DEF Unsubscribes
      <4>2. /\ UnsubsFirst' /\ NoRefusal' /\ Fits' /\ NoSub'
            /\ \A d \in Codes : Ending(d)' <=> Ending(d) /\ d # c
        BY <2>1, <2>2, <4>1, FlowDrops
      <4> QED BY <2>1, <2>2, <4>2 DEF EndsAt
    <3>2. CASE ~line
      <4>1. UNCHANGED wire /\ wire = <<>> /\ registered = {}
        BY <1>0, <1>2, <3>2 DEF Unsubscribes, NotSent, LineInv
      <4>2. active = {}
        BY <1>0, <2>2, <4>1, EmptyFacts DEF EndsAt, Ending
      <4>3. \A s, d : Told(s, d)' => Told(s, d)
        BY <2>1, SameTraffic
      <4>4. /\ UnsubsFirst' /\ NoRefusal' /\ Fits'
            /\ (\A d \in Codes : Ending(d)' <=> Ending(d)) /\ (NoSub' <=> NoSub)
        BY <2>1, <4>1, <4>3, FlowStays
      <4> QED BY <2>1, <2>2, <4>2, <4>4 DEF EndsAt
    <3> QED BY <3>1, <3>2
  <2>4. BestRun(p)'
    BY <2>1, <2>2, <2>3 DEF BestRun
  <2>5. BestAck(p)' /\ BestRest(p)'
    BY <2>1 DEF BestAck, BestRest
  <2>6. job'[p].pc = "idle" => Settled' /\ EndsAt(active)'
    <3> SUFFICES ASSUME job'[p].pc = "idle" PROVE Settled'
      BY <2>3
    <3>1. active' = D' /\ Wanted(refs)' = Wanted(refs)
      BY <2>1, <2>2 DEF Wanted
    <3> QED BY <1>0, <2>1, <3>1 DEF Settled
  <2> QED BY <1>0, <2>1, <2>3, <2>4, <2>5, <2>6, BestOfOne
<1>3. ASSUME NEW p \in Procs, Links(p) PROVE BestInv'
  <2>1. /\ job[p].pc = "run" /\ job[p].drop = {} /\ ~Idles(p) /\ OnlyJob(p)
        /\ job'[p].pc = "ask" /\ job'[p].drop = {} /\ job'[p].take = job[p].take /\ Connects
        /\ UNCHANGED <<refs, slots, active, wire, replies, registered, resend>> /\ D' = D
    BY <1>0, <1>3, SameDesired DEF Links, Idles, Books
  <2>2. NoSub /\ EndsAt(active) /\ active \ D \subseteq job[p].drop /\ job[p].take = D \ active
    BY <1>0, <2>1 DEF BestRun
  <2>3. \A s, d : Told(s, d)' => Told(s, d)
    BY <2>1, SameTraffic
  <2>4. UnsubsFirst' /\ NoRefusal' /\ Fits' /\ \A d \in Codes : Ending(d)' <=> Ending(d)
    BY <2>1, <2>3, FlowStays
  <2>5. EndsAt(active)'
    BY <2>1, <2>2, <2>4 DEF EndsAt
  <2>6. alive' /\ line'
    BY <1>0, <2>1 DEF Connects
  <2>7. BestRun(p)' /\ BestAck(p)' /\ BestRest(p)'
    BY <2>1, <2>2, <2>5 DEF BestRun, BestAck, BestRest
  <2> QED BY <1>0, <2>1, <2>4, <2>6, <2>7, BestOfOne
<1>4. ASSUME NEW p \in Procs, NEW c, Subscribes(p, c) PROVE BestInv'
  <2>1. /\ c \in job[p].take /\ c \in Codes /\ c \in D /\ job[p].pc = "ask" /\ ~Idles(p)
        /\ OnlyJob(p) /\ line /\ Send("sub", c, p)
        /\ job'[p].pc = "ack" /\ job'[p].code = c /\ job'[p].ack = "open"
        /\ job'[p].drop = {} /\ job'[p].take = job[p].take \ {c} /\ job[p].drop = {}
        /\ UNCHANGED <<refs, slots, active, alive, line, resend, replies, registered>> /\ D' = D
    BY <1>0, <1>4, SameDesired DEF Subscribes, Idles, PlanOk, JobOk
  <2>2. EndsAt(active) /\ active \subseteq D /\ job[p].take = D \ active
    BY <1>0, <2>1 DEF BestRun
  <2> DEFINE S == active \cup {c}
  <2>3. S \in SUBSET Codes /\ Cardinality(S) <= slots /\ \A d \in Codes : Ending(d) \/ d = c <=> d \in S
    <3>1. S \subseteq D /\ IsFiniteSet(D) /\ IsFiniteSet(S)
      BY <1>0, <2>1, <2>2, DesiredFacts, FS_Subset
    <3>2. Cardinality(S) <= Cardinality(D)
      BY <3>1, FS_Subset
    <3>3. Cardinality(S) \in Nat /\ Cardinality(D) \in Nat
      BY <3>1, FS_CardinalityType
    <3> QED BY <1>0, <2>1, <2>2, <3>2, <3>3 DEF EndsAt
  <2> HIDE DEF S
  <2>4. UnsubsFirst' /\ NoRefusal' /\ Fits' /\ \A d \in Codes : Ending(d)' <=> d \in S
    BY <2>1, <2>3, FlowTakes
  <2>5. EndsAt(active \cup {c})'
    BY <2>1, <2>4 DEF EndsAt, S
  <2>6. pending'[c].kind = "sub" /\ pending'[c].by = p /\ c \in asked'
    <3>1. /\ Books /\ Traffic /\ c \in Codes /\ p \in Procs \cup {Nobody}
          /\ Send("sub", c, p)
      BY <1>0, <2>1
    <3>2. asked' = asked \cup {c}
      BY <3>1, SendKeeps
    <3>3. pending'[c].kind = "sub" /\ pending'[c].by = p
      BY <3>1, SendKeeps
    <3> QED BY <3>2, <3>3
  <2>7. BestAck(p)'
    <3>1. /\ active' \subseteq D' /\ job'[p].take = D' \ (active' \cup {c})
          /\ EndsAt(active \cup {job[p].code})'
      BY <2>1, <2>2, <2>5 DEF EndsAt
    <3> QED BY <2>1, <2>6, <3>1 DEF BestAck
  <2>8. BestRun(p)' /\ BestRest(p)'
    BY <2>1 DEF BestRun, BestRest
  <2> QED BY <1>0, <2>1, <2>4, <2>7, <2>8, BestOfOne
<1>5. ASSUME NEW p \in Procs, Confirms(p) PROVE BestInv'
  <2>1. /\ job[p].pc = "ack" /\ job[p].code \in D /\ ~Idles(p) /\ line /\ OnlyJob(p)
        /\ job'[p].pc \in {"ask", "idle"} /\ job'[p].drop = {} /\ job'[p].take = job[p].take
        /\ job'[p].pc = "idle" => job'[p].take = {}
        /\ active' = active \cup {job[p].code}
        /\ UNCHANGED <<refs, slots, alive, line, resend, wire, replies, registered>> /\ D' = D
    BY <1>0, <1>5, SameDesired DEF Confirms, Resumes, Left, Idles, PlanOk
  <2>2. /\ active \subseteq D /\ job[p].take = D \ (active \cup {job[p].code})
        /\ EndsAt(active \cup {job[p].code})
    BY <1>0, <2>1 DEF BestAck
  <2>3. \A s, d : Told(s, d)' => Told(s, d)
    BY <2>1, SameTraffic
  <2>4. UnsubsFirst' /\ NoRefusal' /\ Fits' /\ \A d \in Codes : Ending(d)' <=> Ending(d)
    BY <2>1, <2>3, FlowStays
  <2>5. EndsAt(active)'
    BY <2>1, <2>2, <2>4 DEF EndsAt
  <2>6. BestRun(p)' /\ BestAck(p)' /\ BestRest(p)'
    BY <2>1, <2>2, <2>5 DEF BestRun, BestAck, BestRest
  <2>7. job'[p].pc = "idle" => Settled'
    <3>1. Wanted(refs)' = Wanted(refs)
      BY <2>1 DEF Wanted
    <3>2. job'[p].pc = "idle" => active' = D'
      BY <2>1, <2>2
    <3> QED BY <1>0, <2>1, <3>1, <3>2 DEF Settled
  <2> QED BY <1>0, <2>1, <2>4, <2>5, <2>6, <2>7, BestOfOne
<1>6. ASSUME NEW p \in Procs, GoesWithout(p) PROVE BestInv'
  <2>1. job[p].pc = "await" /\ OnlyJob(p) /\ job'[p] = Idle
    <3>1. CASE job[p].pc = "ack"
      <4>1. /\ job[p].ack = "open" => ~Lost(p)
            /\ job[p].ack # "no"
        BY <1>0, <3>1 DEF BestAck, Lost
      <4> QED BY <1>0, <1>6, <4>1 DEF GoesWithout, Books
    <3> QED BY <1>6, <3>1 DEF GoesWithout
  <2>2. /\ UNCHANGED <<refs, late, slots, alive, active, line, resend, wire, replies, registered>>
        /\ D' = D /\ Settled /\ EndsAt(active) /\ ~Idles(p)
    BY <1>0, <1>6, <2>1, SameDesired DEF GoesWithout, BestRest, Idles
  <2>3. \A s, d : Told(s, d)' => Told(s, d)
    BY <2>2, SameTraffic
  <2>4. UnsubsFirst' /\ NoRefusal' /\ Fits' /\ \A d \in Codes : Ending(d)' <=> Ending(d)
    BY <2>2, <2>3, FlowStays
  <2>5. Settled' /\ EndsAt(active)'
    BY <2>2, <2>4 DEF EndsAt, Settled, Wanted
  <2>6. BestRun(p)' /\ BestAck(p)' /\ BestRest(p)'
    BY <2>1, IdleFacts DEF BestRun, BestAck, BestRest
  <2> QED BY <1>0, <2>1, <2>2, <2>4, <2>5, <2>6, IdleFacts, BestOfOne
<1>7. CASE Registers
  <2>1. /\ Still /\ active' = active /\ registered' = registered /\ wire' = wire
        /\ replies' = replies /\ slots' = slots /\ late' # {} /\ job' = job
        /\ UNCHANGED <<alive, line, resend>>
        /\ \A c \in Codes : refs[c] \subseteq refs'[c]
    BY <1>0, <1>7 DEF Registers, Alone
  <2>2. /\ registered = active /\ wire = <<>> /\ replies = <<>> /\ Settled
        /\ \A k, c : ~Sent(k, c)
    BY <2>1, BestAtRest
  <2>3. /\ UnsubsFirst' /\ NoRefusal' /\ Fits'
        /\ \A c \in Codes : Ending(c)' <=> c \in registered'
    BY <2>1, <2>2, FlowAtRest DEF Ending
  <2>4. Settled' /\ EndsAt(active)'
    BY <2>1, <2>2, <2>3 DEF Settled, EndsAt, Wanted
  <2>5. \A q \in Procs : Idles(q) /\ Idles(q)'
    BY <2>1, OneBest DEF Idles
  <2>6. \A q \in Procs : BestRun(q)' /\ BestAck(q)' /\ BestRest(q)'
    BY <2>5 DEF Idles, BestRun, BestAck, BestRest
  <2>7. \A q \in Procs : job'[q].pc \notin {"ask", "ack", "again"}
    BY <2>5 DEF Idles
  <2> QED BY <1>0, <2>1, <2>3, <2>4, <2>6, <2>7 DEF BestInv
<1>8. ASSUME NEW p \in Procs, NEW c, Discards(p, c) PROVE BestInv'
  <2>1. /\ Still /\ active' = active \ {c} /\ registered' = registered /\ c \in Codes
        /\ replies' = replies /\ slots' = slots /\ late' # {}
        /\ UNCHANGED <<alive, line, resend>>
        /\ \A d \in Codes \ {c} : refs'[d] = refs[d]
    BY <1>0, <1>8 DEF Discards, Alone
  <2>2. /\ registered = active /\ wire = <<>> /\ replies = <<>> /\ Settled /\ NoSub
        /\ (\A k, d : ~Sent(k, d)) /\ (\A s, d : ~Told(s, d)) /\ (active # {} => line)
    BY <2>1, BestAtRest
  <2>3. UnsubsFirst' /\ NoRefusal' /\ Fits' /\ NoSub' /\ EndsAt(active)'
    <3>1. CASE c \in active /\ line /\ Send("unsub", c, Nobody)
      <4>1. /\ UnsubsFirst' /\ NoRefusal' /\ Fits' /\ NoSub'
            /\ \A d \in Codes : Ending(d)' <=> Ending(d) /\ d # c
        BY <2>1, <2>2, <3>1, FlowDrops
      <4> QED BY <2>1, <2>2, <4>1 DEF EndsAt, Ending
    <3>2. CASE ~(c \in active /\ line) /\ NotSent
      <4>1. wire' = <<>> /\ active' = active
        BY <2>1, <2>2, <3>2 DEF NotSent
      <4>2. /\ UnsubsFirst' /\ NoRefusal' /\ Fits' /\ NoSub'
            /\ \A d \in Codes : Ending(d)' <=> d \in registered'
        BY <2>1, <2>2, <4>1, FlowAtRest DEF Ending
      <4> QED BY <2>1, <2>2, <4>1, <4>2 DEF EndsAt
    <3> QED BY <1>8, <3>1, <3>2 DEF Discards
  <2>4. CASE refs'[c] = {} /\ job' = job
    <3>1. Settled'
      <4>1. active' \subseteq Wanted(refs)'
        BY <1>0, <2>1, <2>2 DEF Settled, Wanted
      <4> QED BY <2>1, <4>1 DEF Settled
    <3>2. \A q \in Procs : Idles(q)'
      BY <2>1, <2>4, OneBest DEF Idles
    <3>3. \A q \in Procs : BestRun(q)' /\ BestAck(q)' /\ BestRest(q)'
      BY <3>2 DEF Idles, BestRun, BestAck, BestRest
    <3>4. \A q \in Procs : job'[q].pc \notin {"ask", "ack", "again"}
      BY <3>2 DEF Idles
    <3> QED BY <1>0, <2>1, <2>3, <3>1, <3>3, <3>4 DEF BestInv
  <2>5. CASE OnlyJob(p) /\ job'[p].pc = "replan"
    <3>1. BestRun(p)' /\ BestAck(p)' /\ BestRest(p)'
      BY <2>3, <2>5 DEF BestRun, BestAck, BestRest
    <3> QED BY <1>0, <2>1, <2>3, <2>5, <3>1, BestOfOne
  <2> QED BY <1>8, <2>4, <2>5 DEF Discards
<1>9. ASSUME NEW c, NEW s, Receives(c, s) PROVE BestInv'
  <2>1. /\ c \in Codes /\ pending' = [pending EXCEPT ![c] = None]
        /\ UNCHANGED <<refs, late, slots, active, alive, line, resend, wire, registered, asked>>
        /\ replies # <<>> /\ Heard(c, s)
    BY <1>9 DEF Receives
  <2>2. Told(s, c) /\ \A t, d : Told(t, d)' => Told(t, d)
    BY <1>0, <1>9, HearFacts DEF Receives
  <2>3. /\ D' = D /\ UnsubsFirst' /\ NoRefusal' /\ Fits'
        /\ (\A d \in Codes : Ending(d)' <=> Ending(d)) /\ (NoSub' <=> NoSub)
    BY <2>1, <2>2, FlowStays
  <2>4. /\ Settled' <=> Settled
        /\ \A S : EndsAt(S) => \A d \in Codes : Ending(d)' <=> d \in S
    BY <2>1, <2>3 DEF Settled, Wanted, EndsAt
  <2>5. \A d \in Codes \ {c} : pending'[d] = pending[d]
    BY <1>0, <2>1 DEF Books
  <2>6. ASSUME NEW p \in Procs PROVE BestRun(p)' /\ BestAck(p)' /\ BestRest(p)'
    <3>1. /\ job'[p].pc = job[p].pc /\ job'[p].drop = job[p].drop
          /\ job'[p].take = job[p].take /\ job'[p].code = job[p].code
          /\ job'[p].ack = job[p].ack \/ Hears(p, c, s)
          /\ /\ pending[c].kind = "sub" /\ pending[c].by = p
             /\ job[p].pc \in {"ack", "await"} /\ job[p].code = c /\ job[p].ack = "open"
             => Hears(p, c, s)
      BY <2>1 DEF Heard
    <3>2. BestRun(p)'
      BY <1>0, <2>1, <2>3, <2>4, <3>1 DEF BestRun, EndsAt
    <3>3. BestRest(p)'
      <4>1. job[p].pc \notin {"cut", "reset", "link"}
        BY <1>0, <2>1 DEF BestRest
      <4> QED BY <1>0, <2>1, <2>3, <2>4, <3>1, <4>1 DEF BestRest, EndsAt
    <3>4. BestAck(p)'
      <4> SUFFICES ASSUME job[p].pc = "ack" PROVE BestAck(p)'
        BY <3>1 DEF BestAck
      <4> DEFINE e == job[p].code
      <4>1. /\ active \subseteq D /\ job[p].take = D \ (active \cup {e})
            /\ EndsAt(active \cup {e})
            /\ job[p].ack = "open" => pending[e].kind = "sub" /\ pending[e].by = p /\ e \in asked
            /\ job[p].ack # "no" /\ e \in D /\ e \in Codes
        BY <1>0 DEF BestAck, PlanOk
      <4>2. EndsAt(active \cup {job[p].code})'
        BY <2>1, <2>4, <3>1, <4>1 DEF EndsAt
      <4>3. Hears(p, c, s) => job'[p].ack = "yes"
        BY <1>0, <2>2, <4>1 DEF Hears, Verdict, NoRefusal
      <4>4. job'[p].ack # "no"
        BY <3>1, <4>1, <4>3
      <4>5. job'[p].ack = "open" =>
               pending'[e].kind = "sub" /\ pending'[e].by = p /\ e \in asked'
        <5> SUFFICES ASSUME job'[p].ack = "open"
                     PROVE  pending'[e].kind = "sub" /\ pending'[e].by = p /\ e \in asked'
          OBVIOUS
        <5>1. job[p].ack = "open" /\ ~Hears(p, c, s)
          BY <3>1, <4>3
        <5>2. e # c
          BY <3>1, <4>1, <5>1
        <5> QED BY <2>1, <2>5, <4>1, <5>1, <5>2
      <4> QED BY <2>1, <2>3, <3>1, <4>1, <4>2, <4>4, <4>5 DEF BestAck
    <3> QED BY <3>2, <3>3, <3>4
  <2>7. \A p \in Procs : /\ job'[p].pc = job[p].pc
                         /\ job'[p].pc \in {"ask", "ack", "again"} => line'
    BY <1>0, <2>1 DEF Heard
  <2>8. (\A p \in Procs : Idles(p)') => Settled' /\ EndsAt(active)'
    <3>1. (\A p \in Procs : Idles(p)') => \A p \in Procs : Idles(p)
      BY <2>7 DEF Idles
    <3> QED BY <2>1, <2>4, <3>1 DEF Faultless, BestInv, EndsAt
  <2> QED BY <1>0, <2>1, <2>3, <2>6, <2>7, <2>8 DEF BestInv
<1>10. ASSUME NEW k, NEW c, NEW s, Answers(k, c, s) PROVE BestInv'
  <2>1. /\ UNCHANGED <<refs, late, slots, active, alive, line, resend, asked, pending, job>>
        /\ wire # <<>>
    BY <1>10 DEF Answers
  <2>2. /\ D' = D /\ UnsubsFirst' /\ NoRefusal' /\ Fits'
        /\ (\A d \in Codes : Ending(d)' <=> Ending(d)) /\ (NoSub => NoSub')
    BY <1>10, FlowAnswers
  <2>3. /\ Settled' <=> Settled
        /\ \A S : EndsAt(S) => \A d \in Codes : Ending(d)' <=> d \in S
    BY <2>1, <2>2 DEF Settled, Wanted, EndsAt
  <2>4. ASSUME NEW p \in Procs PROVE BestRun(p)' /\ BestAck(p)' /\ BestRest(p)'
    <3>1. BestRun(p) /\ BestAck(p) /\ BestRest(p)
      BY <1>0
    <3>2. BestRun(p)'
      BY <2>1, <2>2, <2>3, <3>1 DEF BestRun, EndsAt
    <3>3. BestAck(p)'
      BY <2>1, <2>2, <2>3, <3>1 DEF BestAck, EndsAt
    <3>4. BestRest(p)'
      <4>1. job[p].pc \notin {"cut", "reset", "link"}
        BY <2>1, <3>1 DEF BestRest
      <4> QED BY <2>1, <2>2, <2>3, <3>1, <4>1 DEF BestRest, EndsAt
    <3> QED BY <3>2, <3>3, <3>4
  <2>5. (\A p \in Procs : Idles(p)') => Settled' /\ EndsAt(active)'
    BY <2>1, <2>3 DEF Faultless, BestInv, Idles, EndsAt
  <2> QED BY <1>0, <2>1, <2>2, <2>4, <2>5 DEF BestInv
<1>11. ASSUME NEW c, Refreshes(c) PROVE BestInv'
  <2>1. /\ Still /\ alive /\ c \in listed /\ c \in Codes /\ OnlyJob(Watchdog)
        /\ job'[Watchdog].pc = "again" /\ job'[Watchdog].code = c
        /\ UNCHANGED <<refs, late, slots, active, alive, line, resend, replies, registered>>
        /\ line /\ Send("unsub", c, Nobody) /\ D' = D
    BY <1>0, <1>11, OneBest, SameDesired DEF Refreshes, Turns
  <2>2. /\ registered = active /\ Settled /\ NoSub /\ Cardinality(active) <= slots
        /\ (\A k, d : ~Sent(k, d)) /\ (\A s, d : ~Told(s, d)) /\ c \in active
    BY <1>0, <2>1, BestAtRest DEF LineInv
  <2>3. /\ UnsubsFirst' /\ NoRefusal' /\ Fits' /\ NoSub'
        /\ \A d \in Codes : Ending(d)' <=> Ending(d) /\ d # c
    BY <2>1, <2>2, FlowDrops
  <2>4. EndsAt(active \ {c})' /\ Settled'
    BY <2>1, <2>2, <2>3 DEF EndsAt, Ending, Settled, Wanted
  <2>5. BestRest(Watchdog)'
    <3>1. EndsAt(active \ {job[Watchdog].code})'
      BY <2>1, <2>4 DEF EndsAt
    <3> QED BY <2>1, <2>2, <2>3, <2>4, <3>1 DEF BestRest
  <2>6. BestRun(Watchdog)' /\ BestAck(Watchdog)'
    BY <2>1 DEF BestRun, BestAck
  <2> QED BY <1>0, <2>1, <2>3, <2>5, <2>6, BestOfOne
<1>12. ASSUME NEW c, AsksAgain(c) PROVE BestInv'
  <2>1. /\ job[Watchdog].pc = "again" /\ job[Watchdog].code = c /\ c \in Codes /\ line
        /\ Send("sub", c, Watchdog) /\ Turns("await") /\ ~Idles(Watchdog)
        /\ UNCHANGED <<refs, late, slots, active, alive, line, resend, replies, registered>>
    BY <1>0, <1>12 DEF AsksAgain, Idles
  <2>2. Settled /\ c \in active /\ Cardinality(active) <= slots /\ EndsAt(active \ {c})
    BY <1>0, <2>1 DEF BestRest
  <2>3. active \in SUBSET Codes /\ \A d \in Codes : Ending(d) \/ d = c <=> d \in active
    BY <1>0, <2>2 DEF EndsAt
  <2>4. D' = D /\ UnsubsFirst' /\ NoRefusal' /\ Fits' /\ \A d \in Codes : Ending(d)' <=> d \in active
    BY <1>0, <2>1, <2>2, <2>3, FlowTakes
  <2>5. Settled' /\ EndsAt(active)'
    BY <2>1, <2>2, <2>4 DEF Settled, Wanted, EndsAt
  <2>6. BestRest(Watchdog)' /\ BestRun(Watchdog)' /\ BestAck(Watchdog)'
    BY <2>1, <2>5 DEF BestRest, BestRun, BestAck, Turns
  <2> QED BY <1>0, <2>1, <2>4, <2>6, BestOfOne DEF Turns
<1>13. CASE Restores
  <2>1. /\ Still /\ Turns("cut") /\ active' = {}
        /\ UNCHANGED <<refs, slots, alive, line, resend, wire, replies, registered>>
    BY <1>0, <1>13 DEF Restores, Alone
  <2>2. wire = <<>> /\ replies = <<>> /\ \A s, d : Told(s, d)' => Told(s, d)
    BY <2>1, BestAtRest, SameTraffic
  <2>3. UnsubsFirst' /\ NoRefusal' /\ Fits'
    BY <2>1, <2>2, FlowStays
  <2>4. BestRest(Watchdog)' /\ BestRun(Watchdog)' /\ BestAck(Watchdog)'
    BY <2>1, <2>2 DEF BestRest, BestRun, BestAck, Turns
  <2> QED BY <1>0, <2>1, <2>3, <2>4, BestOfOne DEF Turns
<1>14. CASE Cuts \/ Forces
  <2>1. /\ wire' = <<>> /\ replies' = <<>> /\ registered' = {} /\ resend' = {} /\ alive' = FALSE
        /\ UNCHANGED <<slots, active>>
    BY <1>14 DEF Cuts, Forces, Broken
  <2>2. UnsubsFirst' /\ NoRefusal' /\ Fits'
    BY <2>1, FlowAtRest
  <2>3. CASE Cuts
    <3>1. Turns("link") /\ ~Idles(Watchdog) /\ active = {}
      BY <1>0, <2>3 DEF Cuts, BestRest, Idles
    <3>2. BestRest(Watchdog)' /\ BestRun(Watchdog)' /\ BestAck(Watchdog)'
      BY <2>1, <3>1 DEF BestRest, BestRun, BestAck, Turns
    <3> QED BY <1>0, <2>1, <2>2, <3>1, <3>2, BestOfOne DEF Turns
  <2>4. CASE Forces
    <3>1. Turns("reset") /\ Still /\ ~alive
      BY <1>0, <2>4, OneBest DEF Forces, Books
    <3>2. active = {}
      BY <1>0, <3>1, BestAtRest DEF LineInv
    <3>3. BestRest(Watchdog)' /\ BestRun(Watchdog)' /\ BestAck(Watchdog)'
      BY <2>1, <3>1, <3>2 DEF BestRest, BestRun, BestAck, Turns
    <3> QED BY <1>0, <2>1, <2>2, <3>1, <3>3, BestOfOne DEF Turns
  <2> QED BY <1>14, <2>3, <2>4
<1>15. CASE Resets
  <2>1. /\ job[Watchdog].pc = "reset" /\ Turns("link") /\ ~Idles(Watchdog)
        /\ UNCHANGED <<refs, slots, active, alive, line, resend, wire, replies, registered>>
    BY <1>15 DEF Resets, Idles
  <2>2. active = {} /\ wire = <<>> /\ replies = <<>> /\ registered = {}
    BY <1>0, <2>1 DEF BestRest
  <2>3. UnsubsFirst' /\ NoRefusal' /\ Fits'
    BY <2>1, <2>2, FlowAtRest
  <2>4. BestRest(Watchdog)' /\ BestRun(Watchdog)' /\ BestAck(Watchdog)'
    BY <2>1, <2>2 DEF BestRest, BestRun, BestAck, Turns
  <2> QED BY <1>0, <2>1, <2>3, <2>4, BestOfOne DEF Turns
<1>16. CASE Relinks
  <2>1. /\ job[Watchdog].pc = "link" /\ ~Idles(Watchdog)
        /\ UNCHANGED <<refs, late, slots, active, resend, wire, replies, registered>>
    BY <1>16 DEF Relinks, Idles
  <2>2. active = {} /\ wire = <<>> /\ replies = <<>> /\ registered = {}
    BY <1>0, <2>1 DEF BestRest
  <2>3. /\ UnsubsFirst' /\ NoRefusal' /\ Fits' /\ NoSub'
        /\ \A c \in Codes : Ending(c)' <=> c \in registered'
    BY <2>1, <2>2, FlowAtRest
  <2>4. EndsAt(active)'
    BY <2>1, <2>2, <2>3 DEF EndsAt
  <2>5. CASE Connects /\ Turns("replan")
    <3>1. BestRest(Watchdog)' /\ BestRun(Watchdog)' /\ BestAck(Watchdog)'
      BY <2>3, <2>4, <2>5 DEF BestRest, BestRun, BestAck, Turns
    <3>2. alive' => line'
      <4>1. CASE alive /\ UNCHANGED <<alive, line, asked>>
        <5>1. line /\ line' = line
          BY <1>0, <4>1
        <5> QED BY <5>1
      <4>2. CASE ~alive /\ alive' = TRUE /\ line' = TRUE
        BY <4>2
      <4> QED BY <2>5, <4>1, <4>2 DEF Connects
    <3> QED BY <1>0, <2>1, <2>3, <2>5, <3>1, <3>2, BestOfOne DEF Turns
  <2>6. CASE Wanted(refs) = {} /\ Turns("idle") /\ UNCHANGED <<alive, line>>
    <3>1. active' = {} /\ D' = {} /\ Wanted(refs)' = {}
      BY <1>0, <2>1, <2>2, <2>6, SameDesired DEF Wanted
    <3>2. Settled'
      BY <3>1 DEF Settled
    <3>3. BestRest(Watchdog)' /\ BestRun(Watchdog)' /\ BestAck(Watchdog)'
      BY <2>6 DEF BestRest, BestRun, BestAck, Turns
    <3> QED BY <1>0, <2>1, <2>3, <2>4, <2>6, <3>2, <3>3, BestOfOne DEF Turns
  <2>7. \/ Connects /\ Turns("replan")
        \/ Wanted(refs) = {} /\ Turns("idle") /\ UNCHANGED <<alive, line>>
    BY <1>0, <1>16 DEF Relinks
  <2> QED BY <2>5, <2>6, <2>7
<1>17. CASE IsRefreshed
  <2>1. /\ job[Watchdog].pc = "await" /\ Turns("idle") /\ ~Idles(Watchdog)
        /\ Settled /\ EndsAt(active)
        /\ UNCHANGED <<refs, late, slots, active, alive, line, resend, wire, replies, registered>>
    BY <1>0, <1>17 DEF IsRefreshed, BestRest, Idles
  <2>2. \A s, d : Told(s, d)' => Told(s, d)
    BY <2>1, SameTraffic
  <2>3. D' = D /\ UnsubsFirst' /\ NoRefusal' /\ Fits' /\ \A d \in Codes : Ending(d)' <=> Ending(d)
    BY <2>1, <2>2, FlowStays
  <2>4. Settled' /\ EndsAt(active)'
    BY <2>1, <2>3 DEF Settled, Wanted, EndsAt
  <2>5. BestRest(Watchdog)' /\ BestRun(Watchdog)' /\ BestAck(Watchdog)'
    BY <2>1 DEF BestRest, BestRun, BestAck, Turns
  <2> QED BY <1>0, <2>1, <2>3, <2>4, <2>5, BestOfOne DEF Turns
<1>18. CASE UNCHANGED vars
  <2>1. UNCHANGED <<refs, late, slots, active, alive, line, resend, wire, replies, registered, job,
                    asked, pending>>
    BY <1>18 DEF vars, given, policy, client, broker
  <2>2. \A s, d : Told(s, d)' => Told(s, d)
    BY <2>1, SameTraffic
  <2>3. /\ D' = D /\ UnsubsFirst' /\ NoRefusal' /\ Fits'
        /\ (\A d \in Codes : Ending(d)' <=> Ending(d)) /\ (NoSub' <=> NoSub)
    BY <2>1, <2>2, FlowStays
  <2>4. /\ Settled' <=> Settled
        /\ \A S : EndsAt(S) => \A d \in Codes : Ending(d)' <=> d \in S
    BY <2>1, <2>3 DEF Settled, Wanted, EndsAt
  <2>5. ASSUME NEW p \in Procs PROVE BestRun(p)' /\ BestAck(p)' /\ BestRest(p)'
    <3>1. BestRun(p) /\ BestAck(p) /\ BestRest(p)
      BY <1>0
    <3>2. BestRun(p)'
      BY <2>1, <2>3, <2>4, <3>1 DEF BestRun, EndsAt
    <3>3. BestAck(p)'
      BY <2>1, <2>3, <2>4, <3>1 DEF BestAck, EndsAt
    <3>4. BestRest(p)'
      BY <2>1, <2>3, <2>4, <3>1 DEF BestRest, EndsAt
    <3> QED BY <3>2, <3>3, <3>4
  <2>6. (\A p \in Procs : Idles(p)') => Settled' /\ EndsAt(active)'
    BY <2>1, <2>4 DEF Faultless, BestInv, Idles, EndsAt
  <2> QED BY <1>0, <2>1, <2>3, <2>5, <2>6 DEF BestInv
<1>19. /\ ~Drops /\ ~Reconnects /\ ~Ends /\ \A c : ~Resubscribes(c) /\ ~Refuses(c)
  BY <1>0 DEF Drops, Reconnects, Ends, Resubscribes, Refuses, Books
<1> QED
  BY <1>0, <1>1, <1>2, <1>3, <1>4, <1>5, <1>6, <1>7, <1>8, <1>9, <1>10, <1>11, <1>12, <1>13,
     <1>14, <1>15, <1>16, <1>17, <1>18, <1>19, Steps

-----------------------------------------------------------------------------
(* The theorems *)

LEMMA InitIInv == Init => IInv
<1> SUFFICES ASSUME Init PROVE IInv
  OBVIOUS
<1> DEFINE start == [Idle EXCEPT !.pc = "restore"]
<1>1. /\ Idle \in Job /\ Idle.pc = "idle" /\ Idle.drop = {} /\ Idle.take = {}
      /\ Idle.ack = "open" /\ \A p : JobOk(p, Idle)
      /\ start \in Job /\ start.pc = "restore" /\ start.drop = {} /\ start.take = {}
      /\ start.ack = "open" /\ JobOk(Watchdog, start)
  BY IdleFacts DEF PC, JobOk
<1>2. \A p \in Procs : job[p] = IF p = Watchdog THEN start ELSE Idle
  <2>1. [Idle EXCEPT !.pc = "idle"] = Idle
    BY DEF Idle
  <2> QED BY <2>1 DEF Init
<1>3. job \in [Procs -> Job]
  <2>1. job = [p \in Procs |-> job[p]]
    BY DEF Init
  <2>2. \A p \in Procs : job[p] \in Job
    BY <1>1, <1>2
  <2> QED BY <2>1, <2>2
<1> HIDE DEF start
<1>4. /\ \A p \in Procs : /\ JobOk(p, job[p]) /\ job[p].drop = {} /\ job[p].take = {}
                          /\ Idles(p) /\ job[p].ack = "open"
      /\ W = "restore" /\ Watchdog \in Procs
  BY <1>1, <1>2, Constants DEF Idles, W
<1>5. /\ wire = <<>> /\ replies = <<>> /\ registered = {} /\ active = {} /\ ledger = {}
      /\ listed = {} /\ alive = FALSE /\ line = FALSE /\ resend = {} /\ faults = 0
      /\ requested = {} /\ late = {}
  BY DEF Init
<1>6. /\ (\A k, c : ~Sent(k, c)) /\ UnsubsFirst
      /\ \A s, c : ~Told(s, c)
  BY <1>5, EmptyFacts
<1>7. D = {}
  BY DEF Init, D, Desired, Wanted
<1>8. Base
  <2>1. Books
    <3>1. None \in Requests
      BY DEF None, Requests
    <3>2. 0 \in 0..MaxChanges /\ 0 \in 0..MaxFaults /\ 0 \in 0..MaxRefresh
      BY Constants
    <3>3. /\ refs \in [Codes -> SUBSET Kinds] /\ pending \in [Codes -> Requests]
          /\ refreshes \in [Codes -> 0..MaxRefresh]
      BY <3>1, <3>2 DEF Init
    <3>4. mode \in Modes /\ slots \in 1..MaxSlots /\ changes = 0 /\ noted = {} /\ asked = {}
      BY DEF Init
    <3> QED BY <1>5, <3>2, <3>3, <3>4 DEF Books
  <2>2. Traffic
    BY <1>5 DEF Traffic
  <2> QED BY <1>3, <1>4, <1>5, <1>6, <2>1, <2>2 DEF Base, JobInv, Jobs, LineInv, AskedInv
<1>9. PlanInv
  BY <1>4 DEF PlanInv, AtMostOne, PlanOk, Idles
<1>10. Calm
  <2>1. CalmInv /\ CutInv
    BY <1>4, <1>5 DEF CalmInv, CutInv, Idles
  <2>2. StartInv
    BY <1>5, <1>6 DEF StartInv, StartOk
  <2>3. TrafficInv /\ LedgerInv
    BY <1>5, <1>6 DEF TrafficInv, TrafficOk, LedgerInv, LedgerOk
  <2> QED BY <2>1, <2>2, <2>3 DEF Calm
<1>11. RoomInv
  BY <1>4, <1>5, <1>6, <1>7 DEF RoomInv
<1>12. BestInv
  <2>1. \A c \in Codes : ~Ending(c)
    BY <1>5, <1>6 DEF Ending
  <2>2. \A p \in Procs : BestRun(p) /\ BestAck(p) /\ BestRest(p)
    BY <1>4 DEF BestRun, BestAck, BestRest, Idles
  <2>3. Fits
    <3>1. {c \in Codes : Ending(c)} = {}
      BY <2>1
    <3>2. slots \in Nat
      BY <1>8, Constants DEF Base, Books
    <3> QED BY <3>1, <3>2, FS_EmptySet DEF Fits
  <2>4. Settled /\ EndsAt(active) /\ NoRefusal
    BY <1>5, <1>7, <2>1 DEF Settled, EndsAt, NoRefusal
  <2> QED BY <1>4, <1>5, <1>6, <2>2, <2>3, <2>4 DEF BestInv, Idles
<1> QED BY <1>5, <1>8, <1>9, <1>10, <1>11, <1>12 DEF IInv, Marks

LEMMA StepIInv == IInv /\ [Next]_vars => IInv'
<1> SUFFICES ASSUME IInv, [Next]_vars PROVE IInv'
  OBVIOUS
<1>0. Books /\ Traffic /\ JobInv /\ LineInv /\ AskedInv /\ Base
  BY DEF IInv, Base
<1>1. Base' /\ Marks'
  BY <1>0, BaseStep, MarksStep DEF IInv
<1>2. UNCHANGED <<mode, slots>>
  <2>1. ASSUME Next PROVE UNCHANGED <<mode, slots>>
    <3>1. ASSUME NEW p \in Procs, Rebalance(p) \/ Links(p) \/ Confirms(p) \/ GoesWithout(p)
          PROVE  UNCHANGED <<mode, slots>>
      BY <3>1 DEF Rebalance, Links, Confirms, GoesWithout
    <3>2. ASSUME NEW p \in Procs, NEW c, Unsubscribes(p, c) \/ Subscribes(p, c) \/ Discards(p, c)
          PROVE  UNCHANGED <<mode, slots>>
      BY <3>2 DEF Unsubscribes, Subscribes, Discards
    <3>3. ASSUME \/ \E c, s : Receives(c, s)
                 \/ \E k, c, s : Answers(k, c, s)
                 \/ \E c : Resubscribes(c) \/ Refreshes(c) \/ AsksAgain(c) \/ Refuses(c)
          PROVE  UNCHANGED <<mode, slots>>
      BY <3>3 DEF Receives, Answers, Resubscribes, Refreshes, AsksAgain, Refuses
    <3>4. CASE \/ Drops \/ Reconnects \/ Ends \/ Restores \/ Cuts \/ Forces \/ Resets \/ Relinks
               \/ IsRefreshed \/ Registers
      BY <3>4 DEF Drops, Reconnects, Ends, Restores, Cuts, Forces, Resets, Relinks, IsRefreshed,
                  Registers
    <3> QED BY <1>0, <2>1, <3>1, <3>2, <3>3, <3>4, Steps
  <2> QED BY <2>1 DEF vars, given
<1>3. ASSUME mode' # "busy" PROVE PlanInv'
  BY <1>0, <1>2, <1>3, PlanStep DEF IInv
<1>4. ASSUME mode = "calm" PROVE Given /\ LedgerInv
  BY <1>0, <1>4 DEF IInv, Calm, Given
<1>5. ASSUME mode' = "calm" PROVE Calm'
  BY <1>2, <1>4, <1>5, CalmStep, CutStep, StartStep, TrafficStep, LedgerStep DEF Calm
<1>6. ASSUME mode' = "calm", slots' >= Cardinality(Codes) PROVE RoomInv'
  BY <1>2, <1>4, <1>6, RoomStep DEF IInv
<1>7. ASSUME mode' # "busy", faults' = 0 PROVE BestInv'
  <2>1. faults = 0
    <3>1. ASSUME Next PROVE faults' = faults \/ faults' = faults + 1
      <4>1. ASSUME NEW p \in Procs, Rebalance(p) \/ Links(p) \/ Confirms(p) \/ GoesWithout(p)
            PROVE  faults' = faults \/ faults' = faults + 1
        BY <4>1 DEF Rebalance, Links, Confirms, GoesWithout
      <4>2. ASSUME NEW p \in Procs, NEW c, Unsubscribes(p, c) \/ Subscribes(p, c) \/ Discards(p, c)
            PROVE  faults' = faults
        BY <4>2 DEF Unsubscribes, Subscribes, Discards
      <4>3. ASSUME \/ \E c, s : Receives(c, s)
                   \/ \E k, c, s : Answers(k, c, s)
                   \/ \E c : Resubscribes(c) \/ Refreshes(c) \/ AsksAgain(c) \/ Refuses(c)
            PROVE  faults' = faults \/ faults' = faults + 1
        BY <4>3 DEF Receives, Answers, Resubscribes, Refreshes, AsksAgain, Refuses
      <4>4. CASE \/ Drops \/ Reconnects \/ Ends \/ Restores \/ Cuts \/ Forces \/ Resets
                 \/ Relinks \/ IsRefreshed \/ Registers
        BY <4>4 DEF Drops, Reconnects, Ends, Restores, Cuts, Forces, Resets, Relinks, IsRefreshed,
                    Registers
      <4> QED BY <1>0, <3>1, <4>1, <4>2, <4>3, <4>4, Steps
    <3>2. faults' = faults \/ faults' = faults + 1
      BY <3>1 DEF vars
    <3> QED BY <1>0, <1>7, <3>2, Constants DEF Books
  <2>2. Faultless
    BY <1>0, <1>2, <1>7, <2>1 DEF IInv, Faultless
  <2> QED BY <1>7, <2>2, BestStep
<1> QED BY <1>1, <1>3, <1>5, <1>6, <1>7 DEF IInv

\* The inductive invariant: the plans fit the ranking, and the books fit what is on its way
\* between SubscriptionPolicy, the WebSocket client, the broker and the watchdog.
THEOREM Inductive == Spec => []IInv
BY InitIInv, StepIInv, PTL DEF Spec

\* The books, the jobs and the traffic keep their types (types of SubscriptionPolicy's, the
\* client's and the watchdog's fields).
THEOREM SubscriptionsTyped == Spec => []TypeOK
<1>1. IInv => TypeOK
  BY Types DEF IInv, Base, JobInv
<1> QED BY <1>1, Inductive, PTL

\* Where nobody starts while another is at work, the client's ledger (_subscribed_items) says
\* nothing the broker has not registered, once nothing is under way.
THEOREM LedgerReal == Spec => []LedgerIsReal
<1>1. IInv => LedgerIsReal
  <2> SUFFICES ASSUME IInv, mode = "calm", Quiet PROVE ledger \subseteq registered
    BY DEF LedgerIsReal
  <2>1. /\ JobInv /\ Books /\ (\A c \in Codes : LedgerOk(c)) /\ Watchdog \in Procs
    BY Constants DEF IInv, Base, Calm, LedgerInv
  <2>2. /\ \A p \in Procs : job[p].drop = {} /\ job[p].take = {}
        /\ W # "replan" /\ resend = {} /\ line
        /\ \A k, c : ~Sent(k, c) /\ \A s, d : ~Told(s, d)
    BY <2>1, EmptyFacts DEF Quiet, Still, JobInv, JobOk, W
  <2> QED BY <2>1, <2>2 DEF LedgerOk, Planned, Books
<1> QED BY <1>1, Inductive, PTL

\* With slots for all, so is what the policy takes for active (_active_codes_price).
THEOREM ActiveReal == Spec => []ActiveIsReal
<1>1. IInv /\ LedgerIsReal => ActiveIsReal
  BY DEF IInv, RoomInv, LedgerIsReal, ActiveIsReal
<1> QED BY <1>1, Inductive, LedgerReal, PTL

\* Without a fault, and with nobody starting while another is at work: once nothing is under way,
\* the broker has registered only wanted codes, and after a rebalance exactly those the policy
\* ranks best.
THEOREM BestRegistered == Spec => []BestAreRegistered
<1>1. IInv => BestAreRegistered
  <2> SUFFICES ASSUME IInv, mode # "busy", faults = 0, Quiet
               PROVE  registered \subseteq Wanted(refs) /\ (late = {} => registered = D)
    BY DEF BestAreRegistered, D
  <2>1. Faultless /\ Still
    BY DEF IInv, Base, Faultless, Quiet
  <2> QED BY <2>1, BestAtRest DEF Settled
<1> QED BY <1>1, Inductive, PTL
=============================================================================
