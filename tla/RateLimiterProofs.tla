------------------------- MODULE RateLimiterProofs -------------------------
(***************************************************************************)
(* Proofs about RateLimiter, for every limit, window and length of time.   *)
(***************************************************************************)
EXTENDS RateLimiter, TLAPS

\* What a sequence's type says of its length and its elements.
LEMMA Elements ==
  ASSUME NEW S, NEW s \in Seq(S)
  PROVE  Len(s) \in Nat /\ \A i \in 1 .. Len(s) : s[i] \in S
OBVIOUS

\* Grants are recorded in the order of the clock.
Sorted == \A i, j \in Grants : i <= j => granted[i] <= granted[j]

\* No grant lies in the future.
Past == \A i \in Grants : granted[i] <= now

\* Only expired grants were dropped, and they stay expired.
DroppedExpired == \A i \in Grants : i <= dropped => Expired(granted[i])

\* The inductive invariant.
IInv == TypeOK /\ Sorted /\ Past /\ DroppedExpired /\ WindowBounded

\* What acquire() prunes leaves only expired grants dropped.
LEMMA PruningDropsExpired ==
  ASSUME IInv, NEW d \in 0 .. Len(granted), Prunes(d)
  PROVE  \A i \in Grants : i <= d => Expired(granted[i])
BY DEF IInv, TypeOK, DroppedExpired, Prunes, Grants

\* A grant keeps the invariant.
LEMMA GrantKeeps ==
  ASSUME IInv, Grant
  PROVE  IInv'
<1>1. PICK d \in 0 .. Len(granted) :
        /\ Prunes(d) /\ ~Full(d)
        /\ dropped' = d /\ granted' = Append(granted, now) /\ now' = now
  BY DEF Grant
<1> DEFINE n == Len(granted)
<1>2. /\ Len(granted') = n + 1
      /\ granted' \in Seq(0 .. MaxTime)
      /\ granted'[n + 1] = now
      /\ \A i \in 1 .. n : granted'[i] = granted[i]
  BY <1>1 DEF IInv, TypeOK
<1>3. /\ n \in Nat /\ now \in 0 .. MaxTime
      /\ \A i \in 1 .. n : granted[i] \in 0 .. MaxTime
  BY Elements DEF IInv, TypeOK
<1>4. d \in 0 .. n /\ n - d < Limit
  BY <1>1, <1>3, LimiterOK DEF Full, LimiterOK
<1>5. TypeOK'
  <2>1. (n + 1) - d <= Limit
    BY <1>3, <1>4, LimiterOK DEF LimiterOK
  <2>2. d \in 0 .. (n + 1)
    BY <1>3, <1>4
  <2> QED BY <1>1, <1>2, <1>3, <2>1, <2>2 DEF TypeOK
<1>6. \A i \in 1 .. n : granted[i] <= now
  BY DEF IInv, Past, Grants
<1>7. Sorted'
  BY <1>2, <1>3, <1>6 DEF IInv, Sorted, Grants
<1>8. Past'
  BY <1>1, <1>2, <1>3, <1>6 DEF Past, Grants
<1>9. \A i \in 1 .. n : i <= d => now - granted[i] >= Window
  BY <1>1, PruningDropsExpired DEF Expired, Grants
<1>10. DroppedExpired'
  BY <1>1, <1>2, <1>3, <1>4, <1>9 DEF DroppedExpired, Expired, Grants
<1>11. WindowBounded'
  <2> SUFFICES ASSUME NEW i \in 1 .. (n + 1), NEW j \in 1 .. (n + 1), j = i + Limit
               PROVE  granted'[j] - granted'[i] >= Window
    BY <1>2 DEF WindowBounded, Grants
  <2>1. i \in 1 .. n
    BY <1>3, LimiterOK DEF LimiterOK
  <2>2. CASE j = n + 1
    <3>1. i <= d
      BY <1>3, <1>4, <2>1, <2>2, LimiterOK DEF LimiterOK
    <3> QED BY <1>2, <1>9, <2>1, <2>2, <3>1
  <2>3. CASE j # n + 1
    <3>1. j \in 1 .. n
      BY <1>3, <2>3
    <3>2. granted[j] - granted[i] >= Window
      BY <2>1, <3>1 DEF IInv, WindowBounded, Grants
    <3> QED BY <1>2, <2>1, <3>1, <3>2
  <2> QED BY <2>2, <2>3
<1> QED BY <1>5, <1>7, <1>8, <1>10, <1>11 DEF IInv

\* A refusal keeps the invariant.
LEMMA RefuseKeeps ==
  ASSUME IInv, Refuse
  PROVE  IInv'
<1>1. PICK d \in 0 .. Len(granted) :
        /\ Prunes(d) /\ dropped' = d /\ now' = now /\ granted' = granted
  BY DEF Refuse
<1>2. TypeOK'
  <2>1. dropped <= d
    BY <1>1 DEF Prunes
  <2>2. Len(granted) - d <= Limit
    BY <2>1, LimiterOK DEF IInv, TypeOK, LimiterOK
  <2> QED BY <1>1, <2>2 DEF IInv, TypeOK
<1>3. \A i \in Grants : i <= d => Expired(granted[i])
  BY <1>1, PruningDropsExpired
<1>4. DroppedExpired'
  BY <1>1, <1>3 DEF DroppedExpired, Expired, Grants
<1> QED
  BY <1>1, <1>2, <1>4 DEF IInv, Sorted, Past, WindowBounded, Grants

\* Time keeps the invariant: what has expired stays expired.
LEMMA TickKeeps ==
  ASSUME IInv, Tick
  PROVE  IInv'
<1>1. /\ now' = now + 1 /\ now' \in 0 .. MaxTime
      /\ granted' = granted /\ dropped' = dropped
  BY LimiterOK DEF IInv, TypeOK, Tick, LimiterOK
<1>2. \A i \in Grants : granted[i] \in 0 .. MaxTime
  BY Elements DEF IInv, TypeOK, Grants
<1>3. TypeOK'
  BY <1>1 DEF IInv, TypeOK
<1>4. Past'
  BY <1>1, <1>2 DEF IInv, TypeOK, Past, Grants
<1>5. DroppedExpired'
  BY <1>1, <1>2, LimiterOK DEF IInv, TypeOK, DroppedExpired, Expired, Grants, LimiterOK
<1> QED BY <1>1, <1>3, <1>4, <1>5 DEF IInv, Sorted, WindowBounded, Grants

\* The invariant holds of every behaviour.
THEOREM Invariance == Spec => []IInv
<1>1. Init => IInv
  BY LimiterOK DEF Init, IInv, TypeOK, Sorted, Past, DroppedExpired, WindowBounded,
                   Grants, LimiterOK
<1>2. IInv /\ [Next]_vars => IInv'
  <2> SUFFICES ASSUME IInv, [Next]_vars PROVE IInv'
    OBVIOUS
  <2>1. CASE Grant
    BY <2>1, GrantKeeps
  <2>2. CASE Refuse
    BY <2>2, RefuseKeeps
  <2>3. CASE Tick
    BY <2>3, TickKeeps
  <2>4. CASE UNCHANGED vars
    BY <2>4 DEF vars, IInv, TypeOK, Sorted, Past, DroppedExpired, Expired,
                WindowBounded, Grants
  <2> QED BY <2>1, <2>2, <2>3, <2>4 DEF Next
<1> QED BY <1>1, <1>2, PTL DEF Spec

----------------------------------------------------------------------------
(* The theorems.                                                           *)

\* The deque stays within the limit, for ever.
THEOREM DequeBounded == Spec => []TypeOK
<1>1. IInv => TypeOK
  BY DEF IInv
<1> QED BY <1>1, Invariance, PTL

\* No window of the given length holds more than Limit grants, for any limit,
\* window and sequence of calls.
THEOREM NoWindowOverfull == Spec => []WindowBounded
<1>1. IInv => WindowBounded
  BY DEF IInv
<1> QED BY <1>1, Invariance, PTL

\* Nobody is refused while the window has room.
THEOREM RefusalsAreDue == Spec => []RefusesOnlyWhenFull
<1>1. IInv => RefusesOnlyWhenFull
  <2> SUFFICES ASSUME IInv, NEW d \in 0 .. Len(granted), Prunes(d), Full(d)
               PROVE  /\ Len(granted) >= Limit
                      /\ now - granted[Len(granted) - Limit + 1] < Window
    BY DEF RefusesOnlyWhenFull
  <2> DEFINE n == Len(granted)
             k == n - Limit + 1
  <2>1. /\ n \in Nat /\ d \in 0 .. n /\ n - d >= Limit /\ now \in 0 .. MaxTime
        /\ \A i \in 1 .. n : granted[i] \in 0 .. MaxTime
    BY Elements DEF IInv, TypeOK, Full
  <2>2. d < n /\ k \in 1 .. n /\ d + 1 \in 1 .. n /\ d + 1 <= k
    BY <2>1, LimiterOK DEF LimiterOK
  <2>3. now - granted[d + 1] < Window
    BY <2>1, <2>2, LimiterOK DEF Prunes, Expired, LimiterOK
  <2>4. granted[d + 1] <= granted[k]
    BY <2>2 DEF IInv, Sorted, Grants
  <2>5. granted[d + 1] \in Nat /\ granted[k] \in Nat /\ Window \in Nat /\ n >= Limit
    BY <2>1, <2>2, LimiterOK DEF LimiterOK
  <2> HIDE DEF k
  <2>6. now - granted[k] < Window
    BY <2>1, <2>3, <2>4, <2>5
  <2> QED BY <2>5, <2>6 DEF k
<1> QED BY <1>1, Invariance, PTL

=============================================================================
