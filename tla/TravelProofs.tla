----------------------------- MODULE TravelProofs -----------------------------
(***************************************************************************)
(* Proofs about the parts of Travel, for any number of requests, rows and  *)
(* users.  Each part has its inductive invariant, kept by the steps of the *)
(* part, and every step of Travel is one of the part or leaves it alone.   *)
(***************************************************************************)
EXTENDS Travel, SequenceTheorems, FoldTheorems

-----------------------------------------------------------------------------
(* The composition *)

\* A step of Travel is, for each of the parts proved about below, one of its own
\* steps or none.
LEMMA StepsOfParts ==
  ASSUME [TravelNext]_travelVars
  PROVE  /\ [Acc!Next]_(Acc!vars) /\ [Axs!Next]_(Axs!vars) /\ [Pla!Next]_(Pla!vars)
         /\ [Grp!Next]_(Grp!vars) /\ [Mes!Next]_(Mes!vars) /\ [Onc!Next]_(Onc!vars)
         /\ [Prg!Next]_(Prg!vars) /\ [Sav!Next]_(Sav!vars)
  BY DEF TravelNext, travelVars, Acc!vars, Axs!vars, Pla!vars, Grp!vars, Mes!vars, Onc!vars,
         Prg!vars, Sav!vars, Sav!bookingVars, Sav!planVars

-----------------------------------------------------------------------------
(* Naturals *)

\* A finite set of naturals is bounded: the longest part of an enumeration of it that
\* is bounded is the whole.
LEMMA FiniteIsBounded ==
  ASSUME NEW S, IsFiniteSet(S), S \subseteq Nat
  PROVE  \E n \in Nat : S \subseteq 0..n
  <1>0. PICK n \in Nat : ExistsSurjection(1..n, S)
    BY FS_NatSurjection
  <1>1. PICK f \in [1..n -> S] : \A x \in S : \E i \in 1..n : f[i] = x
    BY <1>0 DEF ExistsSurjection, Surjection
  <1> DEFINE K == {m \in 0..n : \E b \in Nat : \A i \in 1..m : f[i] <= b}
  <1>2. 0 \in K
    OBVIOUS
  <1>3. PICK m \in K : \A k \in K : m >= k
    <2>1. K # {} /\ K \subseteq 0..n
      BY <1>2
    <2> HIDE DEF K
    <2> QED
      BY <2>1, GreatestNatural
  <1>4. PICK b \in Nat : \A i \in 1..m : f[i] <= b
    BY <1>3
  <1>5. CASE m = n
    <2>1. ASSUME NEW x \in S PROVE x \in 0..b
      <3>1. PICK i \in 1..n : f[i] = x
        BY <1>1
      <3> QED
        BY <3>1, <1>4, <1>5
    <2> QED
      BY <2>1
  <1>6. CASE m # n
    <2>1. m \in 0..n /\ m + 1 \in 1..n
      BY <1>6, <1>3
    <2>2. f[m + 1] \in Nat
      BY <2>1
    <2> DEFINE c == IF f[m + 1] <= b THEN b ELSE f[m + 1]
    <2>3. c \in Nat /\ b <= c /\ f[m + 1] <= c
      BY <2>2
    <2> HIDE DEF c
    <2>4. ASSUME NEW i \in 1..(m + 1) PROVE f[i] <= c
      <3>1. CASE i = m + 1
        BY <3>1, <2>3
      <3>2. CASE i # m + 1
        <4>1. i \in 1..m /\ i \in 1..n
          BY <3>2, <2>1
        <4>2. f[i] <= b /\ f[i] \in Nat
          BY <4>1, <1>4
        <4> QED
          BY <4>2, <2>3
      <3> QED
        BY <3>1, <3>2
    <2>5. m + 1 \in K
      BY <2>1, <2>3, <2>4
    <2> QED
      BY <2>1, <2>5, <1>3
  <1> QED
    BY <1>5, <1>6

-----------------------------------------------------------------------------
(* Sorting *)

\* A finite set can be listed by the value of f: a least set that could not would have an
\* element of least value, and what is left can be listed after it.
LEMMA SortedList ==
  ASSUME NEW S, IsFiniteSet(S), NEW f \in [S -> Nat]
  PROVE  \E s \in [1..Cardinality(S) -> S] :
           \A i, j \in 1..Cardinality(S) : i < j => s[i] # s[j] /\ f[s[i]] <= f[s[j]]
  <1> DEFINE Listed(T, n) ==
        \E s \in [1..n -> T] : \A i, j \in 1..n : i < j => s[i] # s[j] /\ f[s[i]] <= f[s[j]]
      Bad == {n \in Nat : \E T \in SUBSET S : Cardinality(T) = n /\ ~Listed(T, n)}
  <1>1. \A T \in SUBSET S : IsFiniteSet(T) /\ Cardinality(T) \in Nat
    BY FS_Subset, FS_CardinalityType
  <1>2. CASE Bad = {}
    <2>1. \A T \in SUBSET S : Listed(T, Cardinality(T))
      BY <1>1, <1>2
    <2>2. Listed(S, Cardinality(S))
      BY <2>1
    <2> QED
      BY <2>2
  <1>3. CASE Bad # {}
    <2>1. PICK n \in Bad : \A m \in Bad : n <= m
      BY <1>3, LeastNatural
    <2>2. PICK T \in SUBSET S : Cardinality(T) = n /\ ~Listed(T, n)
      BY <2>1
    <2>3. T # {}
      <3>1. SUFFICES ASSUME T = {} PROVE FALSE
        OBVIOUS
      <3>2. n = 0
        BY <2>2, <3>1, FS_EmptySet
      <3>3. [i \in 1..0 |-> i] \in [1..n -> T] /\ 1..n = {}
        BY <3>2
      <3> QED
        BY <2>2, <3>3
    <2>4. PICK x \in T : \A y \in T : f[x] <= f[y]
      <3> DEFINE values == {f[y] : y \in T}
      <3>1. values \subseteq Nat /\ values # {}
        BY <2>3
      <3>2. PICK v \in values : \A w \in values : v <= w
        BY <3>1, LeastNatural
      <3> QED
        BY <3>2
    <2> DEFINE U == T \ {x}
    <2>5. n \in Nat /\ n # 0 /\ n - 1 \in Nat /\ U \in SUBSET S /\ Cardinality(U) = n - 1
      <3>1. n \in Nat
        BY <2>1
      <3>2. Cardinality(U) = n - 1 /\ Cardinality(U) \in Nat
        BY <1>1, <2>2, FS_RemoveElement
      <3> QED
        BY <3>1, <3>2
    <2>6. Listed(U, n - 1)
      BY <2>1, <2>5
    <2>7. PICK s \in [1..(n - 1) -> U] :
            \A i, j \in 1..(n - 1) : i < j => s[i] # s[j] /\ f[s[i]] <= f[s[j]]
      BY <2>6
    <2> DEFINE l == [i \in 1..n |-> IF i = 1 THEN x ELSE s[i - 1]]
    <2>8. \A i \in 1..n : i # 1 => i - 1 \in 1..(n - 1)
      BY <2>5
    <2>9. \A i \in 1..n : i # 1 => l[i] = s[i - 1] /\ l[i] \in U
      BY <2>8
    <2>10. l \in [1..n -> T] /\ l[1] = x
      BY <2>5, <2>8
    <2>11. ASSUME NEW i \in 1..n, NEW j \in 1..n, i < j
           PROVE  l[i] # l[j] /\ f[l[i]] <= f[l[j]]
      <3>1. j # 1
        BY <2>5, <2>11
      <3>2. CASE i = 1
        BY <2>4, <2>9, <2>10, <3>1, <3>2
      <3>3. CASE i # 1
        <4>1. i - 1 \in 1..(n - 1) /\ j - 1 \in 1..(n - 1) /\ i - 1 < j - 1
          BY <2>5, <2>8, <2>11, <3>1, <3>3
        <4> QED
          BY <2>7, <2>9, <3>1, <3>3, <4>1
      <3> QED
        BY <3>2, <3>3
    <2> HIDE DEF l
    <2>12. Listed(T, n)
      BY <2>10, <2>11
    <2> QED
      BY <2>2, <2>12
  <1> QED
    BY <1>2, <1>3

\* A list without repetition that is as long as the set leaves nothing out.
LEMMA ListIsComplete ==
  ASSUME NEW S, IsFiniteSet(S), NEW s \in [1..Cardinality(S) -> S],
         \A i, j \in 1..Cardinality(S) : i # j => s[i] # s[j]
  PROVE  \A x \in S : \E i \in 1..Cardinality(S) : s[i] = x
  <1>1. Cardinality(S) \in Nat
    BY FS_CardinalityType
  <1>2. Cardinality(1..Cardinality(S)) = Cardinality(S)
    BY <1>1, FS_Interval
  <1>3. s \in Injection(1..Cardinality(S), S)
    BY DEF Injection, IsInjective
  <1>4. s \in Surjection(1..Cardinality(S), S)
    BY <1>2, <1>3, FS_Injection
  <1> QED
    BY <1>4 DEF Surjection

\* The lists of a finite set without repetition: one is in order, and each is complete.
Lists(S) == {s \in [1..Cardinality(S) -> S] : \A i, j \in 1..Cardinality(S) : i # j => s[i] # s[j]}

LEMMA ListsOfSet ==
  ASSUME NEW S, IsFiniteSet(S), NEW f \in [S -> Nat]
  PROVE  /\ Cardinality(S) \in Nat
         /\ \E s \in Lists(S) : \A i, j \in DOMAIN s : i < j => f[s[i]] <= f[s[j]]
         /\ \A s \in Lists(S) : /\ Len(s) = Cardinality(S) /\ DOMAIN s = 1..Cardinality(S)
                               /\ \A x \in S : \E i \in 1..Cardinality(S) : s[i] = x
  <1>1. Cardinality(S) \in Nat
    BY FS_CardinalityType
  <1>2. \E s \in Lists(S) : \A i, j \in DOMAIN s : i < j => f[s[i]] <= f[s[j]]
    <2>1. PICK s \in [1..Cardinality(S) -> S] :
            \A i, j \in 1..Cardinality(S) : i < j => s[i] # s[j] /\ f[s[i]] <= f[s[j]]
      BY SortedList
    <2>2. \A i, j \in 1..Cardinality(S) : i # j => s[i] # s[j]
      BY <1>1, <2>1
    <2> QED
      BY <2>1, <2>2 DEF Lists
  <1>3. ASSUME NEW s \in Lists(S)
        PROVE  /\ Len(s) = Cardinality(S) /\ DOMAIN s = 1..Cardinality(S)
               /\ \A x \in S : \E i \in 1..Cardinality(S) : s[i] = x
    <2>1. /\ s \in [1..Cardinality(S) -> S]
          /\ \A i, j \in 1..Cardinality(S) : i # j => s[i] # s[j]
      BY DEF Lists
    <2>2. Len(s) = Cardinality(S) /\ DOMAIN s = 1..Cardinality(S)
      BY <1>1, <2>1
    <2> QED
      BY <2>1, <2>2, ListIsComplete
  <1> QED
    BY <1>1, <1>2, <1>3

-----------------------------------------------------------------------------
(* Groups *)

GroupPc == {"idle", "member", "create", "booking", "lost", "locate"}
GroupRequest == [pc : GroupPc, booking : GroupBookings \union {None}, group : Groups \union {None},
            user : Grp!Users \union {None}]

\* A request past its first step names a group.
GroupTypeInv ==
  /\ member \subseteq Groups
  /\ groupOf \in [GroupBookings -> Groups \union {None}]
  /\ groupReq \in [Requests -> GroupRequest]

\* The membership is there before the booking is written, and members stay.
MemberInv ==
  /\ \A b \in GroupBookings : groupOf[b] # None => groupOf[b] \in member
  /\ \A r \in Requests : Grp!At(r, "booking") => groupReq[r].group \in member
  /\ \A r \in Requests : groupReq[r].pc # "idle" => groupReq[r].group \in Groups

\* A sharing on its way was asked for, or is excused.
SharingInv ==
  /\ positions \subseteq consent \union inFlight
  /\ \A r \in Requests : groupReq[r].pc \in {"lost", "locate"} =>
       <<groupReq[r].group, groupReq[r].user>> \in consent \union inFlight

LEMMA IdleIsGroupRequest == Grp!Idle \in GroupRequest
  BY DEF Grp!Idle, GroupRequest, GroupPc

\* What a step of a request leaves in its slot, and that it leaves the others alone.
LEMMA SlotsOfGroupSteps ==
  ASSUME GroupTypeInv, NEW r \in Requests
  PROVE  /\ \A pc \in GroupPc : Grp!GoTo(r, pc) =>
              /\ groupReq' \in [Requests -> GroupRequest]
              /\ groupReq'[r] = [groupReq[r] EXCEPT !.pc = pc]
              /\ \A q \in Requests \ {r} : groupReq'[q] = groupReq[q]
         /\ Grp!End(r) =>
              /\ groupReq' \in [Requests -> GroupRequest]
              /\ groupReq'[r] = Grp!Idle
              /\ \A q \in Requests \ {r} : groupReq'[q] = groupReq[q]
         /\ \A pc \in GroupPc, b \in GroupBookings \union {None}, g \in Groups, u \in Grp!Users \union {None} :
              Grp!Begin(r, pc, b, g, u) =>
                /\ groupReq' \in [Requests -> GroupRequest]
                /\ groupReq'[r] = [pc |-> pc, booking |-> b, group |-> g, user |-> u]
                /\ \A q \in Requests \ {r} : groupReq'[q] = groupReq[q]
  <1>1. ASSUME NEW pc \in GroupPc, Grp!GoTo(r, pc)
        PROVE  /\ groupReq' \in [Requests -> GroupRequest]
               /\ groupReq'[r] = [groupReq[r] EXCEPT !.pc = pc]
               /\ \A q \in Requests \ {r} : groupReq'[q] = groupReq[q]
    <2>1. [groupReq[r] EXCEPT !.pc = pc] \in GroupRequest
      BY DEF GroupTypeInv, GroupRequest
    <2>2. groupReq' = [groupReq EXCEPT ![r] = [groupReq[r] EXCEPT !.pc = pc]]
      BY <1>1 DEF Grp!GoTo
    <2> QED
      BY <2>1, <2>2 DEF GroupTypeInv
  <1>2. ASSUME Grp!End(r)
        PROVE  /\ groupReq' \in [Requests -> GroupRequest]
               /\ groupReq'[r] = Grp!Idle
               /\ \A q \in Requests \ {r} : groupReq'[q] = groupReq[q]
    BY <1>2, IdleIsGroupRequest DEF GroupTypeInv, Grp!End
  <1>3. ASSUME NEW pc \in GroupPc, NEW b \in GroupBookings \union {None}, NEW g \in Groups,
               NEW u \in Grp!Users \union {None}, Grp!Begin(r, pc, b, g, u)
        PROVE  /\ groupReq' \in [Requests -> GroupRequest]
               /\ groupReq'[r] = [pc |-> pc, booking |-> b, group |-> g, user |-> u]
               /\ \A q \in Requests \ {r} : groupReq'[q] = groupReq[q]
    <2>1. [pc |-> pc, booking |-> b, group |-> g, user |-> u] \in GroupRequest
      BY DEF GroupRequest
    <2> QED
      BY <1>3, <2>1 DEF GroupTypeInv, Grp!Begin
  <1> QED
    BY <1>1, <1>2, <1>3

GroupInv == GroupTypeInv /\ MemberInv /\ SharingInv

LEMMA InitGroup == Grp!Init => GroupInv
  BY IdleIsGroupRequest DEF Grp!Init, GroupInv, GroupTypeInv, MemberInv, SharingInv, Grp!At, Grp!Idle

\* The handlers of the membership.
LEMMA StepMember ==
  ASSUME GroupInv, NEW r \in Requests,
         \/ \E g \in Groups : Grp!AddMember(r, g) \/ \E b \in GroupBookings : Grp!AssignGroup(r, b, g)
         \/ Grp!FindMember(r) \/ Grp!CreateMember(r) \/ Grp!WriteGroup(r)
  PROVE  GroupInv'
  <1> USE DEF GroupInv, MemberInv, Grp!At
  <1>1. ASSUME NEW g \in Groups, NEW b \in GroupBookings \union {None}, Grp!AssignGroup(r, b, g)
        PROVE  GroupInv'
    <2>1. /\ groupReq' \in [Requests -> GroupRequest] /\ groupReq'[r].pc = "member" /\ groupReq'[r].group = g
          /\ \A q \in Requests \ {r} : groupReq'[q] = groupReq[q]
      <3>1. "member" \in GroupPc /\ None \in Grp!Users \union {None}
        BY DEF GroupPc
      <3>2. Grp!Begin(r, "member", b, g, None)
        BY <1>1 DEF Grp!AssignGroup
      <3>3. GroupTypeInv
        OBVIOUS
      <3>4. /\ groupReq' \in [Requests -> GroupRequest]
            /\ groupReq'[r] = [pc |-> "member", booking |-> b, group |-> g, user |-> None]
            /\ \A q \in Requests \ {r} : groupReq'[q] = groupReq[q]
        BY <3>1, <3>2, <3>3, SlotsOfGroupSteps
      <3> QED
        BY <3>4
    <2>2. UNCHANGED <<member, groupOf, positions, consent, inFlight>>
      BY <1>1 DEF Grp!AssignGroup
    <2> QED
      BY <2>1, <2>2 DEF GroupTypeInv, SharingInv
  <1>2. ASSUME Grp!FindMember(r) \/ Grp!CreateMember(r)
        PROVE  GroupInv'
    <2>1. /\ groupReq' \in [Requests -> GroupRequest]
          /\ \A q \in Requests \ {r} : groupReq'[q] = groupReq[q]
          /\ groupReq'[r].pc \in {"idle", "create", "booking"}
          /\ groupReq'[r].pc # "idle" => groupReq'[r].group = groupReq[r].group
      <3>1. \/ Grp!End(r) \/ Grp!GoTo(r, "booking") \/ Grp!GoTo(r, "create")
        BY <1>2 DEF Grp!FindMember, Grp!CreateMember, Grp!AfterMember
      <3>2. /\ groupReq' \in [Requests -> GroupRequest]
            /\ \A q \in Requests \ {r} : groupReq'[q] = groupReq[q]
            /\ \/ groupReq'[r] = Grp!Idle
               \/ \E pc \in {"booking", "create"} : groupReq'[r] = [groupReq[r] EXCEPT !.pc = pc]
        BY <3>1, SlotsOfGroupSteps DEF GroupPc
      <3> QED
        BY <3>2 DEF Grp!Idle, GroupTypeInv, GroupRequest
    <2>2. /\ member \subseteq member' /\ member' \subseteq Groups
          /\ UNCHANGED <<groupOf, positions, consent, inFlight>>
          /\ groupReq[r].group \in Groups
      BY <1>2 DEF Grp!FindMember, Grp!CreateMember, GroupTypeInv
    <2>3. groupReq'[r].pc = "booking" => groupReq[r].group \in member'
      <3>1. CASE Grp!CreateMember(r)
        BY <3>1 DEF Grp!CreateMember
      <3>2. CASE Grp!FindMember(r) /\ groupReq[r].group \notin member
        <4>1. groupReq'[r] = [groupReq[r] EXCEPT !.pc = "create"]
          BY <3>2, SlotsOfGroupSteps DEF Grp!FindMember, GroupPc
        <4> QED
          BY <4>1 DEF GroupTypeInv, GroupRequest
      <3>3. CASE Grp!FindMember(r) /\ groupReq[r].group \in member
        BY <3>3, <2>2
      <3> QED
        BY <1>2, <3>1, <3>2, <3>3
    <2> QED
      BY <2>1, <2>2, <2>3 DEF GroupTypeInv, SharingInv
  <1>3. ASSUME Grp!WriteGroup(r)
        PROVE  GroupInv'
    <2>1. /\ groupReq' \in [Requests -> GroupRequest] /\ groupReq'[r] = Grp!Idle
          /\ \A q \in Requests \ {r} : groupReq'[q] = groupReq[q]
      BY <1>3, SlotsOfGroupSteps DEF Grp!WriteGroup
    <2>2. /\ groupOf' = [groupOf EXCEPT ![groupReq[r].booking] = groupReq[r].group]
          /\ groupReq[r].group \in member
          /\ UNCHANGED <<member, positions, consent, inFlight>>
      BY <1>3 DEF Grp!WriteGroup
    <2>3. groupOf' \in [GroupBookings -> Groups \union {None}]
      BY <2>2 DEF GroupTypeInv
    <2>4. \A b \in GroupBookings : groupOf'[b] # None => groupOf'[b] \in member'
      BY <2>2 DEF GroupTypeInv
    <2> QED
      BY <2>1, <2>2, <2>3, <2>4 DEF GroupTypeInv, SharingInv, Grp!Idle
  <1>4. \A g \in Groups : Grp!AddMember(r, g) => Grp!AssignGroup(r, None, g)
    BY DEF Grp!AddMember
  <1> QED
    BY <1>1, <1>2, <1>3, <1>4

\* The handlers of the positions.
LEMMA StepSharing ==
  ASSUME GroupInv, NEW r \in Requests,
         \/ \E g \in Groups : Grp!TriggerLostAlert(r, g) \/ \E u \in Grp!Users : Grp!UpdateLocation(r, u, g)
         \/ Grp!LocateLost(r) \/ Grp!UpsertLocation(r) \/ Grp!Drop(r)
  PROVE  GroupInv'
  <1> USE DEF GroupInv, MemberInv, SharingInv, Grp!At
  <1>1. ASSUME NEW g \in Groups, NEW u \in Grp!Users, Grp!UpdateLocation(r, u, g) \/
                 (Grp!TriggerLostAlert(r, g) /\ u = Pilgrim)
        PROVE  GroupInv'
    <2>1. Grp!Begin(r, "locate", None, g, u) \/ Grp!Begin(r, "lost", None, g, u)
      BY <1>1 DEF Grp!UpdateLocation, Grp!TriggerLostAlert
    <2>2. /\ groupReq' \in [Requests -> GroupRequest]
          /\ groupReq'[r].pc \in {"lost", "locate"} /\ groupReq'[r].group = g /\ groupReq'[r].user = u
          /\ \A q \in Requests \ {r} : groupReq'[q] = groupReq[q]
      <3>1. {"lost", "locate"} \subseteq GroupPc /\ None \in GroupBookings \union {None}
            /\ u \in Grp!Users \union {None}
        BY DEF GroupPc
      <3>2. GroupTypeInv
        OBVIOUS
      <3>3. ASSUME NEW pc \in {"lost", "locate"}, Grp!Begin(r, pc, None, g, u)
            PROVE  /\ groupReq' \in [Requests -> GroupRequest]
                   /\ groupReq'[r] = [pc |-> pc, booking |-> None, group |-> g, user |-> u]
                   /\ \A q \in Requests \ {r} : groupReq'[q] = groupReq[q]
        <4>1. pc \in GroupPc
          BY <3>1
        <4> QED
          BY <3>1, <3>2, <3>3, <4>1, SlotsOfGroupSteps
      <3> QED
        BY <2>1, <3>3
    <2>3. /\ consent' = consent \union {<<g, u>>} /\ inFlight' = inFlight \ {<<g, u>>}
          /\ UNCHANGED <<member, groupOf, positions>>
      BY <1>1 DEF Grp!UpdateLocation, Grp!TriggerLostAlert
    <2>4. consent \union inFlight \subseteq consent' \union inFlight'
      BY <2>3
    <2> QED
      BY <2>2, <2>3, <2>4 DEF GroupTypeInv
  <1>2. ASSUME Grp!LocateLost(r)
        PROVE  GroupInv'
    <2>1. /\ groupReq' \in [Requests -> GroupRequest] /\ groupReq'[r] = [groupReq[r] EXCEPT !.pc = "locate"]
          /\ \A q \in Requests \ {r} : groupReq'[q] = groupReq[q]
      BY <1>2, SlotsOfGroupSteps DEF Grp!LocateLost, GroupPc
    <2>2. /\ groupReq'[r].pc = "locate" /\ groupReq'[r].group = groupReq[r].group
          /\ groupReq'[r].user = groupReq[r].user /\ groupReq[r].pc = "lost"
      BY <1>2, <2>1 DEF Grp!LocateLost, GroupTypeInv, GroupRequest
    <2>3. UNCHANGED <<member, groupOf, positions, consent, inFlight>>
      BY <1>2 DEF Grp!LocateLost
    <2> QED
      BY <2>1, <2>2, <2>3 DEF GroupTypeInv
  <1>3. ASSUME Grp!UpsertLocation(r) \/ Grp!Drop(r)
        PROVE  GroupInv'
    <2>1. /\ groupReq' \in [Requests -> GroupRequest] /\ groupReq'[r] = Grp!Idle
          /\ \A q \in Requests \ {r} : groupReq'[q] = groupReq[q]
      BY <1>3, SlotsOfGroupSteps DEF Grp!UpsertLocation, Grp!Drop
    <2>2. /\ positions' \subseteq consent \union inFlight
          /\ UNCHANGED <<member, groupOf, consent, inFlight>>
      BY <1>3 DEF Grp!UpsertLocation, Grp!Drop
    <2> QED
      BY <2>1, <2>2 DEF GroupTypeInv, Grp!Idle
  <1>4. Pilgrim \in Grp!Users
    BY DEF Grp!Users
  <1> QED
    BY <1>1, <1>2, <1>3, <1>4

\* Stopping a sharing excuses the ones that are on their way.
LEMMA StepClear ==
  ASSUME GroupInv, NEW u \in Grp!Users, NEW g \in Groups, Grp!ClearLocation(u, g)
  PROVE  GroupInv'
  <1>1. UNCHANGED <<member, groupOf, groupReq>>
    BY DEF Grp!ClearLocation
  <1>2. /\ positions' = positions \ {<<g, u>>} /\ consent' = consent \ {<<g, u>>}
        /\ inFlight \subseteq inFlight'
        /\ Grp!Sharing(u, g) => <<g, u>> \in inFlight'
    BY DEF Grp!ClearLocation, Grp!Stop
  <1>3. ASSUME NEW r \in Requests, groupReq[r].pc \in {"lost", "locate"}
        PROVE  <<groupReq[r].group, groupReq[r].user>> \in consent' \union inFlight'
    <2>1. <<groupReq[r].group, groupReq[r].user>> \in consent \union inFlight
      BY <1>3 DEF GroupInv, SharingInv
    <2>2. CASE <<groupReq[r].group, groupReq[r].user>> = <<g, u>>
      BY <1>2, <1>3, <2>2 DEF Grp!Sharing
    <2>3. CASE <<groupReq[r].group, groupReq[r].user>> # <<g, u>>
      BY <1>2, <2>1, <2>3
    <2> QED
      BY <2>2, <2>3
  <1> QED
    BY <1>1, <1>2, <1>3 DEF GroupInv, GroupTypeInv, MemberInv, SharingInv, Grp!At

LEMMA NextGroup == GroupInv /\ [Grp!Next]_(Grp!vars) => GroupInv'
  <1> SUFFICES ASSUME GroupInv, [Grp!Next]_(Grp!vars) PROVE GroupInv'
    OBVIOUS
  <1>1. CASE UNCHANGED Grp!vars
    BY <1>1 DEF Grp!vars, GroupInv, GroupTypeInv, MemberInv, SharingInv, Grp!At
  <1>2. CASE Grp!Next
    BY <1>2, StepMember, StepSharing, StepClear DEF Grp!Next
  <1> QED
    BY <1>1, <1>2

LEMMA GroupsHold == TravelSpec => []GroupInv
  <1>1. TravelInit => GroupInv
    BY InitGroup DEF TravelInit
  <1>2. GroupInv /\ [TravelNext]_travelVars => GroupInv'
    BY NextGroup, StepsOfParts
  <1> QED
    BY <1>1, <1>2, PTL DEF TravelSpec

\* However many placements overlap, a booking is never in a group before its pilgrim:
\* one that dies on its way leaves a member without a place, never the opposite.
THEOREM PlacesFollowMembers == TravelSpec => []BookingIsInItsGroup
  <1>1. GroupInv => BookingIsInItsGroup
    BY DEF GroupInv, MemberInv, BookingIsInItsGroup, Grp!BookingIsInItsGroup,
           Grp!RosterBookings
  <1> QED
    BY <1>1, GroupsHold, PTL

\* However many users ask to share and to stop at once, no position outlives the
\* consent of its owner.
THEOREM PositionsStayConsented == TravelSpec => []PositionsAreConsented
  <1>1. GroupInv => PositionsAreConsented
    BY DEF GroupInv, SharingInv, PositionsAreConsented, Grp!PositionsAreConsented,
           Grp!FamilyLocation
  <1> QED
    BY <1>1, GroupsHold, PTL

-----------------------------------------------------------------------------
(* Progress *)

ProgressRow == [done : BOOLEAN, count : Nat, stamp : Nat]
ItemSlot == [pc : {"idle"}] \union [pc : {"sync"}, item : Prg!Item, existing : ProgressRow \union {None}]

ProgressTypeInv ==
  /\ row \in ProgressRow \union {None}
  /\ newest \subseteq Prg!Item /\ since \in Nat /\ overlap \in BOOLEAN
  /\ itemReq \in [Requests -> ItemSlot]

\* The newest items have one stamp; the row is that of one of them, or of the reset
\* after it, until an item is handled while another changes the row.
ProgressInv ==
  /\ ProgressTypeInv
  /\ \A i, j \in newest : i.stamp = j.stamp
  /\ ~overlap =>
       /\ row = None => newest = {} /\ since = 0
       /\ Prg!NewestItemWins

\* What an upsert leaves in the row.
LEMMA UpsertHoldsItem ==
  ASSUME ProgressTypeInv, NEW i \in Prg!Item
  PROVE  /\ Prg!Upserted(i) \in ProgressRow
         /\ Prg!Upserted(i).stamp = i.stamp
         /\ \A f \in {"done", "count"} : i[f] # None => Prg!Upserted(i)[f] = i[f]
  <1> DEFINE old == IF row = None THEN Prg!New ELSE row
  <1>1. old \in ProgressRow
    BY DEF ProgressTypeInv, ProgressRow, Prg!New
  <1>2. Prg!Upserted(i) = [done |-> Prg!Kept(old, i, "done"), count |-> Prg!Kept(old, i, "count"),
                           stamp |-> i.stamp]
    BY DEF Prg!Upserted
  <1> HIDE DEF old
  <1>3. /\ Prg!Kept(old, i, "done") \in BOOLEAN /\ Prg!Kept(old, i, "count") \in Nat
        /\ i.stamp \in Nat
    <2>1. i["done"] \in {None, TRUE} /\ i["count"] \in {None, 1} /\ i.stamp \in Nat
      <3>1. i["done"] \in {None, TRUE}
        BY Zenon DEF Prg!Item
      <3>2. i["count"] \in {None, 1} /\ i.stamp \in Prg!Stamps
        BY DEF Prg!Item
      <3>3. Prg!Stamps \subseteq Nat
        BY DEF Prg!Stamps
      <3> QED
        BY <3>1, <3>2, <3>3
    <2>2. old["done"] \in BOOLEAN /\ old["count"] \in Nat
      BY <1>1 DEF ProgressRow
    <2>3. Prg!Kept(old, i, "done") \in BOOLEAN
      BY <2>1, <2>2 DEF Prg!Kept
    <2>4. Prg!Kept(old, i, "count") \in Nat
      BY <2>1, <2>2 DEF Prg!Kept
    <2> QED
      BY <2>1, <2>3, <2>4
  <1>4. Prg!Upserted(i) \in ProgressRow /\ Prg!Upserted(i).stamp = i.stamp
    BY <1>2, <1>3 DEF ProgressRow
  <1>5. ASSUME i["done"] # None PROVE Prg!Upserted(i)["done"] = i["done"]
    BY <1>2, <1>5 DEF Prg!Kept
  <1>6. ASSUME i["count"] # None PROVE Prg!Upserted(i)["count"] = i["count"]
    BY <1>2, <1>6 DEF Prg!Kept
  <1> QED
    BY <1>4, <1>5, <1>6

LEMMA WriteKeepsNewest ==
  ASSUME ProgressInv, NEW r \in Requests, NEW i, i = itemReq[r].item, Prg!SyncWrite(r)
  PROVE  ProgressInv'
  <1>1. i \in Prg!Item
    BY DEF Prg!SyncWrite, ProgressInv, ProgressTypeInv, ItemSlot
  <1>2. /\ row' = IF Prg!Loses(itemReq[r].existing, i) THEN row ELSE Prg!Upserted(i)
        /\ newest' = Prg!Newest(i) /\ since' = since
        /\ overlap' = (overlap \/ itemReq[r].existing # row)
        /\ itemReq' = [itemReq EXCEPT ![r] = Prg!Idle]
    BY DEF Prg!SyncWrite
  <1>3. /\ Prg!Upserted(i) \in ProgressRow
        /\ Prg!Upserted(i).stamp = i.stamp
        /\ \A f \in {"done", "count"} : i[f] # None => Prg!Upserted(i)[f] = i[f]
    BY <1>1, UpsertHoldsItem DEF ProgressInv
  <1>4. i.stamp \in Nat /\ i.stamp > 0 /\ \A j \in newest : j.stamp \in Nat
    <2>1. \A j \in Prg!Item : j.stamp \in Nat /\ j.stamp > 0
      BY DEF Prg!Item, Prg!Stamps
    <2> QED
      BY <1>1, <2>1 DEF ProgressInv, ProgressTypeInv
  <1>5. /\ \A j \in newest' : j = i \/ j \in newest
        /\ \/ newest' = newest /\ \E j \in newest : j.stamp > i.stamp
           \/ /\ i \in newest' /\ \A j \in newest' : j.stamp = i.stamp
              /\ \A j \in newest : j.stamp <= i.stamp /\ (j.stamp = i.stamp => j \in newest')
    BY <1>2, <1>4 DEF Prg!Newest
  <1>6. ProgressTypeInv'
    <2>1. overlap' \in BOOLEAN
      BY <1>2 DEF ProgressInv, ProgressTypeInv
    <2>2. itemReq' \in [Requests -> ItemSlot]
      BY <1>2 DEF ProgressInv, ProgressTypeInv, ItemSlot, Prg!Idle
    <2> QED
      BY <1>1, <1>2, <1>3, <1>5, <2>1, <2>2 DEF ProgressInv, ProgressTypeInv
  <1>7. \A j, k \in newest' : j.stamp = k.stamp
    BY <1>5 DEF ProgressInv
  <1>8. ASSUME ~overlap' PROVE (row' = None => newest' = {} /\ since' = 0) /\ Prg!NewestItemWins'
    <2>1. ~overlap /\ itemReq[r].existing = row
      BY <1>2, <1>8
    <2>2. /\ row = None => newest = {} /\ since = 0
          /\ row # None => IF \E j \in newest : j.stamp > since
                             THEN \E j \in newest : row.stamp = j.stamp /\ Prg!Holds(j)
                             ELSE row.stamp = since
      BY <2>1 DEF ProgressInv, Prg!NewestItemWins
    <2>3. row' # None
      BY <1>2, <1>3, <2>1, TravelAssumption DEF Prg!Loses, ProgressRow
    <2>4. CASE Prg!Loses(row, i)
      <3>1. row # None /\ row.stamp >= i.stamp /\ row' = row /\ since' = since
            /\ row.stamp \in Nat /\ since \in Nat
        BY <1>2, <2>1, <2>4 DEF Prg!Loses, ProgressInv, ProgressTypeInv, ProgressRow
      <3>2. CASE \E j \in newest : j.stamp > since
        <4>1. PICK w \in newest : row.stamp = w.stamp /\ Prg!Holds(w)
          BY <2>2, <3>1, <3>2
        <4>2. w.stamp > since /\ w \in newest'
          BY <1>4, <1>5, <3>1, <3>2, <4>1 DEF ProgressInv
        <4>3. Prg!Holds(w)'
          BY <3>1, <4>1 DEF Prg!Holds
        <4> QED
          BY <2>3, <3>1, <4>1, <4>2, <4>3 DEF Prg!NewestItemWins
      <3>3. CASE ~\E j \in newest : j.stamp > since
        <4>1. row.stamp = since /\ ~(i.stamp > since)
          BY <1>4, <2>2, <3>1, <3>3
        <4>2. ~\E j \in newest' : j.stamp > since
          BY <1>5, <3>3, <4>1
        <4> QED
          BY <2>3, <3>1, <4>1, <4>2 DEF Prg!NewestItemWins
      <3> QED
        BY <3>2, <3>3
    <2>5. CASE ~Prg!Loses(row, i)
      <3>1. row' = Prg!Upserted(i) /\ row'.stamp = i.stamp /\ Prg!Holds(i)'
        BY <1>2, <1>3, <2>1, <2>5 DEF Prg!Holds
      <3>2. /\ row = None => newest = {} /\ since = 0
            /\ row # None => row.stamp < i.stamp /\ row.stamp \in Nat
            /\ since \in Nat
        BY <1>4, <2>2, <2>5 DEF Prg!Loses, ProgressInv, ProgressTypeInv, ProgressRow
      <3>3. i.stamp > since /\ \A j \in newest : j.stamp < i.stamp
        <4>1. CASE row = None
          BY <1>4, <3>2, <4>1
        <4>2. CASE row # None /\ \E j \in newest : j.stamp > since
          BY <1>4, <2>2, <3>2, <4>2 DEF ProgressInv
        <4>3. CASE row # None /\ ~\E j \in newest : j.stamp > since
          BY <1>4, <2>2, <3>2, <4>3
        <4> QED
          BY <4>1, <4>2, <4>3
      <3>4. i \in newest'
        BY <1>4, <1>5, <3>3
      <3> QED
        BY <1>2, <2>3, <3>1, <3>3, <3>4 DEF Prg!NewestItemWins
    <2> QED
      BY <2>4, <2>5, <2>3
  <1> QED
    BY <1>6, <1>7, <1>8 DEF ProgressInv

LEMMA ResetKeepsNewest ==
  ASSUME ProgressInv, NEW t \in Prg!Stamps, Prg!ResetCounter(t)
  PROVE  ProgressInv'
  <1>1. /\ row' = IF row = None THEN [Prg!New EXCEPT !.stamp = t]
                  ELSE [row EXCEPT !.count = 0, !.stamp = t]
        /\ newest' = {} /\ since' = t /\ UNCHANGED <<overlap, itemReq>>
    BY DEF Prg!ResetCounter
  <1>2. row' \in ProgressRow /\ row'.stamp = t /\ t \in Nat
    <2>1. t \in Nat
      BY DEF Prg!Stamps
    <2>2. CASE row = None
      BY <1>1, <2>1, <2>2 DEF ProgressRow, Prg!New
    <2>3. CASE row # None
      BY <1>1, <2>1, <2>3 DEF ProgressInv, ProgressTypeInv, ProgressRow
    <2> QED
      BY <2>1, <2>2, <2>3
  <1>3. row' # None
    BY <1>2, TravelAssumption DEF ProgressRow
  <1>4. ProgressTypeInv'
    BY <1>1, <1>2 DEF ProgressInv, ProgressTypeInv
  <1> QED
    BY <1>1, <1>2, <1>3, <1>4 DEF ProgressInv, Prg!NewestItemWins

\* However late, repeated or out of order the items of any number of batches arrive,
\* the row is that of the newest one, or of the reset after it.
THEOREM NewestItemAlwaysWins == TravelSpec => []NewestItemWins
  <1>1. TravelInit => ProgressInv
    <2> SUFFICES ASSUME Prg!Init PROVE ProgressInv
      BY DEF TravelInit
    <2>1. itemReq \in [Requests -> ItemSlot]
      BY DEF Prg!Init, Prg!Idle, ItemSlot
    <2>2. row = None /\ newest = {} /\ since = 0 /\ ~overlap /\ overlap \in BOOLEAN
      BY DEF Prg!Init
    <2> QED
      BY <2>1, <2>2 DEF ProgressInv, ProgressTypeInv, Prg!NewestItemWins
  <1>2. ProgressInv /\ [Prg!Next]_(Prg!vars) => ProgressInv'
    <2> SUFFICES ASSUME ProgressInv, [Prg!Next]_(Prg!vars) PROVE ProgressInv'
      OBVIOUS
    <2>1. ASSUME NEW r \in Requests, NEW i \in Prg!Item, Prg!SyncRead(r, i)
          PROVE  ProgressInv'
      <3>1. /\ UNCHANGED <<row, newest, since, overlap>>
            /\ itemReq' = [itemReq EXCEPT ![r] = [pc |-> "sync", item |-> i, existing |-> row]]
        BY <2>1 DEF Prg!SyncRead
      <3>2. ProgressTypeInv'
        BY <3>1 DEF ProgressInv, ProgressTypeInv, ItemSlot
      <3> QED
        BY <3>1, <3>2 DEF ProgressInv, Prg!NewestItemWins, Prg!Holds
    <2>2. CASE UNCHANGED Prg!vars
      <3>1. UNCHANGED <<row, newest, since, overlap, itemReq>>
        BY <2>2 DEF Prg!vars
      <3> QED
        BY <3>1 DEF ProgressInv, ProgressTypeInv, Prg!NewestItemWins, Prg!Holds
    <2> QED
      BY <2>1, <2>2, WriteKeepsNewest, ResetKeepsNewest DEF Prg!Next
  <1>3. ProgressInv /\ [TravelNext]_travelVars => ProgressInv'
    BY <1>2, StepsOfParts
  <1>4. ProgressInv => NewestItemWins
    BY DEF ProgressInv, NewestItemWins, Prg!NewestItemWins
  <1> QED
    BY <1>1, <1>3, <1>4, PTL DEF TravelSpec

-----------------------------------------------------------------------------
(* Accounts *)

AccountRow == [role : Acc!OtpRoles \union Acc!ResetRoles, active : BOOLEAN, password : Nat]
CodeRow == [kept : BOOLEAN, expired : BOOLEAN, attempts : Nat]
SessionRow == [live : BOOLEAN, code : Nat, password : Nat, late : BOOLEAN]

\* The statements that hold a code they have not spent; those that have spent it, or
\* have none; those that know the password; those that act on an account.
Before == {"spend", "miss"}
After == {"find", "signup", "issue"}
Knowing == {"issue", "rotate"}
WithSession == {"renew", "rotate", "logout"}
WithAccount == {"issue", "link", "reset"} \union WithSession
AccountPc == {"idle", "replace", "create", "register", "agency", "guide"}
             \union Before \union After \union WithAccount
AccountSlot == [pc : AccountPc, code : Nat, session : Nat, password : Nat, late : BOOLEAN]

AccountTypeInv ==
  /\ user \in AccountRow \union {None}
  /\ codes \in Seq(CodeRow) /\ sessions \in Seq(SessionRow)
  /\ accountReq \in [Requests -> AccountSlot]

\* What a request holds: a code that exists, and is gone once it was spent; the
\* password in force, unless a reset came since; the session it has found.
CodeGone(c) == c \in DOMAIN codes /\ ~codes[c].kept
SlotOk(x) ==
  /\ x \in AccountSlot
  /\ x.pc \in Before => x.code \in DOMAIN codes
  /\ x.pc \in After => x.code = 0 \/ CodeGone(x.code)
  /\ x.pc \notin Before \union After => x.code = 0
  /\ x.pc \notin Knowing => x.password = 0
  /\ x.pc \in Knowing => x.late \/ x.password = user.password
  /\ x.pc \in WithSession => x.session \in DOMAIN sessions
  /\ x.pc \in WithAccount => user # None
  /\ x.pc = "idle" => ~x.late
SlotsInv == \A r \in Requests : SlotOk(accountReq[r])

\* A session knows a code that is gone, and while it is open the password in force.
SessionOk(x) ==
  /\ x.code = 0 \/ CodeGone(x.code)
  /\ user # None /\ (x.live => x.late \/ x.password = user.password)
SessionsInv == /\ \A s \in DOMAIN sessions : SessionOk(sessions[s])
               /\ link.open # 0 => user # None

\* A code that was spent is in one pair of hands.
Spends(r) == accountReq[r].pc \in After /\ accountReq[r].code # 0
OnceInv ==
  /\ \A q, r \in Requests : q # r /\ Spends(q) /\ Spends(r) => accountReq[q].code # accountReq[r].code
  /\ \A r \in Requests, s \in DOMAIN sessions : Spends(r) => sessions[s].code # accountReq[r].code
  /\ Acc!CodeServesOnce

\* The wrong guesses that are counted, and those on their way.
Misses(c) == {r \in Requests : accountReq[r].pc = "miss" /\ accountReq[r].code = c}
GuessInv == \A c \in DOMAIN codes :
  codes[c].attempts + Cardinality(Misses(c)) < MaxAttempts + Cardinality(Requests)

AccountInv == AccountTypeInv /\ SlotsInv /\ SessionsInv /\ OnceInv /\ GuessInv

-----------------------------------------------------------------------------
(* What keeps each part of the invariant *)

\* The account keeps its password, codes stay gone, and no session is forgotten.
AccountFollows ==
  /\ user # None => user' # None /\ user'.password = user.password
  /\ DOMAIN codes \subseteq DOMAIN codes'
  /\ \A c \in DOMAIN codes : ~codes[c].kept => ~codes'[c].kept
  /\ DOMAIN sessions \subseteq DOMAIN sessions'

SessionsFollow ==
  \A s \in DOMAIN sessions' :
    /\ s \in DOMAIN sessions
    /\ sessions'[s].code = sessions[s].code /\ sessions'[s].password = sessions[s].password
    /\ sessions'[s].late = sessions[s].late /\ (sessions'[s].live => sessions[s].live)

LEMMA SlotsKept ==
  ASSUME SlotsInv, AccountFollows,
         \A q \in Requests : accountReq'[q] = accountReq[q] \/ SlotOk(accountReq[q])'
  PROVE  SlotsInv'
  <1>1. ASSUME NEW x, SlotOk(x) PROVE SlotOk(x)'
    <2>1. (x.code \in DOMAIN codes => x.code \in DOMAIN codes') /\ (CodeGone(x.code) => CodeGone(x.code)')
      BY DEF AccountFollows, CodeGone
    <2>2. x.pc \in WithAccount => user' # None /\ user'.password = user.password
      BY <1>1 DEF SlotOk, AccountFollows
    <2>3. x.pc \in Knowing => x.late \/ x.password = user'.password
      BY <1>1, <2>2 DEF SlotOk, Knowing, WithAccount, WithSession
    <2>4. x.pc \in WithSession => x.session \in DOMAIN sessions'
      BY <1>1 DEF SlotOk, AccountFollows
    <2> QED
      BY <1>1, <2>1, <2>2, <2>3, <2>4 DEF SlotOk
  <1> QED
    BY <1>1 DEF SlotsInv

LEMMA SessionsKept ==
  ASSUME SessionsInv, AccountFollows, SessionsFollow, link'.open # 0 => user' # None
  PROVE  SessionsInv'
  <1>1. \A s \in DOMAIN sessions' : SessionOk(sessions[s]) => SessionOk(sessions[s])'
    BY DEF SessionOk, CodeGone, AccountFollows, SessionsFollow
  <1> QED
    BY <1>1 DEF SessionsInv, SessionsFollow

LEMMA OnceKept ==
  ASSUME OnceInv, SessionsFollow,
         \A q \in Requests : Spends(q)' => Spends(q) /\ accountReq'[q].code = accountReq[q].code
  PROVE  OnceInv'
  BY DEF OnceInv, SessionsFollow, Acc!CodeServesOnce

LEMMA MissesAreFinite ==
  ASSUME NEW c
  PROVE  /\ IsFiniteSet(Misses(c)) /\ Cardinality(Misses(c)) \in Nat
         /\ Cardinality(Requests) \in Nat /\ Cardinality(Misses(c)) <= Cardinality(Requests)
  BY TravelAssumption, FS_Subset, FS_CardinalityType DEF Misses

LEMMA RowsOfAccounts ==
  ASSUME AccountTypeInv
  PROVE  /\ \A c \in DOMAIN codes : codes[c] \in CodeRow
         /\ \A s \in DOMAIN sessions : sessions[s] \in SessionRow
         /\ DOMAIN codes \subseteq Nat \ {0} /\ DOMAIN sessions \subseteq Nat \ {0}
  BY LenProperties, ElementOfSeq DEF AccountTypeInv

\* Guesses are only bounded anew for a code that has none.
LEMMA GuessesKept ==
  ASSUME AccountTypeInv, GuessInv, NEW r \in Requests, codes' \in Seq(CodeRow),
         accountReq' \in [Requests -> AccountSlot],
         \A c \in DOMAIN codes' :
           \/ codes'[c].attempts = 0
           \/ c \in DOMAIN codes /\ codes'[c].attempts = codes[c].attempts,
         \A q \in Requests : accountReq'[q] = accountReq[q] \/ accountReq'[q].pc # "miss"
  PROVE  GuessInv'
  <1> SUFFICES ASSUME NEW c \in DOMAIN codes'
               PROVE  codes'[c].attempts + Cardinality(Misses(c)') < MaxAttempts + Cardinality(Requests)
    BY DEF GuessInv
  <1>1. CASE codes'[c].attempts = 0
    <2>1. IsFiniteSet(Misses(c)') /\ Cardinality(Misses(c)') <= Cardinality(Requests)
          /\ Cardinality(Misses(c)') \in Nat /\ Cardinality(Requests) \in Nat
      BY TravelAssumption, FS_Subset, FS_CardinalityType DEF Misses
    <2> QED
      BY <1>1, <2>1, TravelAssumption
  <1>2. CASE c \in DOMAIN codes /\ codes'[c].attempts = codes[c].attempts
    <2>1. Misses(c)' \subseteq Misses(c)
      BY DEF Misses
    <2>2. Cardinality(Misses(c)') <= Cardinality(Misses(c)) /\ Cardinality(Misses(c)') \in Nat
      BY <2>1, MissesAreFinite, FS_Subset, FS_CardinalityType
    <2>3. codes[c].attempts \in Nat
      BY <1>2, RowsOfAccounts DEF CodeRow
    <2>4. /\ codes[c].attempts + Cardinality(Misses(c)) < MaxAttempts + Cardinality(Requests)
          /\ Cardinality(Misses(c)) \in Nat /\ Cardinality(Requests) \in Nat
      BY <1>2, MissesAreFinite DEF GuessInv
    <2>5. MaxAttempts \in Nat
      BY TravelAssumption
    <2> QED
      BY <1>2, <2>2, <2>3, <2>4, <2>5
  <1> QED
    BY <1>1, <1>2

\* A step of a request that leaves the tables alone.
LEMMA RequestOnly ==
  ASSUME AccountInv, NEW r \in Requests, UNCHANGED <<user, codes, sessions, link>>,
         accountReq' \in [Requests -> AccountSlot],
         \A q \in Requests \ {r} : accountReq'[q] = accountReq[q],
         SlotOk(accountReq[r])', accountReq'[r].pc # "miss",
         Spends(r)' => Spends(r) /\ accountReq'[r].code = accountReq[r].code
  PROVE  AccountInv'
  <1>1. AccountFollows
    BY DEF AccountFollows
  <1>2. SessionsFollow
    BY DEF SessionsFollow
  <1>3. \A q \in Requests : accountReq'[q] = accountReq[q] \/ SlotOk(accountReq[q])'
    OBVIOUS
  <1>4. \A q \in Requests : Spends(q)' => Spends(q) /\ accountReq'[q].code = accountReq[q].code
    BY DEF Spends
  <1>5. SlotsInv'
    BY <1>1, <1>3, SlotsKept DEF AccountInv
  <1>6. SessionsInv'
    BY <1>1, <1>2, SessionsKept DEF AccountInv, SessionsInv
  <1>7. OnceInv'
    BY <1>2, <1>4, OnceKept DEF AccountInv
  <1>8. GuessInv'
    BY GuessesKept DEF AccountInv, AccountTypeInv
  <1> QED
    BY <1>5, <1>6, <1>7, <1>8 DEF AccountInv, AccountTypeInv

-----------------------------------------------------------------------------
(* The steps of a request that leave the tables alone *)

\* The slot of r after a step, and the others.
Leaves(r, pc, code, session, password) ==
  /\ accountReq' \in [Requests -> AccountSlot]
  /\ \A q \in Requests \ {r} : accountReq'[q] = accountReq[q]
  /\ accountReq'[r].pc = pc /\ accountReq'[r].code = code /\ accountReq'[r].session = session
  /\ accountReq'[r].password = password
Keeps(r, pc) ==
  /\ Leaves(r, pc, accountReq[r].code, accountReq[r].session, accountReq[r].password)
  /\ accountReq'[r].late = accountReq[r].late

LEMMA AccountMoves ==
  ASSUME AccountTypeInv, SlotsInv, NEW r \in Requests
  PROVE  /\ \A pc \in AccountPc : Acc!GoTo(r, pc) => Keeps(r, pc)
         /\ \A pc \in AccountPc : Acc!Start(r, pc) => Keeps(r, pc) /\ accountReq[r].pc = "idle"
         /\ Acc!End(r) => Leaves(r, "idle", 0, 0, 0) /\ ~accountReq'[r].late
         /\ user # None /\ Acc!Accept(r) =>
              /\ Leaves(r, "issue", accountReq[r].code, accountReq[r].session, user.password)
              /\ accountReq'[r].late = accountReq[r].late
  <1> accountReq[r] \in AccountSlot
    BY DEF AccountTypeInv
  <1>1. ASSUME NEW pc \in AccountPc, Acc!GoTo(r, pc)
        PROVE  Keeps(r, pc)
    <2>1. [accountReq[r] EXCEPT !.pc = pc] \in AccountSlot
      BY DEF AccountSlot
    <2>2. accountReq' = [accountReq EXCEPT ![r] = [accountReq[r] EXCEPT !.pc = pc]]
      BY <1>1 DEF Acc!GoTo
    <2> QED
      BY <2>1, <2>2 DEF AccountTypeInv, AccountSlot, Leaves, Keeps
  <1>2. ASSUME NEW pc \in AccountPc, Acc!Start(r, pc)
        PROVE  Keeps(r, pc) /\ accountReq[r].pc = "idle"
    BY <1>1, <1>2 DEF Acc!Start, Acc!GoTo
  <1>3. ASSUME Acc!End(r)
        PROVE  Leaves(r, "idle", 0, 0, 0) /\ ~accountReq'[r].late
    <2>1. Acc!Idle \in AccountSlot
      BY DEF Acc!Idle, AccountSlot, AccountPc
    <2>2. accountReq' = [accountReq EXCEPT ![r] = Acc!Idle]
      BY <1>3 DEF Acc!End
    <2> QED
      BY <2>1, <2>2 DEF AccountTypeInv, Leaves, Acc!Idle
  <1>4. ASSUME user # None, Acc!Accept(r)
        PROVE  /\ Leaves(r, "issue", accountReq[r].code, accountReq[r].session, user.password)
               /\ accountReq'[r].late = accountReq[r].late
    <2> DEFINE slot == [[accountReq[r] EXCEPT !.pc = "issue"] EXCEPT !.password = user.password]
    <2>1. user.password \in Nat
      BY <1>4 DEF AccountTypeInv, AccountRow
    <2>2. /\ slot \in AccountSlot /\ slot.pc = "issue" /\ slot.code = accountReq[r].code
          /\ slot.session = accountReq[r].session /\ slot.password = user.password
          /\ slot.late = accountReq[r].late
      BY <2>1 DEF AccountSlot, AccountPc, After
    <2>3. accountReq' = [accountReq EXCEPT ![r] = slot]
      BY <1>4 DEF Acc!Accept, AccountTypeInv
    <2> HIDE DEF slot
    <2> QED
      BY <2>2, <2>3 DEF AccountTypeInv, Leaves
  <1> QED
    BY <1>1, <1>2, <1>3, <1>4

LEMMA EndOfRequest ==
  ASSUME AccountInv, NEW r \in Requests, UNCHANGED <<user, codes, sessions, link>>, Acc!End(r)
  PROVE  AccountInv'
  <1>1. Leaves(r, "idle", 0, 0, 0) /\ ~accountReq'[r].late
    BY AccountMoves DEF AccountInv
  <1>2. SlotOk(accountReq[r])'
    BY <1>1 DEF Leaves, SlotOk, Before, After, Knowing, WithSession, WithAccount
  <1> QED
    BY <1>1, <1>2, RequestOnly DEF Leaves, Spends, After

\* A request that starts without a code or a password.
LEMMA StartOfRequest ==
  ASSUME AccountInv, NEW r \in Requests, UNCHANGED <<user, codes, sessions, link>>,
         NEW pc \in {"replace", "link", "reset", "register", "guide"}, Acc!Start(r, pc),
         pc \in {"link", "reset"} => user # None
  PROVE  AccountInv'
  <1>1. Keeps(r, pc) /\ accountReq[r].pc = "idle"
    BY AccountMoves DEF AccountInv, AccountPc, WithAccount
  <1>2. accountReq[r].code = 0 /\ accountReq[r].password = 0
    BY <1>1 DEF AccountInv, SlotsInv, SlotOk, Before, After, Knowing
  <1>3. SlotOk(accountReq[r])'
    BY <1>1, <1>2 DEF Keeps, Leaves, SlotOk, Before, After, Knowing, WithSession, WithAccount
  <1> QED
    BY <1>1, <1>2, <1>3, RequestOnly DEF Keeps, Leaves, Spends, After

\* verifyOtp compares with a code that exists.
LEMMA LatestIsACode ==
  ASSUME AccountTypeInv, Acc!Latest # 0
  PROVE  Acc!Latest \in DOMAIN codes /\ codes[Acc!Latest].kept
  <1> DEFINE S == {0} \union {c \in DOMAIN codes : codes[c].kept}
  <1>1. Len(codes) \in Nat /\ S \subseteq 0..Len(codes) /\ S # {}
    BY LenProperties DEF AccountTypeInv
  <1>2. \E x \in S : \A y \in S : x >= y
    BY <1>1, GreatestNatural
  <1>3. Acc!Latest \in S
    BY <1>2 DEF Acc!Latest, Acc!Max
  <1> QED
    BY <1>3

LEMMA FoundSession ==
  ASSUME AccountInv, NEW r \in Requests, NEW s \in DOMAIN sessions, Acc!Refresh(r, s) \/ Acc!Logout(r, s)
  PROVE  AccountInv'
  <1>1. PICK pc \in {"renew", "logout"} : Acc!FindSession(r, s, pc)
    BY DEF Acc!Refresh, Acc!Logout
  <1> DEFINE slot == [[accountReq[r] EXCEPT !.pc = pc] EXCEPT !.session = s]
  <1>2. /\ UNCHANGED <<user, codes, sessions, link>>
        /\ accountReq[r].pc = "idle" /\ accountReq' = [accountReq EXCEPT ![r] = slot]
    BY <1>1 DEF Acc!FindSession, Acc!At, AccountInv, AccountTypeInv
  <1>3. s \in Nat /\ user # None /\ accountReq[r] \in AccountSlot
    BY RowsOfAccounts DEF AccountInv, AccountTypeInv, SessionsInv, SessionOk
  <1>4. /\ slot \in AccountSlot /\ slot.pc = pc /\ slot.code = accountReq[r].code
        /\ slot.session = s /\ slot.password = accountReq[r].password
    BY <1>3 DEF AccountSlot, AccountPc, WithAccount, WithSession
  <1> HIDE DEF slot
  <1>5. Leaves(r, pc, accountReq[r].code, s, accountReq[r].password)
    BY <1>2, <1>4 DEF AccountInv, AccountTypeInv, Leaves
  <1>6. accountReq[r].code = 0 /\ accountReq[r].password = 0
    BY <1>2 DEF AccountInv, SlotsInv, SlotOk, Before, After, Knowing
  <1>7. SlotOk(accountReq[r])'
    BY <1>2, <1>3, <1>5, <1>6 DEF Leaves, SlotOk, Before, After, Knowing, WithSession, WithAccount
  <1> QED
    BY <1>2, <1>5, <1>6, <1>7, RequestOnly DEF Leaves, Spends, After

\* A wrong guess is on its way: there are never more of them than requests.
LEMMA ReadOfCode ==
  ASSUME AccountInv, NEW r \in Requests, NEW right \in BOOLEAN, Acc!VerifyRead(r, right)
  PROVE  AccountInv'
  <1> DEFINE pc == IF right THEN "spend" ELSE "miss"
             slot == [[accountReq[r] EXCEPT !.pc = pc] EXCEPT !.code = Acc!Latest]
  <1>1. /\ UNCHANGED <<user, codes, sessions, link>> /\ accountReq[r].pc = "idle"
        /\ Acc!Latest # 0 /\ codes[Acc!Latest].attempts < MaxAttempts
        /\ accountReq' = [accountReq EXCEPT ![r] = slot]
    BY DEF Acc!VerifyRead, Acc!At, AccountInv, AccountTypeInv
  <1>2. /\ accountReq[r] \in AccountSlot
        /\ Acc!Latest \in DOMAIN codes /\ Acc!Latest \in Nat /\ pc \in Before
        /\ accountReq[r].password = 0 /\ ~accountReq[r].late
    BY <1>1, LatestIsACode, RowsOfAccounts
    DEF AccountInv, AccountTypeInv, SlotsInv, SlotOk, Before, Knowing
  <1>3. /\ slot \in AccountSlot /\ slot.pc = pc /\ slot.code = Acc!Latest
        /\ slot.password = 0 /\ slot.session = accountReq[r].session
    BY <1>2 DEF AccountSlot, AccountPc, Before
  <1> HIDE DEF slot
  <1>4. Leaves(r, pc, Acc!Latest, accountReq[r].session, 0)
    BY <1>1, <1>3 DEF AccountInv, AccountTypeInv, Leaves
  <1>5. SlotOk(accountReq[r])'
    BY <1>1, <1>2, <1>4 DEF Leaves, SlotOk, Before, After, Knowing, WithSession, WithAccount
  <1>6. AccountFollows /\ SessionsFollow
    BY <1>1 DEF AccountFollows, SessionsFollow
  <1>7. SlotsInv'
    BY <1>4, <1>5, <1>6, SlotsKept DEF AccountInv, Leaves
  <1>8. SessionsInv'
    BY <1>1, <1>6, SessionsKept DEF AccountInv, SessionsInv
  <1>9. OnceInv'
    <2>1. \A q \in Requests : Spends(q)' => Spends(q) /\ accountReq'[q].code = accountReq[q].code
      BY <1>2, <1>4 DEF Leaves, Spends, Before, After
    <2> QED
      BY <1>6, <2>1, OnceKept DEF AccountInv
  <1>10. GuessInv'
    <2> SUFFICES ASSUME NEW c \in DOMAIN codes
                 PROVE  codes[c].attempts + Cardinality(Misses(c)') < MaxAttempts + Cardinality(Requests)
      BY <1>1 DEF GuessInv
    <2>1. /\ IsFiniteSet(Misses(c)') /\ Cardinality(Misses(c)') <= Cardinality(Requests)
          /\ Cardinality(Misses(c)') \in Nat /\ Cardinality(Requests) \in Nat
      BY TravelAssumption, FS_Subset, FS_CardinalityType DEF Misses
    <2>2. codes[c].attempts \in Nat /\ MaxAttempts \in Nat
      BY TravelAssumption, RowsOfAccounts DEF AccountInv, CodeRow
    <2>3. CASE c = Acc!Latest
      BY <1>1, <2>1, <2>2, <2>3
    <2>4. CASE c # Acc!Latest
      <3>1. Misses(c)' \subseteq Misses(c)
        BY <1>4, <2>4 DEF Misses, Leaves
      <3>2. /\ Cardinality(Misses(c)') <= Cardinality(Misses(c)) /\ Cardinality(Misses(c)) \in Nat
            /\ codes[c].attempts + Cardinality(Misses(c)) < MaxAttempts + Cardinality(Requests)
        BY <3>1, MissesAreFinite, FS_Subset DEF AccountInv, GuessInv
      <3> QED
        BY <2>1, <2>2, <3>2
    <2> QED
      BY <2>3, <2>4
  <1> QED
    BY <1>1, <1>4, <1>7, <1>8, <1>9, <1>10 DEF AccountInv, AccountTypeInv, Leaves

\* The user found, or none, for a code that is spent; the user of a session.
LEMMA UserOfRequest ==
  ASSUME AccountInv, NEW r \in Requests, Acc!FindUser(r) \/ Acc!Login(r) \/ Acc!RefreshUser(r)
  PROVE  AccountInv'
  <1>1. UNCHANGED <<user, codes, sessions, link>>
    BY DEF Acc!FindUser, Acc!Login, Acc!RefreshUser
  <1>2. CASE Acc!End(r)
    BY <1>1, <1>2, EndOfRequest
  <1>3. ASSUME user # None, accountReq[r].pc \in {"find", "idle"}, Acc!Accept(r)
        PROVE  AccountInv'
    <2>1. /\ Leaves(r, "issue", accountReq[r].code, accountReq[r].session, user.password)
          /\ accountReq'[r].late = accountReq[r].late
      BY <1>3, AccountMoves DEF AccountInv
    <2>2. accountReq[r].code = 0 \/ (accountReq[r].pc = "find" /\ CodeGone(accountReq[r].code))
      BY <1>3 DEF AccountInv, SlotsInv, SlotOk, Before, After
    <2>3. SlotOk(accountReq[r])'
      BY <1>1, <1>3, <2>1, <2>2
      DEF Leaves, SlotOk, CodeGone, Before, After, Knowing, WithSession, WithAccount
    <2>4. Spends(r)' => Spends(r) /\ accountReq'[r].code = accountReq[r].code
      BY <2>1, <2>2 DEF Leaves, Spends, After
    <2> QED
      BY <1>1, <2>1, <2>3, <2>4, RequestOnly DEF Leaves
  <1>4. ASSUME Acc!At(r, "find"), Acc!GoTo(r, "signup")
        PROVE  AccountInv'
    <2>1. Keeps(r, "signup")
      BY <1>4, AccountMoves DEF AccountInv, AccountPc, After
    <2>2. SlotOk(accountReq[r])
      BY DEF AccountInv, SlotsInv
    <2>3. SlotOk(accountReq[r])'
      BY <1>1, <1>4, <2>1, <2>2
      DEF Keeps, Leaves, SlotOk, CodeGone, Before, After, Knowing, WithSession, WithAccount, Acc!At
    <2>4. Spends(r)' => Spends(r) /\ accountReq'[r].code = accountReq[r].code
      BY <1>4, <2>1 DEF Keeps, Leaves, Spends, After, Acc!At
    <2> QED
      BY <1>1, <2>1, <2>3, <2>4, RequestOnly DEF Keeps, Leaves
  <1>5. ASSUME Acc!At(r, "renew"),
               accountReq' = [accountReq EXCEPT ![r].pc = "rotate", ![r].password = user.password]
        PROVE  AccountInv'
    <2> DEFINE slot == [[accountReq[r] EXCEPT !.pc = "rotate"] EXCEPT !.password = user.password]
    <2>1. SlotOk(accountReq[r]) /\ accountReq[r].pc = "renew" /\ user # None
      BY <1>5 DEF AccountInv, SlotsInv, SlotOk, WithAccount, WithSession, Acc!At
    <2>2. user.password \in Nat /\ accountReq[r] \in AccountSlot
      BY <2>1 DEF AccountInv, AccountTypeInv, AccountRow
    <2>3. /\ slot \in AccountSlot /\ slot.pc = "rotate" /\ slot.code = accountReq[r].code
          /\ slot.session = accountReq[r].session /\ slot.password = user.password
      BY <2>2 DEF AccountSlot, AccountPc, WithAccount, WithSession
    <2>4. accountReq' = [accountReq EXCEPT ![r] = slot]
      BY <1>5 DEF AccountInv, AccountTypeInv
    <2> HIDE DEF slot
    <2>5. Leaves(r, "rotate", accountReq[r].code, accountReq[r].session, user.password)
      BY <2>3, <2>4 DEF AccountInv, AccountTypeInv, Leaves
    <2>6. SlotOk(accountReq[r])'
      BY <1>1, <2>1, <2>5 DEF Leaves, SlotOk, Before, After, Knowing, WithSession, WithAccount
    <2> QED
      BY <1>1, <2>5, <2>6, RequestOnly DEF Leaves, Spends, After
  <1>6. CASE Acc!FindUser(r)
    BY <1>2, <1>3, <1>4, <1>6 DEF Acc!FindUser, Acc!Exists, Acc!At
  <1>7. CASE Acc!Login(r)
    BY <1>3, <1>7 DEF Acc!Login, Acc!Exists, Acc!At
  <1>8. CASE Acc!RefreshUser(r)
    BY <1>2, <1>5, <1>8 DEF Acc!RefreshUser
  <1> QED
    BY <1>6, <1>7, <1>8

-----------------------------------------------------------------------------
(* The steps that change the account *)

\* An account is made only where there is none, so that no request and no session
\* knows a password yet.
LEMMA AccountIsMade ==
  ASSUME AccountInv, NEW r \in Requests,
         Acc!SignUp(r) \/ Acc!RegisterOwner(r) \/ Acc!CreateGuide(r)
  PROVE  AccountInv'
  <1>1. UNCHANGED <<codes, sessions, link>>
    BY DEF Acc!SignUp, Acc!RegisterOwner, Acc!CreateGuide
  <1>2. CASE UNCHANGED user /\ Acc!End(r)
    BY <1>1, <1>2, EndOfRequest
  <1>3. ASSUME user = None, user' \in AccountRow,
               accountReq' \in [Requests -> AccountSlot],
               \A q \in Requests \ {r} : accountReq'[q] = accountReq[q],
               SlotOk(accountReq[r])', accountReq'[r].pc # "miss",
               Spends(r)' => Spends(r) /\ accountReq'[r].code = accountReq[r].code
        PROVE  AccountInv'
    <2>1. AccountFollows /\ SessionsFollow /\ user' # None
      BY <1>1, <1>3, TravelAssumption DEF AccountFollows, SessionsFollow, AccountRow
    <2>2. SlotsInv'
      BY <1>3, <2>1, SlotsKept DEF AccountInv
    <2>3. SessionsInv'
      BY <1>1, <2>1, SessionsKept DEF AccountInv
    <2>4. \A q \in Requests : Spends(q)' => Spends(q) /\ accountReq'[q].code = accountReq[q].code
      BY <1>3 DEF Spends
    <2>5. OnceInv'
      BY <2>1, <2>4, OnceKept DEF AccountInv
    <2>6. GuessInv'
      BY <1>1, <1>3, GuessesKept DEF AccountInv, AccountTypeInv
    <2> QED
      BY <1>1, <1>3, <2>2, <2>3, <2>5, <2>6 DEF AccountInv, AccountTypeInv
  <1>4. ASSUME NEW role \in {"pilgrim", "agency", "guide"}, NEW password \in {0, 1},
               user' = Acc!Account(role, password)
        PROVE  user' \in AccountRow /\ user'.password = password /\ user' # None
    <2>1. user' = [role |-> role, active |-> TRUE, password |-> password]
      BY <1>4 DEF Acc!Account
    <2>2. user' \in AccountRow
      BY <2>1 DEF AccountRow, Acc!OtpRoles, Acc!ResetRoles
    <2>3. user' # None
      BY <2>2, TravelAssumption DEF AccountRow
    <2> QED
      BY <2>1, <2>2, <2>3
  <1>5. SlotOk(accountReq[r])
    BY DEF AccountInv, SlotsInv
  <1>6. CASE Acc!SignUp(r) /\ user = None
    <2>1. Acc!At(r, "signup") /\ user' = Acc!Account("pilgrim", 0) /\ Keeps(r, "issue")
      BY <1>6, AccountMoves DEF Acc!SignUp, Acc!Exists, AccountInv, AccountPc, After
    <2>2. user' \in AccountRow /\ user'.password = 0 /\ user' # None
      BY <1>4, <2>1
    <2>3. SlotOk(accountReq[r])'
      BY <1>1, <1>5, <2>1, <2>2
      DEF Keeps, Leaves, SlotOk, CodeGone, Before, After, Knowing, WithSession, WithAccount, Acc!At
    <2> QED
      BY <1>3, <1>6, <2>1, <2>2, <2>3 DEF Keeps, Leaves, Spends, After, Acc!At
  <1>7. CASE Acc!RegisterOwner(r) /\ user = None
    <2>1. Acc!At(r, "register") /\ user' = Acc!Account("agency", 1) /\ Keeps(r, "agency")
      BY <1>7, AccountMoves DEF Acc!RegisterOwner, Acc!Exists, AccountInv, AccountPc
    <2>2. user' \in AccountRow /\ user' # None
      BY <1>4, <2>1
    <2>3. SlotOk(accountReq[r])'
      BY <1>1, <1>5, <2>1, <2>2
      DEF Keeps, Leaves, SlotOk, CodeGone, Before, After, Knowing, WithSession, WithAccount, Acc!At
    <2> QED
      BY <1>3, <1>7, <2>1, <2>2, <2>3 DEF Keeps, Leaves, Spends, After, Acc!At
  <1>8. CASE Acc!CreateGuide(r) /\ user = None
    <2>1. user' = Acc!Account("guide", 0) /\ Leaves(r, "idle", 0, 0, 0) /\ ~accountReq'[r].late
      BY <1>8, AccountMoves DEF Acc!CreateGuide, Acc!Exists, AccountInv
    <2>2. user' \in AccountRow /\ user' # None
      BY <1>4, <2>1
    <2>3. SlotOk(accountReq[r])'
      BY <2>1 DEF Leaves, SlotOk, Before, After, Knowing, WithSession, WithAccount
    <2> QED
      BY <1>3, <1>8, <2>1, <2>2, <2>3 DEF Leaves, Spends, After
  <1>9. CASE user # None
    BY <1>2, <1>9 DEF Acc!SignUp, Acc!RegisterOwner, Acc!CreateGuide, Acc!Exists
  <1> QED
    BY <1>6, <1>7, <1>8, <1>9

\* A new password closes every session, and marks the requests on their way.
LEMMA PasswordChanges ==
  ASSUME AccountInv, NEW r \in Requests, Acc!ResetPassword(r)
  PROVE  AccountInv'
  <1>1. /\ Acc!At(r, "reset") /\ codes' = codes
        /\ user' = [user EXCEPT !.password = @ + 1]
        /\ link' = [link EXCEPT !.open = 0]
        /\ accountReq' = [q \in Requests |-> IF q = r \/ accountReq[q].pc = "idle" THEN Acc!Idle
                                             ELSE [accountReq[q] EXCEPT !.late = TRUE]]
        /\ sessions' = [s \in DOMAIN sessions |-> [sessions[s] EXCEPT !.live = FALSE]]
    BY DEF Acc!ResetPassword, Acc!NewPassword, Acc!At
  <1>2. user \in AccountRow
    BY <1>1 DEF AccountInv, AccountTypeInv, SlotsInv, SlotOk, WithAccount, Acc!At
  <1>3. user' \in AccountRow /\ user' # None
    BY <1>1, <1>2, TravelAssumption DEF AccountRow
  <1>4. /\ sessions' \in Seq(SessionRow) /\ DOMAIN sessions' = DOMAIN sessions
        /\ \A s \in DOMAIN sessions : ~sessions'[s].live /\ sessions'[s].code = sessions[s].code
    <2>1. /\ \A s \in DOMAIN sessions : sessions[s] \in SessionRow
          /\ Len(sessions) \in Nat /\ DOMAIN sessions = 1..Len(sessions)
      BY RowsOfAccounts, LenProperties DEF AccountInv, AccountTypeInv
    <2>2. \A s \in DOMAIN sessions : /\ [sessions[s] EXCEPT !.live = FALSE] \in SessionRow
                                     /\ ~[sessions[s] EXCEPT !.live = FALSE].live
                                     /\ [sessions[s] EXCEPT !.live = FALSE].code = sessions[s].code
      BY <2>1 DEF SessionRow
    <2>3. sessions' \in [1..Len(sessions) -> SessionRow]
      BY <1>1, <2>1, <2>2
    <2>4. sessions' \in Seq(SessionRow)
      BY <2>1, <2>3, SeqDef
    <2> QED
      BY <1>1, <2>2, <2>4
  <1>5. ASSUME NEW q \in Requests
        PROVE  /\ accountReq'[q] \in AccountSlot /\ SlotOk(accountReq[q])'
               /\ \/ accountReq'[q].pc = "idle" /\ accountReq'[q].code = 0
                  \/ /\ accountReq'[q].pc = accountReq[q].pc
                     /\ accountReq'[q].code = accountReq[q].code
    <2>1. CASE q = r \/ accountReq[q].pc = "idle"
      <3>1. accountReq'[q] = Acc!Idle
        BY <1>1, <2>1
      <3> QED
        BY <3>1 DEF Acc!Idle, AccountSlot, AccountPc, SlotOk, Before, After, Knowing, WithSession,
                    WithAccount
    <2>2. CASE ~(q = r \/ accountReq[q].pc = "idle")
      <3>1. accountReq'[q] = [accountReq[q] EXCEPT !.late = TRUE]
        BY <1>1, <2>2
      <3>2. accountReq[q] \in AccountSlot /\ SlotOk(accountReq[q])
        BY DEF AccountInv, AccountTypeInv, SlotsInv
      <3>3. /\ accountReq'[q] \in AccountSlot /\ accountReq'[q].late
            /\ accountReq'[q].pc = accountReq[q].pc /\ accountReq'[q].code = accountReq[q].code
            /\ accountReq'[q].session = accountReq[q].session
            /\ accountReq'[q].password = accountReq[q].password
        BY <3>1, <3>2 DEF AccountSlot
      <3>4. SlotOk(accountReq[q])'
        BY <1>1, <1>3, <1>4, <2>2, <3>2, <3>3 DEF SlotOk, CodeGone
      <3> QED
        BY <3>3, <3>4
    <2> QED
      BY <2>1, <2>2
  <1>6. accountReq' \in [Requests -> AccountSlot]
    BY <1>1, <1>5
  <1>7. SlotsInv'
    BY <1>5 DEF SlotsInv
  <1>8. SessionsInv'
    BY <1>1, <1>3, <1>4 DEF AccountInv, SessionsInv, SessionOk, CodeGone
  <1>9. OnceInv'
    <2>1. \A q \in Requests : Spends(q)' => Spends(q) /\ accountReq'[q].code = accountReq[q].code
      BY <1>5 DEF Spends, After
    <2> QED
      BY <1>4, <2>1 DEF AccountInv, OnceInv, Acc!CodeServesOnce
  <1>10. GuessInv'
    <2> SUFFICES ASSUME NEW c \in DOMAIN codes
                 PROVE  codes[c].attempts + Cardinality(Misses(c)') < MaxAttempts + Cardinality(Requests)
      BY <1>1 DEF GuessInv
    <2>1. Misses(c)' \subseteq Misses(c)
      BY <1>5 DEF Misses
    <2>2. /\ Cardinality(Misses(c)') <= Cardinality(Misses(c)) /\ Cardinality(Misses(c)) \in Nat
          /\ Cardinality(Misses(c)') \in Nat /\ Cardinality(Requests) \in Nat
          /\ codes[c].attempts + Cardinality(Misses(c)) < MaxAttempts + Cardinality(Requests)
      BY <2>1, MissesAreFinite, FS_Subset, FS_CardinalityType DEF AccountInv, GuessInv
    <2>3. codes[c].attempts \in Nat /\ MaxAttempts \in Nat
      BY TravelAssumption, RowsOfAccounts DEF AccountInv, CodeRow
    <2> QED
      BY <2>2, <2>3
  <1> QED
    BY <1>1, <1>3, <1>4, <1>6, <1>7, <1>8, <1>9, <1>10 DEF AccountInv, AccountTypeInv

-----------------------------------------------------------------------------
(* The steps that change the codes *)

LEMMA CodesChange ==
  ASSUME AccountInv, UNCHANGED <<user, sessions, link>>, codes' \in Seq(CodeRow),
         DOMAIN codes \subseteq DOMAIN codes',
         \A c \in DOMAIN codes : ~codes[c].kept => ~codes'[c].kept,
         accountReq' \in [Requests -> AccountSlot],
         \A q \in Requests : accountReq'[q] = accountReq[q] \/ SlotOk(accountReq[q])'
  PROVE  AccountTypeInv' /\ SlotsInv' /\ SessionsInv' /\ SessionsFollow
  <1>1. AccountFollows /\ SessionsFollow
    BY DEF AccountFollows, SessionsFollow
  <1>2. SlotsInv'
    BY <1>1, SlotsKept DEF AccountInv
  <1>3. SessionsInv'
    BY <1>1, SessionsKept DEF AccountInv, SessionsInv
  <1> QED
    BY <1>1, <1>2, <1>3 DEF AccountInv, AccountTypeInv

\* Changing one row.
LEMMA OneCodeChanges ==
  ASSUME AccountTypeInv, NEW c \in DOMAIN codes, NEW line \in CodeRow,
         codes' = [codes EXCEPT ![c] = line]
  PROVE  /\ codes' \in Seq(CodeRow) /\ DOMAIN codes' = DOMAIN codes
         /\ codes'[c] = line /\ \A d \in DOMAIN codes \ {c} : codes'[d] = codes[d]
  <1>1. DOMAIN codes = 1..Len(codes) /\ codes \in [1..Len(codes) -> CodeRow]
    BY LenProperties DEF AccountTypeInv
  <1>2. codes' \in Seq(CodeRow)
    BY <1>1, ExceptSeq DEF AccountTypeInv
  <1> QED
    BY <1>1, <1>2

LEMMA GoneIsACodeRow ==
  Acc!Gone \in CodeRow /\ ~Acc!Gone.kept /\ Acc!Gone.attempts = 0
  BY DEF Acc!Gone, Acc!NewCode, CodeRow

LEMMA CodesReplaced ==
  ASSUME AccountInv, NEW r \in Requests, Acc!DeleteCodes(r) \/ Acc!CreateCode(r)
  PROVE  AccountInv'
  <1>1. /\ UNCHANGED <<user, sessions, link>>
        /\ accountReq[r].pc \in {"replace", "create"}
        /\ Keeps(r, "create") \/ (Leaves(r, "idle", 0, 0, 0) /\ ~accountReq'[r].late)
    BY AccountMoves DEF Acc!DeleteCodes, Acc!CreateCode, Acc!At, AccountInv, AccountPc
  <1>2. accountReq[r].code = 0 /\ accountReq[r].password = 0
    BY <1>1 DEF AccountInv, SlotsInv, SlotOk, Before, After, Knowing
  <1>3. SlotOk(accountReq[r])'
    BY <1>1, <1>2 DEF Keeps, Leaves, SlotOk, Before, After, Knowing, WithSession, WithAccount
  <1>4. /\ accountReq' \in [Requests -> AccountSlot]
        /\ \A q \in Requests : accountReq'[q] = accountReq[q] \/ SlotOk(accountReq[q])'
        /\ \A q \in Requests : accountReq'[q] = accountReq[q] \/ accountReq'[q].pc \notin {"miss"} \union After
    BY <1>1, <1>3 DEF Keeps, Leaves, After
  <1>5. /\ codes' \in Seq(CodeRow) /\ DOMAIN codes \subseteq DOMAIN codes'
        /\ \A c \in DOMAIN codes' :
             \/ codes'[c].attempts = 0 /\ (c \in DOMAIN codes => ~codes'[c].kept)
             \/ c \in DOMAIN codes /\ codes'[c] = codes[c]
    <2>1. CASE Acc!DeleteCodes(r)
      <3>1. codes' = [c \in DOMAIN codes |-> Acc!Gone]
        BY <2>1 DEF Acc!DeleteCodes
      <3>2. Len(codes) \in Nat /\ DOMAIN codes = 1..Len(codes)
        BY LenProperties DEF AccountInv, AccountTypeInv
      <3>3. codes' \in [1..Len(codes) -> CodeRow]
        BY <3>1, <3>2, GoneIsACodeRow
      <3>4. codes' \in Seq(CodeRow)
        BY <3>2, <3>3, SeqDef
      <3> QED
        BY <3>1, <3>4, GoneIsACodeRow
    <2>2. CASE Acc!CreateCode(r)
      <3>1. codes' = Append(codes, Acc!NewCode)
        BY <2>2 DEF Acc!CreateCode
      <3>2. Acc!NewCode \in CodeRow /\ Acc!NewCode.attempts = 0
        BY DEF Acc!NewCode, CodeRow
      <3>3. /\ codes \in Seq(CodeRow) /\ Len(codes) \in Nat /\ DOMAIN codes = 1..Len(codes)
        BY LenProperties DEF AccountInv, AccountTypeInv
      <3>4. /\ codes' \in Seq(CodeRow) /\ DOMAIN codes' = 1..(Len(codes) + 1)
            /\ codes'[Len(codes) + 1] = Acc!NewCode
            /\ \A c \in 1..Len(codes) : codes'[c] = codes[c]
        BY <3>1, <3>2, <3>3
      <3> QED
        BY <3>2, <3>3, <3>4
    <2> QED
      BY <2>1, <2>2
  <1>6. AccountTypeInv' /\ SlotsInv' /\ SessionsInv' /\ SessionsFollow
    BY <1>1, <1>4, <1>5, CodesChange
  <1>7. OnceInv'
    BY <1>4, <1>6, OnceKept DEF AccountInv, Spends
  <1>8. GuessInv'
    BY <1>4, <1>5, GuessesKept DEF AccountInv
  <1> QED
    BY <1>6, <1>7, <1>8 DEF AccountInv

\* Only a code that is still there goes on to open a session, and it is gone then.
LEMMA CodeIsSpent ==
  ASSUME AccountInv, NEW r \in Requests, NEW c, c = accountReq[r].code, Acc!SpendCode(r)
  PROVE  AccountInv'
  <1>1. /\ UNCHANGED <<user, sessions, link>> /\ accountReq[r].pc = "spend"
        /\ codes' = [codes EXCEPT ![c] = Acc!Gone]
        /\ \/ codes[c].kept /\ Keeps(r, "find")
           \/ Leaves(r, "idle", 0, 0, 0) /\ ~accountReq'[r].late
    BY AccountMoves DEF Acc!SpendCode, Acc!At, AccountInv, AccountPc, After
  <1>2. c \in DOMAIN codes /\ accountReq[r].password = 0 /\ SlotOk(accountReq[r])
    BY <1>1 DEF AccountInv, SlotsInv, SlotOk, Before, Knowing
  <1>3. /\ codes' \in Seq(CodeRow) /\ DOMAIN codes' = DOMAIN codes
        /\ codes'[c] = Acc!Gone /\ \A d \in DOMAIN codes \ {c} : codes'[d] = codes[d]
    BY <1>1, <1>2, OneCodeChanges, GoneIsACodeRow DEF AccountInv
  <1>4. \A d \in DOMAIN codes : ~codes[d].kept => ~codes'[d].kept
    BY <1>3, GoneIsACodeRow
  <1>5. SlotOk(accountReq[r])'
    <2>1. CodeGone(c)'
      BY <1>2, <1>3, GoneIsACodeRow DEF CodeGone
    <2> QED
      BY <1>1, <1>2, <2>1 DEF Keeps, Leaves, SlotOk, Before, After, Knowing, WithSession, WithAccount
  <1>6. /\ accountReq' \in [Requests -> AccountSlot]
        /\ \A q \in Requests \ {r} : accountReq'[q] = accountReq[q]
        /\ accountReq'[r].pc # "miss"
    BY <1>1 DEF Keeps, Leaves
  <1>7. AccountTypeInv' /\ SlotsInv' /\ SessionsInv' /\ SessionsFollow
    BY <1>1, <1>3, <1>4, <1>5, <1>6, CodesChange
  <1>8. GuessInv'
    BY <1>3, <1>6, GoneIsACodeRow, GuessesKept DEF AccountInv
  <1>9. OnceInv'
    <2>1. CASE codes[c].kept /\ Keeps(r, "find")
      <3>1. accountReq'[r].code = c
        BY <2>1 DEF Keeps, Leaves
      <3>2. \A q \in Requests \ {r} : (Spends(q)' <=> Spends(q)) /\ (Spends(q) => accountReq[q].code # c)
        BY <1>6, <2>1 DEF Spends, AccountInv, SlotsInv, SlotOk, CodeGone
      <3>3. \A s \in DOMAIN sessions : sessions[s].code # c
        <4>1. c # 0
          BY <1>2, RowsOfAccounts DEF AccountInv
        <4> QED
          BY <2>1, <4>1 DEF AccountInv, SessionsInv, SessionOk, CodeGone
      <3> QED
        BY <1>1, <1>6, <3>1, <3>2, <3>3 DEF AccountInv, OnceInv, Acc!CodeServesOnce
    <2>2. CASE Leaves(r, "idle", 0, 0, 0)
      <3>1. \A q \in Requests : Spends(q)' => Spends(q) /\ accountReq'[q].code = accountReq[q].code
        BY <2>2 DEF Leaves, Spends, After
      <3> QED
        BY <1>7, <3>1, OnceKept DEF AccountInv
    <2> QED
      BY <1>1, <2>1, <2>2
  <1> QED
    BY <1>7, <1>8, <1>9 DEF AccountInv

\* A guess that is counted is no longer on its way.
LEMMA MissIsCounted ==
  ASSUME AccountInv, NEW r \in Requests, NEW c, c = accountReq[r].code, Acc!CountMiss(r)
  PROVE  AccountInv'
  <1> DEFINE line == [codes[c] EXCEPT !.attempts = codes[c].attempts + 1]
  <1>1. /\ UNCHANGED <<user, sessions, link>> /\ accountReq[r].pc = "miss"
        /\ codes' = IF codes[c].kept THEN [codes EXCEPT ![c] = line] ELSE codes
        /\ Leaves(r, "idle", 0, 0, 0) /\ ~accountReq'[r].late
    BY AccountMoves DEF Acc!CountMiss, Acc!At, AccountInv
  <1>2. c \in DOMAIN codes /\ codes[c] \in CodeRow
    BY <1>1, RowsOfAccounts DEF AccountInv, SlotsInv, SlotOk, Before
  <1>3. /\ line \in CodeRow /\ line.attempts = codes[c].attempts + 1
        /\ line.kept = codes[c].kept /\ codes[c].attempts \in Nat
    BY <1>2 DEF CodeRow
  <1> HIDE DEF line
  <1>4. /\ codes' \in Seq(CodeRow) /\ DOMAIN codes' = DOMAIN codes
        /\ codes'[c] \in {line, codes[c]} /\ \A d \in DOMAIN codes \ {c} : codes'[d] = codes[d]
    <2>1. CASE codes[c].kept
      BY <1>1, <1>2, <1>3, <2>1, OneCodeChanges DEF AccountInv
    <2>2. CASE ~codes[c].kept
      BY <1>1, <2>2 DEF AccountInv, AccountTypeInv
    <2> QED
      BY <2>1, <2>2
  <1>5. \A d \in DOMAIN codes : ~codes[d].kept => ~codes'[d].kept
    BY <1>3, <1>4
  <1>6. SlotOk(accountReq[r])'
    BY <1>1 DEF Leaves, SlotOk, Before, After, Knowing, WithSession, WithAccount
  <1>7. AccountTypeInv' /\ SlotsInv' /\ SessionsInv' /\ SessionsFollow
    BY <1>1, <1>4, <1>5, <1>6, CodesChange DEF Leaves
  <1>8. OnceInv'
    <2>1. \A q \in Requests : Spends(q)' => Spends(q) /\ accountReq'[q].code = accountReq[q].code
      BY <1>1 DEF Leaves, Spends, After
    <2> QED
      BY <1>7, <2>1, OnceKept DEF AccountInv
  <1>9. GuessInv'
    <2> SUFFICES ASSUME NEW d \in DOMAIN codes
                 PROVE  codes'[d].attempts + Cardinality(Misses(d)') < MaxAttempts + Cardinality(Requests)
      BY <1>4 DEF GuessInv
    <2>1. /\ Cardinality(Misses(d)) \in Nat /\ IsFiniteSet(Misses(d)) /\ Cardinality(Requests) \in Nat
          /\ codes[d].attempts + Cardinality(Misses(d)) < MaxAttempts + Cardinality(Requests)
          /\ codes[d].attempts \in Nat /\ MaxAttempts \in Nat
      BY TravelAssumption, MissesAreFinite, RowsOfAccounts DEF AccountInv, GuessInv, CodeRow
    <2>2. Misses(d)' \subseteq Misses(d)
      BY <1>1 DEF Leaves, Misses
    <2>3. CASE d # c
      <3>1. Cardinality(Misses(d)') <= Cardinality(Misses(d)) /\ Cardinality(Misses(d)') \in Nat
        BY <2>1, <2>2, FS_Subset, FS_CardinalityType
      <3> QED
        BY <1>4, <2>1, <2>3, <3>1
    <2>4. CASE d = c
      <3>1. r \in Misses(c) /\ Misses(c)' \subseteq Misses(c) \ {r}
        BY <1>1, <2>2, <2>4 DEF Leaves, Misses
      <3>2. /\ IsFiniteSet(Misses(c) \ {r})
            /\ Cardinality(Misses(c) \ {r}) = Cardinality(Misses(c)) - 1
        BY <2>1, <2>4, <3>1, FS_RemoveElement
      <3>3. Cardinality(Misses(c)') <= Cardinality(Misses(c)) - 1 /\ Cardinality(Misses(c)') \in Nat
        BY <3>1, <3>2, FS_Subset, FS_CardinalityType
      <3>4. codes'[c].attempts \in {codes[c].attempts, codes[c].attempts + 1}
        BY <1>3, <1>4
      <3> QED
        BY <2>1, <2>4, <3>3, <3>4
    <2> QED
      BY <2>3, <2>4
  <1> QED
    BY <1>7, <1>8, <1>9 DEF AccountInv

LEMMA CodeLapses ==
  ASSUME AccountInv, NEW c \in DOMAIN codes, Acc!CodeExpires(c)
  PROVE  AccountInv'
  <1> DEFINE line == [codes[c] EXCEPT !.expired = TRUE]
  <1>1. UNCHANGED <<user, sessions, link, accountReq>> /\ codes' = [codes EXCEPT ![c] = line]
    BY DEF Acc!CodeExpires
  <1>2. codes[c] \in CodeRow
    BY RowsOfAccounts DEF AccountInv
  <1>3. line \in CodeRow /\ line.attempts = codes[c].attempts /\ line.kept = codes[c].kept
    BY <1>2 DEF CodeRow
  <1> HIDE DEF line
  <1>4. /\ codes' \in Seq(CodeRow) /\ DOMAIN codes' = DOMAIN codes
        /\ codes'[c] = line /\ \A d \in DOMAIN codes \ {c} : codes'[d] = codes[d]
    BY <1>1, <1>3, OneCodeChanges DEF AccountInv
  <1>5. AccountTypeInv' /\ SlotsInv' /\ SessionsInv' /\ SessionsFollow
    BY <1>1, <1>3, <1>4, CodesChange DEF AccountInv, AccountTypeInv
  <1>6. OnceInv'
    BY <1>1 DEF AccountInv, OnceInv, Spends, Acc!CodeServesOnce
  <1>7. GuessInv'
    <2>1. \A d : Misses(d)' = Misses(d)
      BY <1>1 DEF Misses
    <2>2. \A d \in DOMAIN codes : codes'[d].attempts = codes[d].attempts
      BY <1>3, <1>4
    <2> QED
      BY <1>4, <2>1, <2>2 DEF AccountInv, GuessInv
  <1> QED
    BY <1>5, <1>6, <1>7 DEF AccountInv

-----------------------------------------------------------------------------
(* The steps that change the sessions, the link and the activity *)

\* A session is opened with what its request holds, which then ends.
LEMMA SessionIsIssued ==
  ASSUME AccountInv, NEW r \in Requests, Acc!IssueTokens(r)
  PROVE  AccountInv'
  <1> DEFINE line == [live |-> TRUE, code |-> accountReq[r].code,
                      password |-> accountReq[r].password, late |-> accountReq[r].late]
  <1>1. /\ UNCHANGED <<user, codes, link>> /\ accountReq[r].pc = "issue"
        /\ sessions' = Append(sessions, line)
        /\ Leaves(r, "idle", 0, 0, 0) /\ ~accountReq'[r].late
    BY AccountMoves DEF Acc!IssueTokens, Acc!At, AccountInv
  <1>2. /\ SlotOk(accountReq[r]) /\ accountReq[r] \in AccountSlot
    BY DEF AccountInv, SlotsInv, AccountTypeInv
  <1>3. /\ line.code = accountReq[r].code /\ line.password = accountReq[r].password
        /\ line.late = accountReq[r].late
    OBVIOUS
  <1>4. line \in SessionRow
    BY <1>2 DEF SessionRow, AccountSlot
  <1> HIDE DEF line
  <1>5. /\ sessions \in Seq(SessionRow) /\ Len(sessions) \in Nat
        /\ DOMAIN sessions = 1..Len(sessions)
    BY LenProperties DEF AccountInv, AccountTypeInv
  <1>6. /\ sessions' \in Seq(SessionRow) /\ DOMAIN sessions' = 1..(Len(sessions) + 1)
        /\ sessions'[Len(sessions) + 1] = line
        /\ \A s \in 1..Len(sessions) : sessions'[s] = sessions[s]
    BY <1>1, <1>4, <1>5
  <1>7. \A s \in DOMAIN sessions' : (s \in DOMAIN sessions /\ sessions'[s] = sessions[s])
                                    \/ (s = Len(sessions) + 1 /\ sessions'[s] = line)
    BY <1>5, <1>6
  <1>8. SlotOk(accountReq[r])'
    BY <1>1 DEF Leaves, SlotOk, Before, After, Knowing, WithSession, WithAccount
  <1>9. AccountFollows
    BY <1>1, <1>5, <1>6 DEF AccountFollows
  <1>10. SlotsInv'
    BY <1>1, <1>8, <1>9, SlotsKept DEF AccountInv, Leaves
  <1>11. SessionsInv'
    <2>1. SessionOk(line)
      BY <1>1, <1>2, <1>3 DEF SlotOk, SessionOk, Before, After, Knowing, WithAccount
    <2> QED
      BY <1>1, <1>7, <2>1 DEF AccountInv, SessionsInv, SessionOk, CodeGone
  <1>12. OnceInv'
    <2>1. ~Spends(r)' /\ \A q \in Requests \ {r} : /\ (Spends(q)' <=> Spends(q))
                                                   /\ accountReq'[q].code = accountReq[q].code
      BY <1>1 DEF Leaves, Spends, After
    <2>2. line.code = 0 \/ Spends(r)
      BY <1>1, <1>3 DEF Spends, After
    <2>3. \A q \in Requests \ {r} : Spends(q) => line.code # accountReq[q].code
      BY <1>3, <2>2 DEF AccountInv, OnceInv, Spends
    <2>4. \A s \in DOMAIN sessions : line.code = 0 \/ sessions[s].code # line.code
      BY <1>3, <2>2 DEF AccountInv, OnceInv
    <2>5. \A q \in Requests, s \in DOMAIN sessions' : Spends(q)' => sessions'[s].code # accountReq'[q].code
      BY <1>7, <2>1, <2>3 DEF AccountInv, OnceInv
    <2>6. Acc!CodeServesOnce'
      BY <1>7, <2>4 DEF AccountInv, OnceInv, Acc!CodeServesOnce
    <2> QED
      BY <2>1, <2>5, <2>6 DEF AccountInv, OnceInv
  <1>13. GuessInv'
    BY <1>1, GuessesKept DEF AccountInv, AccountTypeInv, Leaves
  <1> QED
    BY <1>1, <1>6, <1>10, <1>11, <1>12, <1>13 DEF AccountInv, AccountTypeInv, Leaves

\* A session is closed, to open the next one or for good.
LEMMA SessionIsClosed ==
  ASSUME AccountInv, NEW r \in Requests, NEW s, s = accountReq[r].session,
         Acc!RefreshRotate(r) \/ Acc!LogoutRevoke(r)
  PROVE  AccountInv'
  <1> DEFINE line == [sessions[s] EXCEPT !.live = FALSE]
  <1>1. /\ UNCHANGED <<user, codes, link>> /\ accountReq[r].pc \in {"rotate", "logout"}
        /\ sessions' = [sessions EXCEPT ![s] = line]
        /\ \/ accountReq[r].pc = "rotate" /\ Keeps(r, "issue")
           \/ Leaves(r, "idle", 0, 0, 0) /\ ~accountReq'[r].late
    BY AccountMoves
    DEF Acc!RefreshRotate, Acc!LogoutRevoke, Acc!Revoke, Acc!At, AccountInv, AccountPc, After
  <1>2. /\ SlotOk(accountReq[r]) /\ s \in DOMAIN sessions /\ sessions[s] \in SessionRow
        /\ accountReq[r].code = 0
    BY <1>1, RowsOfAccounts
    DEF AccountInv, SlotsInv, SlotOk, WithSession, Before, After
  <1>3. /\ line \in SessionRow /\ line.code = sessions[s].code /\ ~line.live
        /\ line.password = sessions[s].password /\ line.late = sessions[s].late
    BY <1>2 DEF SessionRow
  <1> HIDE DEF line
  <1>4. DOMAIN sessions = 1..Len(sessions) /\ sessions \in [1..Len(sessions) -> SessionRow]
    BY LenProperties DEF AccountInv, AccountTypeInv
  <1>5. sessions' \in Seq(SessionRow)
    BY <1>1, <1>2, <1>3, <1>4, ExceptSeq DEF AccountInv, AccountTypeInv
  <1>6. /\ DOMAIN sessions' = DOMAIN sessions /\ sessions'[s] = line
        /\ \A t \in DOMAIN sessions \ {s} : sessions'[t] = sessions[t]
    BY <1>1, <1>2, <1>4
  <1>7. AccountFollows /\ SessionsFollow
    BY <1>1, <1>3, <1>6 DEF AccountFollows, SessionsFollow
  <1>8. SlotOk(accountReq[r])'
    BY <1>1, <1>2 DEF Keeps, Leaves, SlotOk, Before, After, Knowing, WithSession, WithAccount
  <1>9. /\ accountReq' \in [Requests -> AccountSlot]
        /\ \A q \in Requests : accountReq'[q] = accountReq[q] \/ SlotOk(accountReq[q])'
        /\ \A q \in Requests : accountReq'[q] = accountReq[q] \/ accountReq'[q].pc # "miss"
    BY <1>1, <1>8 DEF Keeps, Leaves
  <1>10. SlotsInv'
    BY <1>7, <1>9, SlotsKept DEF AccountInv
  <1>11. SessionsInv'
    BY <1>1, <1>7, SessionsKept DEF AccountInv, SessionsInv
  <1>12. OnceInv'
    <2>1. \A q \in Requests : Spends(q)' => Spends(q) /\ accountReq'[q].code = accountReq[q].code
      BY <1>1, <1>2 DEF Keeps, Leaves, Spends, After
    <2> QED
      BY <1>7, <2>1, OnceKept DEF AccountInv
  <1>13. GuessInv'
    BY <1>1, <1>9, GuessesKept DEF AccountInv, AccountTypeInv
  <1> QED
    BY <1>1, <1>5, <1>9, <1>10, <1>11, <1>12, <1>13 DEF AccountInv, AccountTypeInv

LEMMA LinkChanges ==
  ASSUME AccountInv, Acc!LinkExpires \/ \E r \in Requests : Acc!ReplaceLink(r)
  PROVE  AccountInv'
  <1>1. CASE Acc!LinkExpires
    <2>1. UNCHANGED <<user, codes, sessions, accountReq>> /\ link.open # 0
      BY <1>1 DEF Acc!LinkExpires
    <2> QED
      BY <2>1
      DEF AccountInv, AccountTypeInv, SlotsInv, SlotOk, SessionsInv, SessionOk, CodeGone, OnceInv,
          Spends, Acc!CodeServesOnce, GuessInv, Misses
  <1>2. ASSUME NEW r \in Requests, Acc!ReplaceLink(r)
        PROVE  AccountInv'
    <2>1. /\ UNCHANGED <<user, codes, sessions>> /\ accountReq[r].pc = "link"
          /\ Leaves(r, "idle", 0, 0, 0) /\ ~accountReq'[r].late
      BY <1>2, AccountMoves DEF Acc!ReplaceLink, Acc!At, AccountInv
    <2>2. user # None
      BY <2>1 DEF AccountInv, SlotsInv, SlotOk, WithAccount
    <2>3. SlotOk(accountReq[r])'
      BY <2>1 DEF Leaves, SlotOk, Before, After, Knowing, WithSession, WithAccount
    <2>4. AccountFollows /\ SessionsFollow
      BY <2>1 DEF AccountFollows, SessionsFollow
    <2>5. SlotsInv'
      BY <2>1, <2>3, <2>4, SlotsKept DEF AccountInv, Leaves
    <2>6. SessionsInv'
      BY <2>1, <2>2, <2>4, SessionsKept DEF AccountInv
    <2>7. OnceInv'
      <3>1. \A q \in Requests : Spends(q)' => Spends(q) /\ accountReq'[q].code = accountReq[q].code
        BY <2>1 DEF Leaves, Spends, After
      <3> QED
        BY <2>4, <3>1, OnceKept DEF AccountInv
    <2>8. GuessInv'
      BY <2>1, GuessesKept DEF AccountInv, AccountTypeInv, Leaves
    <2> QED
      BY <2>1, <2>5, <2>6, <2>7, <2>8 DEF AccountInv, AccountTypeInv, Leaves
  <1> QED
    BY <1>1, <1>2

LEMMA ActivityChanges ==
  ASSUME AccountInv, NEW active \in BOOLEAN, Acc!SetActive(active)
  PROVE  AccountInv'
  <1>1. /\ user # None /\ user' = [user EXCEPT !.active = active]
        /\ UNCHANGED <<codes, sessions, link, accountReq>>
    BY DEF Acc!SetActive, Acc!Exists
  <1>2. user \in AccountRow
    BY <1>1 DEF AccountInv, AccountTypeInv
  <1>3. user' \in AccountRow /\ user'.password = user.password
    BY <1>1, <1>2 DEF AccountRow
  <1>4. user' # None
    BY <1>3, TravelAssumption DEF AccountRow
  <1>5. AccountFollows /\ SessionsFollow
    BY <1>1, <1>3, <1>4 DEF AccountFollows, SessionsFollow
  <1>6. SlotsInv'
    BY <1>1, <1>5, SlotsKept DEF AccountInv
  <1>7. SessionsInv'
    BY <1>1, <1>4, <1>5, SessionsKept DEF AccountInv
  <1>8. OnceInv' /\ GuessInv'
    BY <1>1 DEF AccountInv, OnceInv, Spends, Acc!CodeServesOnce, GuessInv, Misses
  <1> QED
    BY <1>1, <1>3, <1>6, <1>7, <1>8 DEF AccountInv, AccountTypeInv

-----------------------------------------------------------------------------
(* The accounts *)

LEMMA NextAccounts == AccountInv /\ [Acc!Next]_(Acc!vars) => AccountInv'
  <1> SUFFICES ASSUME AccountInv, [Acc!Next]_(Acc!vars) PROVE AccountInv'
    OBVIOUS
  <1>1. ASSUME NEW r \in Requests,
               \/ Acc!RequestOtp(r) \/ Acc!RequestReset(r) \/ Acc!ResetRead(r)
               \/ Acc!Register(r) \/ Acc!AddGuide(r)
        PROVE  AccountInv'
    <2>1. UNCHANGED <<user, codes, sessions, link>>
      BY <1>1 DEF Acc!RequestOtp, Acc!RequestReset, Acc!ResetRead, Acc!Register, Acc!AddGuide,
                  Acc!FindFree
    <2>2. PICK pc \in {"replace", "link", "reset", "register", "guide"} :
            Acc!Start(r, pc) /\ (pc \in {"link", "reset"} => user # None)
      BY <1>1 DEF Acc!RequestOtp, Acc!RequestReset, Acc!ResetRead, Acc!Register, Acc!AddGuide,
                  Acc!FindFree, Acc!Exists, AccountInv, SessionsInv
    <2> QED
      BY <2>1, <2>2, StartOfRequest
  <1>2. ASSUME NEW r \in Requests, Acc!RegisterAgency(r) \/ Acc!Drop(r)
        PROVE  AccountInv'
    BY <1>2, EndOfRequest DEF Acc!RegisterAgency, Acc!Drop
  <1>3. ASSUME NEW r \in Requests, Acc!SpendCode(r) \/ Acc!CountMiss(r)
        PROVE  AccountInv'
    BY <1>3, CodeIsSpent, MissIsCounted
  <1>4. ASSUME NEW r \in Requests, Acc!RefreshRotate(r) \/ Acc!LogoutRevoke(r)
        PROVE  AccountInv'
    BY <1>4, SessionIsClosed
  <1>5. CASE UNCHANGED Acc!vars
    <2>1. UNCHANGED <<user, codes, sessions, link, accountReq>>
      BY <1>5 DEF Acc!vars
    <2> QED
      BY <2>1
      DEF AccountInv, AccountTypeInv, SlotsInv, SlotOk, SessionsInv, SessionOk, CodeGone, OnceInv,
          Spends, Acc!CodeServesOnce, GuessInv, Misses
  <1>6. CASE Acc!Next
    BY <1>1, <1>2, <1>3, <1>4, <1>6, CodesReplaced, ReadOfCode, UserOfRequest, AccountIsMade,
       SessionIsIssued, FoundSession, LinkChanges, PasswordChanges, ActivityChanges, CodeLapses
    DEF Acc!Next
  <1> QED
    BY <1>5, <1>6

LEMMA AccountsHold == TravelSpec => []AccountInv
  <1>1. TravelInit => AccountInv
    <2> SUFFICES ASSUME Acc!Init PROVE AccountInv
      BY DEF TravelInit
    <2>1. /\ codes = <<>> /\ sessions = <<>> /\ DOMAIN codes = {} /\ DOMAIN sessions = {}
          /\ accountReq = [r \in Requests |-> Acc!Idle]
      BY DEF Acc!Init
    <2>2. user \in AccountRow \union {None} /\ link.open = 0
      <3>1. Acc!Account("admin", 1) \in AccountRow
        BY DEF Acc!Account, AccountRow, Acc!ResetRoles
      <3> QED
        BY <3>1 DEF Acc!Init
    <2>3. \A r \in Requests : /\ accountReq[r] \in AccountSlot /\ accountReq[r].pc = "idle"
                              /\ SlotOk(accountReq[r])
      BY <2>1 DEF Acc!Idle, AccountSlot, AccountPc, SlotOk, Before, After, Knowing, WithSession,
                  WithAccount
    <2>4. AccountTypeInv
      BY <2>1, <2>2, <2>3, EmptySeq DEF AccountTypeInv
    <2>5. SlotsInv /\ SessionsInv /\ GuessInv
      BY <2>1, <2>2, <2>3 DEF SlotsInv, SessionsInv, GuessInv
    <2>6. OnceInv
      BY <2>1, <2>3 DEF OnceInv, Spends, After, Acc!CodeServesOnce
    <2> QED
      BY <2>4, <2>5, <2>6 DEF AccountInv
  <1>2. AccountInv /\ [TravelNext]_travelVars => AccountInv'
    BY NextAccounts, StepsOfParts
  <1> QED
    BY <1>1, <1>2, PTL DEF TravelSpec

\* However many requests present it at once, a one-time code opens one session, and
\* the guesses that overlap pass the limit by no more than there are requests.
THEOREM CodesAreAlwaysGuarded == TravelSpec => []CodesAreGuarded
  <1>1. AccountInv => CodesAreGuarded
    <2>1. ASSUME AccountInv, NEW c \in DOMAIN codes
          PROVE  codes[c].attempts < MaxAttempts + Cardinality(Requests)
      <3>1. /\ codes[c].attempts + Cardinality(Misses(c)) < MaxAttempts + Cardinality(Requests)
            /\ Cardinality(Misses(c)) \in Nat /\ Cardinality(Requests) \in Nat
            /\ codes[c].attempts \in Nat /\ MaxAttempts \in Nat
        BY <2>1, MissesAreFinite, RowsOfAccounts, TravelAssumption DEF AccountInv, GuessInv, CodeRow
      <3> QED
        BY <3>1
    <2>c. Acc!Cardinality(Requests) = Cardinality(Requests)
      BY DEF Acc!Cardinality, Cardinality
    <2>2. AccountInv => Acc!GuessesAreBounded
      BY <2>1, <2>c DEF Acc!GuessesAreBounded
    <2>3. AccountInv => Acc!CodeServesOnce
      BY DEF AccountInv, OnceInv
    <2>4. AccountInv => Acc!CodesAreGuarded
      BY <2>2, <2>3 DEF Acc!CodesAreGuarded
    <2> QED
      BY <2>4 DEF CodesAreGuarded
  <1> QED
    BY <1>1, AccountsHold, PTL

\* After any number of resets, an open session was opened under the password in force,
\* or by a request that was on its way when it changed.
THEOREM SessionsAlwaysEnd == TravelSpec => []SessionsEndWithPassword
  <1>1. AccountInv => SessionsEndWithPassword
    BY DEF AccountInv, SessionsInv, SessionOk, SessionsEndWithPassword, Acc!SessionsEndWithPassword
  <1> QED
    BY <1>1, AccountsHold, PTL

\* Whoever wins the address, the account keeps the role it was made with.
THEOREM RolesAlwaysStay == TravelSpec => AccountKeepsRole
  <1>1. AccountInv /\ [Acc!Next]_(Acc!vars) => [Acc!Exists => user' # None /\ user'.role = user.role]_(Acc!vars)
    <2> SUFFICES ASSUME AccountInv, Acc!Next, user # None
                 PROVE  user' # None /\ user'.role = user.role
      BY DEF Acc!Exists
    <2>1. user \in AccountRow
      BY DEF AccountInv, AccountTypeInv
    <2>2. \/ UNCHANGED user
          \/ \E active \in BOOLEAN : user' = [user EXCEPT !.active = active]
          \/ user' = [user EXCEPT !.password = @ + 1]
      BY DEF Acc!Next, Acc!RequestOtp, Acc!DeleteCodes, Acc!CreateCode, Acc!VerifyRead, Acc!CountMiss,
             Acc!SpendCode, Acc!FindUser, Acc!SignUp, Acc!IssueTokens, Acc!Login, Acc!RefreshUser,
             Acc!RefreshRotate, Acc!LogoutRevoke, Acc!Refresh, Acc!Logout, Acc!FindSession,
             Acc!RequestReset, Acc!ReplaceLink, Acc!ResetRead, Acc!ResetPassword, Acc!NewPassword,
             Acc!Register, Acc!RegisterOwner, Acc!RegisterAgency, Acc!AddGuide, Acc!FindFree,
             Acc!CreateGuide, Acc!Drop, Acc!SetActive, Acc!CodeExpires, Acc!LinkExpires, Acc!Exists
    <2>3. user' \in AccountRow /\ user'.role = user.role
      BY <2>1, <2>2 DEF AccountRow
    <2> QED
      BY <2>3, TravelAssumption DEF AccountRow
  <1>2. AccountInv /\ [TravelNext]_travelVars =>
          [Acc!Exists => user' # None /\ user'.role = user.role]_(Acc!vars)
    BY <1>1, StepsOfParts
  <1> QED
    BY <1>2, AccountsHold, PTL DEF TravelSpec, AccountKeepsRole, Acc!AccountKeepsRole

-----------------------------------------------------------------------------
(* Savings *)

PlanRow == [on : BOOLEAN, next : Int]

SavingsTypeInv ==
  /\ today \in Nat /\ departure \in Nat /\ started \in Nat /\ asked \in Nat
  /\ plan \in PlanRow
  /\ wanted \in BOOLEAN /\ stale \in BOOLEAN /\ failed \in BOOLEAN
  /\ job \in [pc : {"idle", "ask", "update"}, seen : PlanRow]
  /\ job # Sav!Idle => job.pc # "idle"

\* Until a plan is set up during a run, the run has the plan as it stands, and the
\* plan is the one that was asked for.
RunSeesPlan ==
  ~stale =>
    /\ plan.on = wanted
    /\ job.pc # "idle" => job.seen = plan /\ plan.on /\ plan.next <= today

\* The next date is a period after the last installment that was asked for, or, for
\* as long as a run is about to move it, this installment's own.
NextDate == IF job.pc = "update" THEN asked * Period + started
            ELSE (asked + 1) * Period + started

InstallmentsInv ==
  ~stale /\ ~failed =>
    /\ asked * Period + started <= today
    /\ plan.on => plan.next = NextDate

SavingsInv == SavingsTypeInv /\ RunSeesPlan /\ InstallmentsInv

LEMMA OnePeriodMore ==
  ASSUME NEW k \in Nat
  PROVE  k * Period \in Nat /\ (k + 1) * Period = k * Period + Period
  BY TravelAssumption

LEMMA NextSavings == SavingsInv /\ [Sav!Next]_(Sav!vars) => SavingsInv'
  <1> SUFFICES ASSUME SavingsInv, [Sav!Next]_(Sav!vars)
               PROVE  SavingsInv'
    OBVIOUS
  <1> USE TravelAssumption DEF SavingsInv, PlanRow
  <1>t. /\ today \in Nat /\ departure \in Nat /\ started \in Nat /\ asked \in Nat
        /\ plan \in PlanRow /\ plan.on \in BOOLEAN /\ plan.next \in Int
        /\ wanted \in BOOLEAN /\ stale \in BOOLEAN /\ failed \in BOOLEAN
        /\ job.pc \in {"idle", "ask", "update"} /\ job.seen \in PlanRow
        /\ job.seen.next \in Int /\ job.seen.on \in BOOLEAN
        /\ asked * Period \in Nat /\ (asked + 1) * Period = asked * Period + Period
        /\ Period \in Nat
    BY OnePeriodMore DEF SavingsTypeInv
  <1>1. ASSUME NEW on \in BOOLEAN, Sav!SetupSavingsPlan(on)
        PROVE  SavingsInv'
    <2>1. /\ today' = today /\ departure' = departure /\ started' = today /\ asked' = 0
          /\ plan'.on = on /\ plan'.next \in Int /\ plan' \in PlanRow
          /\ on => plan'.next = today + Period
          /\ wanted' = on /\ failed' = failed /\ job' = job
      BY <1>1, <1>t DEF Sav!SetupSavingsPlan, Sav!bookingVars
    <2>2. stale' \in BOOLEAN /\ (~stale' => ~stale /\ job = Sav!Idle)
      <3>1. stale' = (stale \/ job # Sav!Idle)
        BY <1>1 DEF Sav!SetupSavingsPlan
      <3> QED
        BY <3>1, <1>t, Zenon
    <2>3. SavingsTypeInv'
      BY <2>1, <2>2, <1>t DEF SavingsTypeInv
    <2>4. job = Sav!Idle => job.pc = "idle"
      BY DEF Sav!Idle
    <2>5. RunSeesPlan'
      BY <2>1, <2>2, <2>4 DEF RunSeesPlan
    <2>6. InstallmentsInv'
      <3>1. 0 * Period = 0 /\ (0 + 1) * Period = Period
        OBVIOUS
      <3> QED
        BY <2>1, <2>2, <2>4, <3>1, <1>t DEF InstallmentsInv, NextDate
    <2> QED
      BY <2>3, <2>5, <2>6
  <1>2. CASE Sav!Settle \/ Sav!Cancel \/ UNCHANGED Sav!vars \/ \E sent \in BOOLEAN : Sav!Remind(sent)
    <2>1. /\ today' = today /\ departure' = departure /\ started' = started /\ asked' = asked
          /\ plan' = plan /\ wanted' = wanted /\ stale' = stale /\ failed' = failed /\ job' = job
      BY <1>2 DEF Sav!Settle, Sav!Cancel, Sav!Remind, Sav!vars, Sav!planVars, Sav!bookingVars
    <2> QED
      BY <2>1 DEF SavingsTypeInv, RunSeesPlan, InstallmentsInv, NextDate
  <1>3. CASE Sav!JobRead
    <2>1. /\ today' = today /\ departure' = departure /\ started' = started /\ asked' = asked
          /\ plan' = plan /\ wanted' = wanted /\ stale' = stale /\ failed' = failed
      BY <1>3 DEF Sav!JobRead, Sav!planVars, Sav!bookingVars
    <2>2. /\ job.pc = "idle"
          /\ \/ job' = Sav!Idle
             \/ job' = [pc |-> "ask", seen |-> plan] /\ plan.on /\ plan.next <= today
      BY <1>3 DEF Sav!JobRead, Sav!Due, Sav!Idle
    <2>3. /\ job' \in [pc : {"idle", "ask", "update"}, seen : PlanRow]
          /\ job' # Sav!Idle => job'.pc # "idle"
          /\ job'.pc # "update"
          /\ job'.pc # "idle" => job'.seen = plan /\ plan.on /\ plan.next <= today
      <3>1. CASE job' = Sav!Idle
        BY <3>1 DEF Sav!Idle, Sav!Off, Sav!NoDay
      <3>2. CASE job' = [pc |-> "ask", seen |-> plan] /\ plan.on /\ plan.next <= today
        <4>1. job'.pc = "ask" /\ job'.seen = plan
          BY <3>2
        <4> QED
          BY <3>2, <4>1, <1>t
      <3> QED
        BY <2>2, <3>1, <3>2
    <2>4. SavingsTypeInv'
      BY <2>1, <2>3, <1>t DEF SavingsTypeInv
    <2> QED
      BY <2>1, <2>2, <2>3, <2>4 DEF RunSeesPlan, InstallmentsInv, NextDate
  <1>4. CASE Sav!JobInitiate
    <2>1. /\ today' = today /\ departure' = departure /\ started' = started
          /\ asked' = asked + 1 /\ job.pc = "ask" /\ job' = [job EXCEPT !.pc = "update"]
          /\ plan' = plan /\ wanted' = wanted /\ stale' = stale /\ failed' = failed
      BY <1>4 DEF Sav!JobInitiate, Sav!bookingVars
    <2>2. job'.pc = "update" /\ job'.seen = job.seen
          /\ job' \in [pc : {"idle", "ask", "update"}, seen : PlanRow]
      BY <2>1, <1>t DEF SavingsTypeInv
    <2>3. SavingsTypeInv'
      BY <2>1, <2>2, <1>t DEF SavingsTypeInv
    <2>4. RunSeesPlan'
      BY <2>1, <2>2 DEF RunSeesPlan
    <2>5. InstallmentsInv'
      BY <2>1, <2>2, <1>t DEF RunSeesPlan, InstallmentsInv, NextDate
    <2> QED
      BY <2>3, <2>4, <2>5
  <1>5. CASE Sav!JobUpdate
    <2>1. /\ today' = today /\ departure' = departure /\ started' = started
          /\ asked' = asked /\ job.pc = "update" /\ job' = Sav!Idle
          /\ plan' = [job.seen EXCEPT !.next = @ + Period]
          /\ wanted' = wanted /\ stale' = stale /\ failed' = failed
      BY <1>5 DEF Sav!JobUpdate, Sav!bookingVars
    <2>2. /\ plan' \in PlanRow /\ plan'.on = job.seen.on /\ plan'.next = job.seen.next + Period
          /\ job'.pc = "idle"
      BY <2>1, <1>t DEF Sav!Idle
    <2>3. SavingsTypeInv'
      BY <2>1, <2>2, <1>t DEF SavingsTypeInv, Sav!Idle, Sav!Off, Sav!NoDay
    <2>4. RunSeesPlan'
      BY <2>1, <2>2 DEF RunSeesPlan
    <2>5. InstallmentsInv'
      BY <2>1, <2>2, <1>t DEF RunSeesPlan, InstallmentsInv, NextDate
    <2> QED
      BY <2>3, <2>4, <2>5
  <1>6. CASE Sav!JobFails
    <2>1. /\ today' = today /\ departure' = departure /\ started' = started
          /\ asked' = asked /\ job' = Sav!Idle /\ plan' = plan
          /\ wanted' = wanted /\ stale' = stale
      BY <1>6 DEF Sav!JobFails, Sav!bookingVars
    <2>2. failed' \in BOOLEAN /\ (~failed' => ~failed /\ job.pc # "update")
      <3>1. failed' = (failed \/ job.pc = "update")
        BY <1>6 DEF Sav!JobFails
      <3> QED
        BY <3>1, <1>t, Zenon
    <2>3. SavingsTypeInv' /\ job'.pc = "idle"
      BY <2>1, <2>2, <1>t DEF SavingsTypeInv, Sav!Idle, Sav!Off, Sav!NoDay
    <2>4. RunSeesPlan'
      BY <2>1, <2>3 DEF RunSeesPlan
    <2>5. InstallmentsInv'
      BY <2>1, <2>2, <2>3, <1>t DEF InstallmentsInv, NextDate
    <2> QED
      BY <2>3, <2>4, <2>5
  <1>7. CASE Sav!NextDay
    <2>1. /\ today' \in Nat /\ today <= today' /\ departure' = departure /\ started' = started
          /\ asked' = asked /\ job' = job /\ job = Sav!Idle /\ plan' = plan
          /\ wanted' = wanted /\ stale' = stale /\ failed' = failed
      BY <1>7, <1>t DEF Sav!NextDay, Sav!bookingVars, Sav!planVars
    <2>2. job.pc = "idle"
      BY <2>1 DEF Sav!Idle
    <2>3. SavingsTypeInv'
      BY <2>1 DEF SavingsTypeInv
    <2>4. RunSeesPlan'
      BY <2>1, <2>2 DEF RunSeesPlan
    <2>5. InstallmentsInv'
      BY <2>1, <2>2, <1>t DEF InstallmentsInv, NextDate
    <2> QED
      BY <2>3, <2>4, <2>5
  <1> QED
    BY <1>1, <1>2, <1>3, <1>4, <1>5, <1>6, <1>7 DEF Sav!Next

LEMMA SavingsHold == TravelSpec => []SavingsInv
  <1>1. TravelInit => SavingsInv
    <2> SUFFICES ASSUME Sav!Init
                 PROVE  SavingsInv
      BY DEF TravelInit
    <2>1. departure \in Nat
      BY TravelAssumption DEF Sav!Init
    <2>2. plan \in PlanRow /\ job \in [pc : {"idle", "ask", "update"}, seen : PlanRow]
          /\ job = Sav!Idle /\ job.pc = "idle" /\ ~plan.on
      BY DEF Sav!Init, Sav!Off, Sav!NoDay, Sav!Idle, PlanRow
    <2>3. SavingsTypeInv
      BY <2>1, <2>2 DEF Sav!Init, SavingsTypeInv
    <2>4. plan.on = wanted
      BY DEF Sav!Init, Sav!Off
    <2>5. RunSeesPlan
      BY <2>2, <2>4 DEF RunSeesPlan
    <2>6. 0 * Period = 0
      BY TravelAssumption
    <2>7. InstallmentsInv
      BY <2>2, <2>6 DEF Sav!Init, InstallmentsInv
    <2> QED
      BY <2>3, <2>5, <2>7 DEF SavingsInv
  <1>2. SavingsInv /\ [TravelNext]_travelVars => SavingsInv'
    BY NextSavings, StepsOfParts
  <1> QED
    BY <1>1, <1>2, PTL DEF TravelSpec

\* However long the job was away, it never asks for more installments than periods have
\* gone by since the plan was set up.
THEOREM InstallmentsAlwaysFollow == TravelSpec => []InstallmentsFollowPlan
  <1>1. SavingsInv => InstallmentsFollowPlan
    <2> SUFFICES ASSUME SavingsInv, ~stale
                 PROVE  plan.on = wanted /\ (~failed => asked * Period <= today - started)
      BY DEF InstallmentsFollowPlan, Sav!InstallmentsFollowPlan
    <2>1. asked * Period \in Nat /\ started \in Nat /\ today \in Nat
      BY OnePeriodMore DEF SavingsInv, SavingsTypeInv
    <2> QED
      BY <2>1 DEF SavingsInv, RunSeesPlan, InstallmentsInv
  <1> QED
    BY <1>1, SavingsHold, PTL

-----------------------------------------------------------------------------
(* Reminders of a balance *)

\* The window of the query opens late enough for the earliest of the reminders.
LEMMA WindowCoversOffsets ==
  ASSUME today \in Nat, departure \in Nat, Sav!DaysLeft \in Offsets
  PROVE  Sav!InWindow
  <1>1. PICK m \in Offsets : \A k \in Offsets : m >= k
    <2>1. Offsets \subseteq Nat /\ Offsets # {} /\ IsFiniteSet(Offsets)
      BY TravelAssumption
    <2>2. PICK n \in Nat : Offsets \subseteq 0..n
      BY <2>1, FiniteIsBounded
    <2> QED
      BY <2>1, <2>2, GreatestNatural
  <1>2. Sav!Max(Offsets) \in Offsets /\ \A k \in Offsets : Sav!Max(Offsets) >= k
    BY <1>1 DEF Sav!Max
  <1>3. /\ Sav!DaysLeft \in Nat \ {0} /\ Sav!Max(Offsets) \in Nat
        /\ Sav!DaysLeft <= Sav!Max(Offsets) /\ DueDays \in Nat
    BY <1>2, TravelAssumption
  <1>4. 3 * (departure \div 3) <= departure /\ departure <= 3 * (departure \div 3) + 2
        /\ departure \div 3 \in Nat
    OBVIOUS
  <1>5. Sav!DaysLeft = departure \div 3 - DueDays - today
    BY DEF Sav!DaysLeft
  <1> QED
    BY <1>3, <1>4, <1>5 DEF Sav!InWindow, Sav!WindowStart

RemindersInv == Sav!RemindersArrive

LEMMA NextReminders ==
  ASSUME SavingsTypeInv, RemindersInv, [Sav!Next]_(Sav!vars)
  PROVE  RemindersInv'
  <1> USE DEF RemindersInv, Sav!RemindersArrive, Sav!DaysLeft
  <1>1. ASSUME NEW sent \in BOOLEAN, Sav!Remind(sent)
        PROVE  RemindersInv'
    <2>1. today \in Nat /\ departure \in Nat
      BY DEF SavingsTypeInv
    <2>2. today' = today /\ departure' = departure
      BY <1>1 DEF Sav!Remind, Sav!bookingVars
    <2>3. recall' = "owing" => ~(Sav!InWindow /\ Sav!DaysLeft \in Offsets)
      BY <1>1 DEF Sav!Remind
    <2> QED
      BY <2>1, <2>2, <2>3, WindowCoversOffsets
  <1>2. CASE Sav!NextDay
    BY <1>2 DEF Sav!NextDay, Sav!bookingVars
  <1> QED
    BY <1>1, <1>2 DEF Sav!Next, Sav!SetupSavingsPlan, Sav!Settle, Sav!Cancel, Sav!JobRead,
         Sav!JobInitiate, Sav!JobUpdate, Sav!JobFails, Sav!vars, Sav!bookingVars, Sav!planVars

\* At whatever hour the package leaves, a run on one of the days of BALANCE_REMINDER_OFFSETS_DAYS
\* finds the booking that is not paid.
THEOREM RemindersAlwaysArrive == TravelSpec => []RemindersArrive
  <1>1. TravelInit => RemindersInv
    BY DEF TravelInit, Sav!Init, RemindersInv, Sav!RemindersArrive
  <1>2. SavingsInv /\ RemindersInv /\ [TravelNext]_travelVars => RemindersInv'
    BY NextReminders, StepsOfParts DEF SavingsInv
  <1>3. RemindersInv => RemindersArrive
    BY DEF RemindersInv, RemindersArrive
  <1> QED
    BY <1>1, <1>2, <1>3, SavingsHold, PTL DEF TravelSpec

-----------------------------------------------------------------------------
(* Access: the rooms of a socket *)

SocketRow == [user : Axs!Users, room : Axs!Rooms, joined : BOOLEAN, moved : BOOLEAN]

\* Only a change of group or of guide takes a reader away from a room, and it leaves a
\* mark on the socket.
ListenersInv == socket \in SocketRow \union {None} /\ Axs!ListenersHadAccess

LEMMA NextListeners == ListenersInv /\ [Axs!Next]_(Axs!vars) => ListenersInv'
  <1> SUFFICES ASSUME ListenersInv, [Axs!Next]_(Axs!vars)
               PROVE  ListenersInv'
    OBVIOUS
  <1>n. None \notin SocketRow /\ socket \in SocketRow \union {None}
    BY TravelAssumption DEF SocketRow, ListenersInv
  <1>1. ASSUME Axs!Change PROVE ListenersInv'
    <2>1. CASE socket = None
      BY <1>1, <2>1 DEF Axs!Change, ListenersInv, Axs!ListenersHadAccess
    <2>2. CASE socket # None
      <3>1. socket' = [socket EXCEPT !.moved = TRUE] /\ socket \in SocketRow
        BY <1>1, <2>2, <1>n DEF Axs!Change
      <3>2. socket' \in SocketRow /\ socket'.moved
        BY <3>1 DEF SocketRow
      <3> QED
        BY <3>2 DEF ListenersInv, Axs!ListenersHadAccess
    <2> QED
      BY <2>1, <2>2
  <1>2. ASSUME UNCHANGED <<placed, joined, ledBy>>
        PROVE  \A room : (Axs!RoomReaders(room))' = Axs!RoomReaders(room)
    BY <1>2 DEF Axs!RoomReaders, Axs!GroupReaders, Axs!ThreadReaders, Axs!Members, Axs!GuidesOf,
                Axs!AgencyOfBooking
  <1>3. ASSUME NEW u \in Axs!Users, NEW room \in Axs!Rooms, Axs!JoinRead(u, room)
        PROVE  ListenersInv'
    <2>1. /\ u \in Axs!RoomReaders(room) /\ UNCHANGED <<placed, joined, ledBy>>
          /\ socket' = [user |-> u, room |-> room, joined |-> FALSE, moved |-> FALSE]
      BY <1>3 DEF Axs!JoinRead
    <2>2. socket' \in SocketRow /\ socket'.user = u /\ socket'.room = room
      BY <2>1 DEF SocketRow
    <2>3. u \in (Axs!RoomReaders(room))'
      BY <2>1, <1>2
    <2>4. Axs!ListenersHadAccess'
      BY <2>2, <2>3 DEF Axs!ListenersHadAccess
    <2> QED
      BY <2>2, <2>4 DEF ListenersInv
  <1>4. CASE Axs!Join
    <2>1. /\ socket \in SocketRow /\ UNCHANGED <<placed, joined, ledBy>>
          /\ socket' = [socket EXCEPT !.joined = TRUE]
      BY <1>4, <1>n DEF Axs!Join
    <2>2. /\ socket' \in SocketRow /\ socket'.user = socket.user
          /\ socket'.room = socket.room
      BY <2>1 DEF SocketRow
    <2>3. socket.moved => socket'.moved
      BY <2>1 DEF SocketRow
    <2>4. Axs!ListenersHadAccess'
      BY <2>1, <2>2, <2>3, <1>2, <1>n DEF ListenersInv, Axs!ListenersHadAccess
    <2> QED
      BY <2>2, <2>4 DEF ListenersInv
  <1>5. CASE Axs!Disconnect
    BY <1>5 DEF Axs!Disconnect, ListenersInv, Axs!ListenersHadAccess
  <1>6. ASSUME UNCHANGED <<placed, joined, ledBy, socket>> PROVE ListenersInv'
    BY <1>2, <1>6 DEF ListenersInv, Axs!ListenersHadAccess
  <1> QED
    BY <1>1, <1>3, <1>4, <1>5, <1>6
       DEF Axs!Next, Axs!vars, Axs!AssignGroup, Axs!AssignGuide, Axs!SetActive, Axs!Cancel,
           Axs!DisputeMoves

\* A socket has only joined a room that its user could read when it asked: whatever
\* moved since has left its mark.
THEOREM ListenersAlwaysHadAccess == TravelSpec => []ListenersHadAccess
  <1>1. TravelInit => ListenersInv
    BY DEF TravelInit, Axs!Init, ListenersInv, Axs!ListenersHadAccess
  <1>2. ListenersInv /\ [TravelNext]_travelVars => ListenersInv'
    BY NextListeners, StepsOfParts
  <1>3. ListenersInv => ListenersHadAccess
    BY DEF ListenersInv, ListenersHadAccess
  <1> QED
    BY <1>1, <1>2, <1>3, PTL DEF TravelSpec

-----------------------------------------------------------------------------
(* Access: the checks of the services *)

AccessTypeInv ==
  /\ placed \in Groups \union {None} /\ joined \subseteq Groups
  /\ placed # None => placed \in joined
  /\ ledBy \in [Groups -> Guides \union {None}]
  /\ dispute \in {"none", "open", "resolved", "escalated", "closed"}

LEMMA NextAccess == AccessTypeInv /\ [Axs!Next]_(Axs!vars) => AccessTypeInv'
  <1> SUFFICES ASSUME AccessTypeInv, [Axs!Next]_(Axs!vars)
               PROVE  AccessTypeInv'
    OBVIOUS
  <1>1. ASSUME NEW x \in Groups, Axs!AssignGroup(x) PROVE AccessTypeInv'
    BY <1>1 DEF Axs!AssignGroup, AccessTypeInv
  <1>2. ASSUME NEW x \in Groups, NEW u \in Guides, Axs!AssignGuide(x, u) PROVE AccessTypeInv'
    BY <1>2 DEF Axs!AssignGuide, AccessTypeInv
  <1>3. ASSUME UNCHANGED <<placed, joined, ledBy, dispute>> PROVE AccessTypeInv'
    BY <1>3 DEF AccessTypeInv
  <1>4. ASSUME NEW from, NEW to \in {"open", "resolved", "escalated", "closed"},
               Axs!DisputeMoves(from, to)
        PROVE  AccessTypeInv'
    BY <1>4 DEF Axs!DisputeMoves, AccessTypeInv
  <1>5. \/ \E x \in Groups : Axs!AssignGroup(x) \/ \E u \in Guides : Axs!AssignGuide(x, u)
        \/ UNCHANGED <<placed, joined, ledBy, dispute>>
        \/ \E from, to \in {"none", "open", "resolved", "escalated", "closed"} :
             to # "none" /\ Axs!DisputeMoves(from, to)
    BY DEF Axs!Next, Axs!vars, Axs!SetActive, Axs!Cancel, Axs!JoinRead, Axs!Join, Axs!Disconnect
  <1> QED
    BY <1>1, <1>2, <1>3, <1>4, <1>5

LEMMA AccessHolds == TravelSpec => []AccessTypeInv
  <1>1. TravelInit => AccessTypeInv
    BY DEF TravelInit, Axs!Init, AccessTypeInv
  <1>2. AccessTypeInv /\ [TravelNext]_travelVars => AccessTypeInv'
    BY NextAccess, StepsOfParts
  <1> QED
    BY <1>1, <1>2, PTL DEF TravelSpec

\* Each user has one role.
LEMMA RolesOfUsers ==
  ASSUME NEW u \in Axs!Users
  PROVE  /\ Axs!Role(u) = "pilgrim" <=> u \in Pilgrims
         /\ Axs!Role(u) = "agency" <=> u \in Owners
         /\ Axs!Role(u) = "guide" <=> u \in Guides
         /\ Axs!Role(u) = "admin" <=> u \in Admins
         /\ Axs!Role(u) \in Axs!Everyone
         /\ u \in Pilgrims \/ u \in Owners \/ u \in Guides \/ u \in Admins
         /\ Pilgrim \in Pilgrims /\ Owner \in Owners /\ Pilgrim # Owner
         /\ Pilgrim \notin Owners \union Guides \union Admins
         /\ Owner \notin Pilgrims \union Guides \union Admins
  <1> USE TravelAssumption DEF Axs!Users, Axs!Role, Axs!Everyone
  <1>1. u \in Pilgrims \/ u \in Owners \/ u \in Guides \/ u \in Admins
    OBVIOUS
  <1>2. CASE u \in Pilgrims
    BY <1>2
  <1>3. CASE u \in Owners
    BY <1>3
  <1>4. CASE u \in Guides
    BY <1>4
  <1>5. CASE u \in Admins
    BY <1>5
  <1> QED
    BY <1>1, <1>2, <1>3, <1>4, <1>5

\* Those whom a dossier concerns.
Parties == Admins \union {Pilgrim, Owner}

LEMMA ReadersOfBooking ==
  ASSUME NEW u \in Axs!Users
  PROVE  /\ "read" \in Axs!May(u, Axs!BookingRoutes) <=> u \notin suspended /\ u \in Parties
         /\ "read" \in Axs!May(u, Axs!PaymentRoutes) <=> u \notin suspended /\ u \in Parties
  BY RolesOfUsers DEF Axs!May, Axs!BookingRoutes, Axs!PaymentRoutes, Axs!Route, Axs!BookingReaders,
     Axs!PaymentReaders, Parties

\* Every route of the dossier has a check that lets its parties through at most.
LEMMA DossierRoutes ==
  ASSUME NEW u \in Axs!Users \ Parties
  PROVE  /\ Axs!May(u, Axs!BookingRoutes) = {} /\ Axs!May(u, Axs!SummaryRoutes) = {}
         /\ Axs!May(u, Axs!BillingRoutes) = {} /\ Axs!May(u, Axs!PaymentRoutes) = {}
         /\ Axs!May(u, Axs!DocumentRoutes) = {} /\ Axs!May(u, Axs!ChecklistRoutes) = {}
         /\ Axs!May(u, Axs!OnCallRoutes) = {} /\ Axs!May(u, Axs!RoomRoutes) = {}
         /\ Axs!May(u, Axs!DisputeRoutes) = {}
  <1> USE DEF Axs!May, Axs!Route, Axs!Holder, Axs!AgencyOfBooking, Parties
  <1>1. Axs!May(u, Axs!BookingRoutes) = {}
    BY DEF Axs!BookingRoutes, Axs!BookingReaders
  <1>2. Axs!May(u, Axs!SummaryRoutes) = {}
    BY DEF Axs!SummaryRoutes, Axs!BookingReaders
  <1>3. Axs!May(u, Axs!BillingRoutes) = {}
    BY DEF Axs!BillingRoutes, Axs!BillingReaders
  <1>4. Axs!May(u, Axs!PaymentRoutes) = {}
    BY DEF Axs!PaymentRoutes, Axs!PaymentReaders
  <1>5. Axs!May(u, Axs!DocumentRoutes) = {}
    <2>1. u \notin Axs!DocumentReaders
      BY DEF Axs!DocumentReaders
    <2> QED
      BY <2>1 DEF Axs!DocumentRoutes
  <1>6. Axs!May(u, Axs!ChecklistRoutes) = {}
    BY DEF Axs!ChecklistRoutes
  <1>7. Axs!May(u, Axs!OnCallRoutes) = {}
    BY DEF Axs!OnCallRoutes
  <1>8. Axs!May(u, Axs!RoomRoutes) = {}
    BY DEF Axs!RoomRoutes
  <1>9. Axs!May(u, Axs!DisputeRoutes) = {}
    BY DEF Axs!DisputeRoutes, Axs!DisputeReaders
  <1> QED
    BY <1>1, <1>2, <1>3, <1>4, <1>5, <1>6, <1>7, <1>8, <1>9

LEMMA DossierIsConfined == AccessTypeInv => Axs!DossierStaysAmongParties
  <1> SUFFICES ASSUME AccessTypeInv
               PROVE  Axs!DossierStaysAmongParties
    OBVIOUS
  <1> DEFINE readers == {u \in Axs!Users : "read" \in Axs!May(u, Axs!BookingRoutes)}
  <1>1. ASSUME NEW u \in Axs!Users \ readers
        PROVE  u \in suspended \/ u \notin Parties
    BY ReadersOfBooking
  <1>s. ASSUME NEW u \in suspended, NEW routes PROVE Axs!May(u, routes) = {}
    BY DEF Axs!May
  <1>2. ASSUME NEW u \in Axs!Users \ readers,
               NEW routes \in {Axs!BookingRoutes, Axs!SummaryRoutes, Axs!BillingRoutes,
                               Axs!PaymentRoutes, Axs!DocumentRoutes, Axs!ChecklistRoutes,
                               Axs!OnCallRoutes, Axs!RoomRoutes, Axs!DisputeRoutes}
        PROVE  Axs!May(u, routes) = {}
    <2>1. CASE u \in suspended
      BY <2>1, <1>s
    <2>2. CASE u \notin Parties
      <3>1. u \in Axs!Users \ Parties
        BY <2>2
      <3> QED
        BY <3>1, DossierRoutes, Zenon
    <2> QED
      BY <2>1, <2>2, <1>1
  <1>3. ASSUME NEW ch \in {"agency", "guide"}, NEW u \in Axs!Users \ {Pilgrim, Owner},
               Axs!May(u, Axs!ThreadRoutes(ch)) # {}
        PROVE  \E x \in joined : u = ledBy[x]
    <2>1. u \in Axs!ThreadReaders(ch)
      BY <1>3 DEF Axs!May, Axs!ThreadRoutes, Axs!Route
    <2>2. placed # None /\ u = ledBy[placed]
      BY <2>1 DEF Axs!ThreadReaders
    <2> QED
      BY <2>2 DEF AccessTypeInv
  <1>4. ASSUME NEW x \in Groups, NEW u \in Axs!Users \ readers,
               Axs!May(u, Axs!GroupRoutes(x)) \union Axs!May(u, Axs!CommunityRoutes(x)) # {}
        PROVE  u = ledBy[x]
    <2>1. u \notin Parties
      BY <1>4, <1>1, <1>s
    <2>2. CASE Axs!May(u, Axs!GroupRoutes(x)) # {}
      <3>1. u \in Axs!GroupReaders(x) \/ u \in Axs!RosterReaders(x) \/ u = Owner
            \/ u \in Axs!Members(x) \union Axs!GuidesOf(x)
        BY <2>2 DEF Axs!May, Axs!GroupRoutes, Axs!Route, Axs!AgencyOfBooking
      <3> QED
        BY <3>1, <2>1 DEF Axs!GroupReaders, Axs!RosterReaders, Axs!Members, Axs!GuidesOf,
                          Axs!AgencyOfBooking, Parties
    <2>3. CASE Axs!May(u, Axs!CommunityRoutes(x)) # {}
      <3>1. u \in Axs!GroupReaders(x)
        BY <2>3 DEF Axs!May, Axs!CommunityRoutes, Axs!Route
      <3> QED
        BY <3>1, <2>1 DEF Axs!GroupReaders, Axs!Members, Axs!GuidesOf, Axs!AgencyOfBooking, Parties
    <2> QED
      BY <1>4, <2>2, <2>3
  <1> QED
    BY <1>2, <1>3, <1>4 DEF Axs!DossierStaysAmongParties

LEMMA ListsAgree == AccessTypeInv => Axs!ListsMatchAccess
  <1> SUFFICES ASSUME AccessTypeInv, NEW u \in Axs!Users \ suspended
               PROVE  /\ u \notin Admins =>
                           /\ Axs!ListedBooking(u) <=> "read" \in Axs!May(u, Axs!BookingRoutes)
                           /\ Axs!ListedPayment(u) <=> "read" \in Axs!May(u, Axs!PaymentRoutes)
                           /\ \A x \in Groups :
                                Axs!ListedGroup(u, x) <=> "read" \in Axs!May(u, Axs!GroupRoutes(x))
                      /\ Axs!ListedDispute(u) <=> "read" \in Axs!May(u, Axs!DisputeRoutes)
    BY DEF Axs!ListsMatchAccess
  <1>1. Axs!ListedBooking(u) <=> u \in {Pilgrim, Owner}
    BY RolesOfUsers DEF Axs!ListedBooking, Axs!Holder
  <1>2. ASSUME u \notin Admins
        PROVE  /\ Axs!ListedBooking(u) <=> "read" \in Axs!May(u, Axs!BookingRoutes)
               /\ Axs!ListedPayment(u) <=> "read" \in Axs!May(u, Axs!PaymentRoutes)
    BY <1>1, <1>2, ReadersOfBooking DEF Axs!ListedPayment, Parties
  <1>3. ASSUME u \notin Admins, NEW x \in Groups
        PROVE  Axs!ListedGroup(u, x) <=> "read" \in Axs!May(u, Axs!GroupRoutes(x))
    <2>1. "read" \in Axs!May(u, Axs!GroupRoutes(x)) <=> u \in Axs!GroupReaders(x)
      BY RolesOfUsers DEF Axs!May, Axs!GroupRoutes, Axs!Route
    <2>2. u \in Axs!GroupReaders(x) <=>
            u \in Axs!Members(x) \/ u \in Axs!GuidesOf(x) \/ u = Owner
      BY <1>3 DEF Axs!GroupReaders, Axs!AgencyOfBooking
    <2>3. u \in Axs!Members(x) => u \in Pilgrims
      BY RolesOfUsers DEF Axs!Members
    <2>4. u \in Axs!GuidesOf(x) => u \in Guides
      BY DEF Axs!GuidesOf, AccessTypeInv
    <2>5. u = Owner => u \in Owners
      BY RolesOfUsers
    <2> QED
      BY <2>1, <2>2, <2>3, <2>4, <2>5, RolesOfUsers DEF Axs!ListedGroup
  <1>4. Axs!ListedDispute(u) <=> "read" \in Axs!May(u, Axs!DisputeRoutes)
    <2>1. "read" \in Axs!May(u, Axs!DisputeRoutes) <=>
            Axs!Role(u) \in {"pilgrim", "agency", "admin"} /\ u \in Axs!DisputeReaders
      BY DEF Axs!May, Axs!DisputeRoutes, Axs!Route
    <2>2. CASE u \in Pilgrims
      <3>1. Axs!Role(u) = "pilgrim" /\ u \notin Admins /\ u # Owner
        BY <2>2, RolesOfUsers
      <3> QED
        BY <2>1, <3>1 DEF Axs!ListedDispute, Axs!DisputeReaders
    <2>3. CASE u \in Owners
      <3>1. Axs!Role(u) = "agency" /\ u \notin Admins /\ u # Pilgrim
        BY <2>3, RolesOfUsers
      <3> QED
        BY <2>1, <3>1 DEF Axs!ListedDispute, Axs!DisputeReaders
    <2>4. CASE u \in Guides
      <3>1. Axs!Role(u) = "guide"
        BY <2>4, RolesOfUsers
      <3> QED
        BY <2>1, <3>1 DEF Axs!ListedDispute
    <2>5. CASE u \in Admins
      <3>1. Axs!Role(u) = "admin" /\ u # Pilgrim /\ u # Owner
        BY <2>5, RolesOfUsers
      <3> QED
        BY <2>1, <2>5, <3>1 DEF Axs!ListedDispute, Axs!DisputeReaders, Axs!VisiblesAdmin
    <2> QED
      BY <2>2, <2>3, <2>4, <2>5, RolesOfUsers
  <1> QED
    BY <1>2, <1>3, <1>4

LEMMA ContactsAgree == AccessTypeInv => Axs!ContactsAreInCharge
  <1> SUFFICES ASSUME AccessTypeInv, ~cancelled
               PROVE  Axs!Contacts =
                        (Axs!ThreadReaders("agency") \union Axs!ThreadReaders("guide")) \ {Pilgrim}
    BY DEF Axs!ContactsAreInCharge
  <1>1. Owner # Pilgrim /\ \A u \in Guides : u # Pilgrim
    BY TravelAssumption
  <1>2. CASE placed = None
    BY <1>1, <1>2 DEF Axs!Contacts, Axs!ThreadReaders
  <1>3. CASE placed # None
    <2>1. ledBy[placed] \in Guides \union {None}
      BY <1>3 DEF AccessTypeInv
    <2> QED
      BY <1>1, <1>3, <2>1 DEF Axs!Contacts, Axs!ThreadReaders, Axs!GuidesOf
  <1> QED
    BY <1>2, <1>3

LEMMA DutiesAgree == Axs!DutiesAreSeparate
  <1> USE DEF Axs!May, Axs!Route
  <1>1. ASSUME NEW u \in Axs!Users \ Admins
        PROVE  /\ ~({"upload", "decide"} \subseteq Axs!May(u, Axs!DocumentRoutes))
               /\ ~({"prove", "approve"} \subseteq Axs!May(u, Axs!AgencyRoutes))
               /\ ~({"propose", "validate"} \subseteq Axs!May(u, Axs!QuizRoutes))
               /\ "decide" \notin Axs!May(u, Axs!DisputeRoutes)
    <2>1. Axs!Role(u) # "admin" /\ ~(Axs!Role(u) = "pilgrim" /\ Axs!Role(u) = "agency")
      BY RolesOfUsers
    <2>2. ~({"upload", "decide"} \subseteq Axs!May(u, Axs!DocumentRoutes))
      BY <2>1 DEF Axs!DocumentRoutes
    <2>3. "approve" \notin Axs!May(u, Axs!AgencyRoutes)
      BY <2>1 DEF Axs!AgencyRoutes
    <2>4. "validate" \notin Axs!May(u, Axs!QuizRoutes)
      BY <2>1 DEF Axs!QuizRoutes
    <2>5. "decide" \notin Axs!May(u, Axs!DisputeRoutes)
      BY <2>1 DEF Axs!DisputeRoutes
    <2> QED
      BY <2>2, <2>3, <2>4, <2>5
  <1>2. ASSUME NEW u \in Axs!Users \ Admins, "write" \in Axs!May(u, Axs!ReviewRoutes)
        PROVE  /\ "offer" \notin Axs!May(u, Axs!PackageRoutes)
               /\ "replace" \notin Axs!May(u, Axs!TermsRoutes)
               /\ "mine" \notin Axs!May(u, Axs!PlanningRoutes)
    <2>1. Axs!Role(u) = "pilgrim"
      BY <1>2 DEF Axs!ReviewRoutes
    <2> QED
      BY <2>1 DEF Axs!PackageRoutes, Axs!TermsRoutes, Axs!PlanningRoutes
  <1>3. ASSUME NEW u \in (Axs!Users \ Admins) \union suspended,
               NEW routes \in {Axs!SheetRoutes, Axs!CourseRoutes, Axs!EmergencyRoutes,
                               Axs!UserRoutes, Axs!AuditRoutes},
               NEW op \in {"edit", "validate", "suspend", "read"}
        PROVE  op \notin Axs!May(u, routes)
    <2>1. CASE u \in suspended
      BY <2>1
    <2>2. CASE u \notin suspended
      <3>1. Axs!Role(u) # "admin"
        BY <2>2, RolesOfUsers
      <3>2. op \in DOMAIN routes => routes[op].roles = {"admin"}
        BY <1>3 DEF Axs!SheetRoutes, Axs!CourseRoutes, Axs!EmergencyRoutes, Axs!UserRoutes,
                    Axs!AuditRoutes
      <3> QED
        BY <3>1, <3>2
    <2> QED
      BY <2>1, <2>2
  <1>4. ASSUME NEW u \in (Axs!Users \ Admins) \union suspended,
               NEW routes \in {Axs!SheetRoutes, Axs!CourseRoutes, Axs!EmergencyRoutes,
                               Axs!UserRoutes, Axs!AuditRoutes}
        PROVE  Axs!May(u, routes) \intersect {"edit", "validate", "suspend", "read"} = {}
    <2>1. \A op \in {"edit", "validate", "suspend", "read"} : op \notin Axs!May(u, routes)
      BY <1>3, Zenon
    <2> QED
      BY <2>1, Zenon
  <1> QED
    BY <1>1, <1>2, <1>4, Zenon DEF Axs!DutiesAreSeparate

\* The checks that the services make, each in its own terms, agree in every state of the
\* dossier on its parties, its lists, its contacts and the duties of each role.
THEOREM AccessAlwaysAgrees == TravelSpec => []AccessIsConsistent
  <1>1. AccessTypeInv => AccessIsConsistent
    BY DossierIsConfined, ListsAgree, ContactsAgree, DutiesAgree
       DEF AccessIsConsistent, Axs!AccessIsConsistent
  <1> QED
    BY <1>1, AccessHolds, PTL

-----------------------------------------------------------------------------
(* Messaging *)

Message == [channel : Mes!Channels, sender : Mes!Users, to : Mes!Users, read : BOOLEAN,
            opened : SUBSET Mes!Users]
MessageSlot == [pc : {"idle"}, channel : Mes!Channels, user : {None}, to : {None}]
                 \union [pc : {"send", "mark"}, channel : Mes!Channels, user : Mes!Users,
                         to : Mes!Users]

MessagingTypeInv ==
  /\ guide \in Guides \union {None} /\ takenOver \in BOOLEAN
  /\ messages \in Seq(Message)
  /\ messageReq \in [Requests -> MessageSlot]

\* One of a and b is the pilgrim, the other one who takes part in the thread as well.
Between(ch, a, b) ==
  Mes!Resolved(ch) /\ \/ a = Pilgrim /\ b = Mes!Other(ch)
                      \/ b = Pilgrim /\ a = Mes!Other(ch)

\* As long as the guide has not changed, a message and a request are between the two
\* participants that the booking has now.
BetweenParticipants ==
  ~takenOver =>
    /\ \A i \in DOMAIN messages :
         Between(messages[i].channel, messages[i].sender, messages[i].to)
    /\ \A r \in Requests : messageReq[r].pc # "idle" =>
         Between(messageReq[r].channel, messageReq[r].user, messageReq[r].to)

MessagingInv == MessagingTypeInv /\ BetweenParticipants /\ Mes!ReadMeansOpened

LEMMA IdleMessageSlot == Mes!Idle \in MessageSlot /\ Mes!Idle.pc = "idle"
  BY DEF Mes!Idle, MessageSlot, Mes!Channels

\* A request that checks the access finds the two participants.
LEMMA BeginMessaging ==
  ASSUME MessagingInv, NEW r \in Requests, NEW pc \in {"send", "mark"}, NEW ch \in Mes!Channels,
         NEW u \in Mes!Users, Mes!CanOpen(u, ch), Mes!Begin(r, pc, ch, u)
  PROVE  MessagingInv'
  <1> DEFINE to == IF u = Pilgrim THEN Mes!Other(ch) ELSE Pilgrim
             slot == [pc |-> pc, channel |-> ch, user |-> u, to |-> to]
  <1>1. Mes!Resolved(ch) /\ u \in {Pilgrim, Mes!Other(ch)} /\ Mes!Other(ch) \in Mes!Users
    BY DEF Mes!CanOpen, Mes!Participant, Mes!Resolved, Mes!Other, Mes!Users, MessagingInv,
           MessagingTypeInv
  <1>2. Between(ch, u, to) /\ to \in Mes!Users
    BY <1>1 DEF Between, Mes!Users
  <1> HIDE DEF to
  <1>3. slot \in MessageSlot /\ slot.channel = ch /\ slot.user = u /\ slot.to = to
    BY <1>2 DEF MessageSlot
  <1>4. /\ messageReq' = [messageReq EXCEPT ![r] = slot]
        /\ UNCHANGED <<guide, threads, messages, takenOver>>
    BY DEF Mes!Begin, to
  <1> HIDE DEF slot
  <1>5. MessagingTypeInv'
    BY <1>3, <1>4 DEF MessagingInv, MessagingTypeInv
  <1>6. BetweenParticipants'
    BY <1>2, <1>3, <1>4 DEF MessagingInv, MessagingTypeInv, BetweenParticipants, Between,
                            Mes!Resolved, Mes!Other
  <1>7. Mes!ReadMeansOpened'
    BY <1>4 DEF MessagingInv, Mes!ReadMeansOpened
  <1> QED
    BY <1>5, <1>6, <1>7 DEF MessagingInv

LEMMA AssignGuideKeepsThreads ==
  ASSUME MessagingInv, NEW u \in Guides \union {None}, Mes!AssignGuide(u)
  PROVE  MessagingInv'
  <1>1. /\ guide' = u /\ UNCHANGED <<threads, messages, messageReq>>
    BY DEF Mes!AssignGuide
  <1>2. takenOver' \in BOOLEAN /\ (~takenOver' => ~takenOver /\ guide = None)
    <2>1. takenOver' = (takenOver \/ guide # None)
      BY DEF Mes!AssignGuide
    <2> QED
      BY <2>1, Zenon DEF MessagingInv, MessagingTypeInv
  <1>3. MessagingTypeInv'
    BY <1>1, <1>2 DEF MessagingInv, MessagingTypeInv
  <1>4. ASSUME NEW ch, NEW a, NEW b, guide = None, Between(ch, a, b)
        PROVE  Between(ch, a, b)'
    BY <1>4 DEF Between, Mes!Resolved, Mes!Other
  <1>5. BetweenParticipants'
    BY <1>1, <1>2, <1>4 DEF MessagingInv, BetweenParticipants
  <1>6. Mes!ReadMeansOpened'
    <2>1. takenOver => takenOver'
      BY DEF Mes!AssignGuide
    <2> QED
      BY <1>1, <2>1 DEF MessagingInv, Mes!ReadMeansOpened
  <1> QED
    BY <1>3, <1>5, <1>6 DEF MessagingInv

LEMMA SendKeepsThreads ==
  ASSUME MessagingInv, NEW r \in Requests, Mes!SendWrite(r)
  PROVE  MessagingInv'
  <1> DEFINE m == [channel |-> messageReq[r].channel, sender |-> messageReq[r].user,
                   to |-> messageReq[r].to, read |-> FALSE, opened |-> {}]
  <1>1. /\ messageReq[r].pc = "send" /\ messageReq[r] \in MessageSlot
        /\ messages' = Append(messages, m) /\ messages \in Seq(Message)
        /\ messageReq' = [messageReq EXCEPT ![r] = Mes!Idle]
        /\ UNCHANGED <<guide, threads, takenOver>>
    BY DEF Mes!SendWrite, MessagingInv, MessagingTypeInv
  <1>2. /\ m.channel = messageReq[r].channel /\ m.sender = messageReq[r].user
        /\ m.to = messageReq[r].to /\ m.read = FALSE
    OBVIOUS
  <1>3. m \in Message
    BY <1>1 DEF Message, MessageSlot
  <1> HIDE DEF m
  <1>4. /\ messages' \in Seq(Message) /\ DOMAIN messages' = 1..(Len(messages) + 1)
        /\ DOMAIN messages = 1..Len(messages) /\ Len(messages) \in Nat
        /\ \A i \in DOMAIN messages : messages'[i] = messages[i]
        /\ messages'[Len(messages) + 1] = m
    BY <1>1, <1>3
  <1>5. MessagingTypeInv'
    BY <1>1, <1>4, IdleMessageSlot DEF MessagingInv, MessagingTypeInv
  <1>6. ASSUME NEW i \in DOMAIN messages'
        PROVE  \/ i \in DOMAIN messages /\ messages'[i] = messages[i]
               \/ messages'[i] = m
    BY <1>4
  <1>7. BetweenParticipants'
    <2> SUFFICES ASSUME ~takenOver
                 PROVE  /\ \A i \in DOMAIN messages' :
                             Between(messages'[i].channel, messages'[i].sender, messages'[i].to)
                        /\ \A q \in Requests : messageReq'[q].pc # "idle" =>
                             Between(messageReq'[q].channel, messageReq'[q].user, messageReq'[q].to)
      BY <1>1 DEF BetweenParticipants, Between, Mes!Resolved, Mes!Other
    <2>1. Between(m.channel, m.sender, m.to)
      BY <1>1, <1>2 DEF MessagingInv, BetweenParticipants
    <2>2. ASSUME NEW i \in DOMAIN messages'
          PROVE  Between(messages'[i].channel, messages'[i].sender, messages'[i].to)
      BY <1>6, <2>1 DEF MessagingInv, BetweenParticipants
    <2>3. ASSUME NEW q \in Requests, messageReq'[q].pc # "idle"
          PROVE  Between(messageReq'[q].channel, messageReq'[q].user, messageReq'[q].to)
      <3>1. messageReq'[q] = messageReq[q]
        BY <1>1, <2>3, IdleMessageSlot DEF MessagingInv, MessagingTypeInv
      <3> QED
        BY <2>3, <3>1 DEF MessagingInv, BetweenParticipants
    <2> QED
      BY <2>2, <2>3
  <1>8. Mes!ReadMeansOpened'
    BY <1>1, <1>2, <1>6 DEF MessagingInv, Mes!ReadMeansOpened
  <1> QED
    BY <1>5, <1>7, <1>8 DEF MessagingInv

\* What one message becomes.
LEMMA MarkedMessage ==
  ASSUME NEW m \in Message, NEW ch \in Mes!Channels, NEW u \in Mes!Users
  PROVE  /\ Mes!Marked(m, ch, u) \in Message
         /\ Mes!Marked(m, ch, u).channel = m.channel
         /\ Mes!Marked(m, ch, u).sender = m.sender /\ Mes!Marked(m, ch, u).to = m.to
         /\ m.opened \subseteq Mes!Marked(m, ch, u).opened
         /\ Mes!Marked(m, ch, u).read =>
              \/ m.read
              \/ m.channel = ch /\ m.sender # u /\ u \in Mes!Marked(m, ch, u).opened
  <1>1. CASE m.channel # ch
    BY <1>1 DEF Mes!Marked
  <1>2. CASE m.channel = ch
    <2> DEFINE w == [m EXCEPT !.opened = @ \union {u}, !.read = @ \/ m.sender # u]
    <2>1. Mes!Marked(m, ch, u) = w
      BY <1>2 DEF Mes!Marked
    <2>2. /\ w.channel = m.channel /\ w.sender = m.sender /\ w.to = m.to
          /\ w.opened = m.opened \union {u}
      BY DEF Message
    <2>3. w.read = (m.read \/ m.sender # u)
      BY Zenon DEF Message
    <2>4. m.read \in BOOLEAN
      BY DEF Message
    <2>5. w.read \in BOOLEAN /\ (w.read => m.read \/ m.sender # u)
      BY <2>3, <2>4, Zenon
    <2>6. PICK b \in BOOLEAN : w = [m EXCEPT !.opened = @ \union {u}, !.read = b]
      <3>1. (m.read \/ m.sender # u) \in BOOLEAN
        BY <2>4, Zenon
      <3> QED
        BY <3>1, Zenon
    <2> HIDE DEF w
    <2>7. w \in Message
      BY <2>6 DEF Message
    <2> QED
      BY <1>2, <2>1, <2>2, <2>5, <2>7
  <1> QED
    BY <1>1, <1>2

LEMMA MarkKeepsThreads ==
  ASSUME MessagingInv, NEW r \in Requests, Mes!MarkWrite(r)
  PROVE  MessagingInv'
  <1> DEFINE ch == messageReq[r].channel
             u == messageReq[r].user
  <1>1. /\ messageReq[r].pc = "mark" /\ messageReq[r] \in MessageSlot
        /\ messages' = [i \in DOMAIN messages |-> Mes!Marked(messages[i], ch, u)]
        /\ messages \in Seq(Message) /\ messageReq' = [messageReq EXCEPT ![r] = Mes!Idle]
        /\ UNCHANGED <<guide, threads, takenOver>>
    BY DEF Mes!MarkWrite, MessagingInv, MessagingTypeInv
  <1>2. ch \in Mes!Channels /\ u \in Mes!Users
    BY <1>1 DEF MessageSlot
  <1>3. ~takenOver => Between(ch, u, messageReq[r].to)
    BY <1>1 DEF MessagingInv, BetweenParticipants
  <1>4. \A i \in DOMAIN messages : messages[i] \in Message
    BY <1>1, ElementOfSeq, LenProperties
  <1> HIDE DEF ch, u
  <1>5. DOMAIN messages' = DOMAIN messages
    BY <1>1
  <1>6. ASSUME NEW i \in DOMAIN messages
        PROVE  /\ messages'[i] \in Message
               /\ messages'[i].channel = messages[i].channel
               /\ messages'[i].sender = messages[i].sender /\ messages'[i].to = messages[i].to
               /\ messages[i].opened \subseteq messages'[i].opened
               /\ messages'[i].read =>
                    \/ messages[i].read
                    \/ /\ messages[i].channel = ch /\ messages[i].sender # u
                       /\ u \in messages'[i].opened
    <2>1. messages'[i] = Mes!Marked(messages[i], ch, u)
      BY <1>1
    <2>2. messages[i] \in Message
      BY <1>4
    <2> QED
      BY <2>1, <2>2, <1>2, MarkedMessage
  <1>7. messages' \in Seq(Message)
    <2>1. DOMAIN messages = 1..Len(messages) /\ Len(messages) \in Nat
      BY <1>1, LenProperties
    <2>2. messages' \in [1..Len(messages) -> Message]
      BY <1>1, <1>5, <1>6, <2>1
    <2> QED
      BY <2>1, <2>2, SeqDef
  <1>8. MessagingTypeInv'
    BY <1>1, <1>7, IdleMessageSlot DEF MessagingInv, MessagingTypeInv
  <1>9. BetweenParticipants'
    <2>1. ASSUME NEW q \in Requests, messageReq'[q].pc # "idle"
          PROVE  messageReq'[q] = messageReq[q]
      BY <1>1, <2>1, IdleMessageSlot DEF MessagingInv, MessagingTypeInv
    <2>2. ASSUME ~takenOver, NEW i \in DOMAIN messages'
          PROVE  Between(messages'[i].channel, messages'[i].sender, messages'[i].to)
      BY <1>5, <1>6, <2>2 DEF MessagingInv, BetweenParticipants
    <2>3. ASSUME ~takenOver, NEW q \in Requests, messageReq'[q].pc # "idle"
          PROVE  Between(messageReq'[q].channel, messageReq'[q].user, messageReq'[q].to)
      BY <2>1, <2>3 DEF MessagingInv, BetweenParticipants
    <2> QED
      BY <1>1, <2>2, <2>3 DEF BetweenParticipants, Between, Mes!Resolved, Mes!Other
  <1>10. Mes!ReadMeansOpened'
    <2> SUFFICES ASSUME NEW i \in DOMAIN messages', messages'[i].read, ~takenOver
                 PROVE  messages'[i].to \in messages'[i].opened
      BY <1>1 DEF Mes!ReadMeansOpened
    <2>1. i \in DOMAIN messages
      BY <1>5
    <2>2. CASE messages[i].read
      BY <1>6, <2>1, <2>2 DEF MessagingInv, Mes!ReadMeansOpened
    <2>3. CASE /\ messages[i].channel = ch /\ messages[i].sender # u
               /\ u \in messages'[i].opened
      <3>1. Between(ch, messages[i].sender, messages[i].to)
        BY <2>1, <2>3 DEF MessagingInv, BetweenParticipants
      <3>2. messages[i].to = u
        BY <1>3, <2>3, <3>1 DEF Between
      <3> QED
        BY <1>6, <2>1, <2>3, <3>2
    <2> QED
      BY <1>6, <2>1, <2>2, <2>3
  <1> QED
    BY <1>8, <1>9, <1>10 DEF MessagingInv

LEMMA NextMessaging == MessagingInv /\ [Mes!Next]_(Mes!vars) => MessagingInv'
  <1> SUFFICES ASSUME MessagingInv, [Mes!Next]_(Mes!vars)
               PROVE  MessagingInv'
    OBVIOUS
  <1>1. ASSUME UNCHANGED <<guide, messages, takenOver, messageReq>> PROVE MessagingInv'
    BY <1>1 DEF MessagingInv, MessagingTypeInv, BetweenParticipants, Between, Mes!Resolved,
                Mes!Other, Mes!ReadMeansOpened
  <1>2. ASSUME NEW r \in Requests, NEW u \in Mes!Users, NEW ch \in Mes!Channels,
               Mes!SendRead(r, u, ch) \/ Mes!MarkRead(r, u, ch)
        PROVE  MessagingInv'
    BY <1>2, BeginMessaging DEF Mes!SendRead, Mes!MarkRead
  <1> QED
    BY <1>1, <1>2, AssignGuideKeepsThreads, SendKeepsThreads, MarkKeepsThreads
       DEF Mes!Next, Mes!vars, Mes!GetOrCreateConversation

LEMMA MessagingHolds == TravelSpec => []MessagingInv
  <1>1. TravelInit => MessagingInv
    <2> SUFFICES ASSUME Mes!Init
                 PROVE  MessagingInv
      BY DEF TravelInit
    <2>1. messages \in Seq(Message) /\ DOMAIN messages = {}
      BY EmptySeq DEF Mes!Init
    <2>2. MessagingTypeInv
      BY <2>1, IdleMessageSlot DEF Mes!Init, MessagingTypeInv
    <2> QED
      BY <2>1, <2>2, IdleMessageSlot
         DEF Mes!Init, MessagingInv, BetweenParticipants, Mes!ReadMeansOpened
  <1>2. MessagingInv /\ [TravelNext]_travelVars => MessagingInv'
    BY NextMessaging, StepsOfParts
  <1> QED
    BY <1>1, <1>2, PTL DEF TravelSpec

\* The query of the inbox and the check of a thread let the same users in, and a message
\* that counts as read was opened by the one it was sent to.
THEOREM ThreadsAlwaysReach == TravelSpec => []ThreadsReachTheirReaders
  <1>1. Mes!InboxMatchesAccess
    BY TravelAssumption DEF Mes!InboxMatchesAccess, Mes!Inbox, Mes!CanOpen, Mes!Participant,
       Mes!Resolved, Mes!Other, Mes!Channels, Mes!Users
  <1>2. MessagingInv => ThreadsReachTheirReaders
    BY <1>1 DEF MessagingInv, ThreadsReachTheirReaders, Mes!ThreadsReachTheirReaders
  <1> QED
    BY <1>2, MessagingHolds, PTL

-----------------------------------------------------------------------------
(* Planning of the guides *)

AssignSlot == [pc : {"groups", "absences", "write"}, group : Groups, guide : PlannedGuides,
               dates : Pla!Periods, late : BOOLEAN]

PlanningTypeInv ==
  /\ guideOf \in [Groups -> PlannedGuides \union {None}]
  /\ dates \in [Groups -> Pla!Periods]
  /\ assignReq \in [Requests -> AssignSlot \union {Pla!Idle}]

\* The guide of request r is free of every other group.
FreeFor(r) ==
  \A g \in Groups \ {assignReq[r].group} :
    guideOf[g] = assignReq[r].guide => ~Pla!Chevauche(dates[g], assignReq[r].dates)

\* A request that no change has overtaken knows the dates of its group and, once it has
\* looked at the groups, that its guide is free.
SeenIsTrue(r) ==
  assignReq[r].pc # "idle" /\ ~assignReq[r].late =>
    /\ assignReq[r].dates = dates[assignReq[r].group]
    /\ assignReq[r].pc # "groups" => FreeFor(r)

PlanningInv ==
  /\ PlanningTypeInv
  /\ \A r \in Requests : SeenIsTrue(r)
  /\ Pla!GuideLeadsOneGroup

\* Two periods with a day in common overlap by their ends, and conversely.
LEMMA SameDayOverlaps ==
  ASSUME NEW p \in Pla!Periods, NEW q \in Pla!Periods
  PROVE  Pla!SameDay(p, q) <=> Pla!Chevauche(p, q)
  <1>1. /\ p.start \in 1..LastDay /\ p.end \in 1..LastDay /\ p.start <= p.end
        /\ q.start \in 1..LastDay /\ q.end \in 1..LastDay /\ q.start <= q.end
    BY DEF Pla!Periods
  <1>2. ASSUME Pla!SameDay(p, q) PROVE Pla!Chevauche(p, q)
    BY <1>1, <1>2 DEF Pla!SameDay, Pla!Chevauche
  <1>3. ASSUME Pla!Chevauche(p, q) PROVE Pla!SameDay(p, q)
    <2>1. CASE p.start <= q.start
      <3>1. q.start \in p.start..p.end /\ q.start \in q.start..q.end
        BY <1>1, <1>3, <2>1 DEF Pla!Chevauche
      <3> QED
        BY <1>1, <3>1 DEF Pla!SameDay
    <2>2. CASE q.start <= p.start
      <3>1. p.start \in p.start..p.end /\ p.start \in q.start..q.end
        BY <1>1, <1>3, <2>2 DEF Pla!Chevauche
      <3> QED
        BY <1>1, <3>1 DEF Pla!SameDay
    <2> QED
      BY <1>1, <2>1, <2>2
  <1> QED
    BY <1>2, <1>3

LEMMA IdleAssignment == Pla!Idle.pc = "idle"
  BY DEF Pla!Idle

\* The steps of one request that only change this request.
LEMMA RequestMovesOn ==
  ASSUME PlanningInv, NEW r \in Requests, NEW slot \in AssignSlot \union {Pla!Idle},
         assignReq' = [assignReq EXCEPT ![r] = slot], UNCHANGED <<guideOf, dates, busy>>,
         slot.pc # "idle" /\ ~slot.late =>
           /\ slot.dates = dates[slot.group]
           /\ slot.pc # "groups" =>
                \A g \in Groups \ {slot.group} :
                  guideOf[g] = slot.guide => ~Pla!Chevauche(dates[g], slot.dates)
  PROVE  PlanningInv'
  <1>1. PlanningTypeInv'
    BY DEF PlanningInv, PlanningTypeInv
  <1>2. ASSUME NEW q \in Requests PROVE SeenIsTrue(q)'
    <2>1. CASE q = r
      <3>1. assignReq'[q] = slot
        BY <2>1 DEF PlanningInv, PlanningTypeInv
      <3> QED
        BY <3>1 DEF SeenIsTrue, FreeFor, Pla!Chevauche
    <2>2. CASE q # r
      <3>1. assignReq'[q] = assignReq[q] /\ SeenIsTrue(q)
        BY <2>2 DEF PlanningInv, PlanningTypeInv
      <3> QED
        BY <3>1 DEF SeenIsTrue, FreeFor, Pla!Chevauche
    <2> QED
      BY <2>1, <2>2
  <1>3. Pla!GuideLeadsOneGroup'
    BY DEF PlanningInv, Pla!GuideLeadsOneGroup, Pla!SameDay
  <1> QED
    BY <1>1, <1>2, <1>3 DEF PlanningInv

\* Whoever writes a group or its dates overtakes the requests in flight.
LEMMA OthersAreOvertaken ==
  ASSUME PlanningTypeInv, NEW r, assignReq' = Pla!Overtaken(r)
  PROVE  /\ assignReq' \in [Requests -> AssignSlot \union {Pla!Idle}]
         /\ \A q \in Requests : SeenIsTrue(q)'
  <1> SUFFICES ASSUME NEW q \in Requests
               PROVE  /\ assignReq'[q] \in AssignSlot \union {Pla!Idle}
                      /\ assignReq'[q].pc = "idle" \/ assignReq'[q].late
    BY DEF Pla!Overtaken, SeenIsTrue
  <1>1. assignReq'[q] = IF q = r \/ assignReq[q].pc = "idle" THEN Pla!Idle
                        ELSE [assignReq[q] EXCEPT !.late = TRUE]
    BY DEF Pla!Overtaken
  <1>2. CASE q = r \/ assignReq[q].pc = "idle"
    BY <1>1, <1>2, IdleAssignment
  <1>3. CASE ~(q = r \/ assignReq[q].pc = "idle")
    <2>1. assignReq[q] \in AssignSlot /\ assignReq'[q] = [assignReq[q] EXCEPT !.late = TRUE]
      BY <1>1, <1>3, IdleAssignment DEF PlanningTypeInv
    <2> QED
      BY <2>1 DEF AssignSlot
  <1> QED
    BY <1>2, <1>3

LEMMA AssignKeepsPlanning ==
  ASSUME PlanningInv, NEW r \in Requests, Pla!AssignWrite(r)
  PROVE  PlanningInv'
  <1> DEFINE x == assignReq[r].group
             u == assignReq[r].guide
  <1>1. /\ assignReq[r].pc = "write" /\ assignReq[r] \in AssignSlot
        /\ guideOf' = [guideOf EXCEPT ![x] = u] /\ dates' = dates
        /\ busy' = IF assignReq[r].late THEN busy \union {x} ELSE busy \ {x}
        /\ assignReq' = Pla!Overtaken(r)
    BY IdleAssignment DEF Pla!AssignWrite, PlanningInv, PlanningTypeInv
  <1>2. x \in Groups /\ u \in PlannedGuides
    BY <1>1 DEF AssignSlot
  <1>3. ~assignReq[r].late =>
          \A g \in Groups \ {x} : guideOf[g] = u => ~Pla!Chevauche(dates[g], dates[x])
    BY <1>1 DEF PlanningInv, SeenIsTrue, FreeFor
  <1> HIDE DEF x, u
  <1>4. PlanningTypeInv' /\ \A q \in Requests : SeenIsTrue(q)'
    BY <1>1, <1>2, OthersAreOvertaken DEF PlanningInv, PlanningTypeInv
  <1>5. ASSUME NEW g \in Groups \ {x}, guideOf[g] = u, ~assignReq[r].late
        PROVE  ~Pla!SameDay(dates[g], dates[x]) /\ ~Pla!SameDay(dates[x], dates[g])
    <2>1. dates[g] \in Pla!Periods /\ dates[x] \in Pla!Periods
      BY <1>2 DEF PlanningInv, PlanningTypeInv
    <2>2. ~Pla!Chevauche(dates[g], dates[x])
      BY <1>3, <1>5
    <2> QED
      BY <2>1, <2>2, SameDayOverlaps DEF Pla!Chevauche
  <1>6. Pla!GuideLeadsOneGroup'
    <2> SUFFICES ASSUME NEW g \in Groups, NEW h \in Groups, g # h, guideOf'[g] = guideOf'[h],
                        guideOf'[g] # None, Pla!SameDay(dates[g], dates[h])
                 PROVE  g \in busy' \/ h \in busy'
      BY <1>1 DEF Pla!GuideLeadsOneGroup, Pla!SameDay
    <2>1. \A k \in Groups : guideOf'[k] = IF k = x THEN u ELSE guideOf[k]
      BY <1>1, <1>2 DEF PlanningInv, PlanningTypeInv
    <2>2. CASE assignReq[r].late /\ (g = x \/ h = x)
      BY <1>1, <2>2
    <2>3. CASE ~assignReq[r].late /\ (g = x \/ h = x)
      BY <1>5, <2>1, <2>3
    <2>4. CASE g # x /\ h # x
      <3>1. guideOf[g] = guideOf[h] /\ guideOf[g] # None
        BY <2>1, <2>4
      <3>2. g \in busy \/ h \in busy
        BY <3>1 DEF PlanningInv, Pla!GuideLeadsOneGroup
      <3> QED
        BY <1>1, <2>4, <3>2
    <2> QED
      BY <2>2, <2>3, <2>4
  <1> QED
    BY <1>4, <1>6 DEF PlanningInv

LEMMA MoveKeepsPlanning ==
  ASSUME PlanningInv, NEW g \in Groups, NEW p \in Pla!Periods, Pla!MovePackage(g, p)
  PROVE  PlanningInv'
  <1>1. /\ dates' = [dates EXCEPT ![g] = p] /\ guideOf' = guideOf
        /\ busy' = busy \union {g} /\ assignReq' = Pla!Overtaken(None)
    BY DEF Pla!MovePackage
  <1>2. PlanningTypeInv' /\ \A q \in Requests : SeenIsTrue(q)'
    BY <1>1, OthersAreOvertaken DEF PlanningInv, PlanningTypeInv
  <1>3. Pla!GuideLeadsOneGroup'
    <2> SUFFICES ASSUME NEW k \in Groups, NEW h \in Groups, k # h, guideOf[k] = guideOf[h],
                        guideOf[k] # None, Pla!SameDay(dates'[k], dates'[h])
                 PROVE  k \in busy' \/ h \in busy'
      BY <1>1 DEF Pla!GuideLeadsOneGroup, Pla!SameDay
    <2>1. CASE k = g \/ h = g
      BY <1>1, <2>1
    <2>2. CASE k # g /\ h # g
      <3>1. dates'[k] = dates[k] /\ dates'[h] = dates[h]
        BY <1>1, <2>2 DEF PlanningInv, PlanningTypeInv
      <3>2. Pla!SameDay(dates[k], dates[h])
        BY <3>1
      <3> QED
        BY <1>1, <3>2 DEF PlanningInv, Pla!GuideLeadsOneGroup
    <2> QED
      BY <2>1, <2>2
  <1> QED
    BY <1>2, <1>3 DEF PlanningInv

LEMMA NextPlanning == PlanningInv /\ [Pla!Next]_(Pla!vars) => PlanningInv'
  <1> SUFFICES ASSUME PlanningInv, [Pla!Next]_(Pla!vars)
               PROVE  PlanningInv'
    OBVIOUS
  <1>1. ASSUME NEW r \in Requests, NEW g \in Groups, NEW u \in PlannedGuides,
               Pla!AssignRead(r, g, u)
        PROVE  PlanningInv'
    <2> DEFINE slot == [Pla!Idle EXCEPT !.pc = "groups", !.group = g, !.guide = u,
                                        !.dates = dates[g]]
    <2>0. Pla!Idle \in [pc : {"idle"}, group : {None}, guide : {None}, dates : {None}, late : BOOLEAN]
          /\ ~Pla!Idle.late
      BY DEF Pla!Idle
    <2>1. /\ slot.pc = "groups" /\ slot.group = g /\ slot.guide = u /\ slot.dates = dates[g]
          /\ slot \in [pc : {"groups"}, group : {g}, guide : {u}, dates : {dates[g]}, late : BOOLEAN]
      BY <2>0
    <2>2. dates[g] \in Pla!Periods
      BY DEF PlanningInv, PlanningTypeInv
    <2>3. assignReq' = [assignReq EXCEPT ![r] = slot] /\ UNCHANGED <<guideOf, dates, busy>>
      BY <1>1 DEF Pla!AssignRead
    <2> HIDE DEF slot
    <2>4. slot \in AssignSlot
      BY <2>1, <2>2 DEF AssignSlot
    <2> QED
      BY <2>1, <2>3, <2>4, RequestMovesOn
  <1>2. ASSUME NEW r \in Requests, Pla!FindGroup(r) \/ Pla!FindAbsence(r)
        PROVE  PlanningInv'
    <2> DEFINE next == IF assignReq[r].pc = "groups" THEN "absences" ELSE "write"
               moved == [assignReq[r] EXCEPT !.pc = next]
    <2>1. /\ assignReq[r].pc \in {"groups", "absences"} /\ assignReq[r] \in AssignSlot
          /\ UNCHANGED <<guideOf, dates, busy>>
      BY <1>2, IdleAssignment DEF Pla!FindGroup, Pla!FindAbsence, PlanningInv, PlanningTypeInv
    <2>2. \/ assignReq' = [assignReq EXCEPT ![r] = Pla!Idle]
          \/ /\ assignReq' = [assignReq EXCEPT ![r] = moved]
             /\ assignReq[r].pc = "groups" => ~Pla!Busy(r)
      BY <1>2, <2>1 DEF Pla!FindGroup, Pla!FindAbsence, PlanningInv, PlanningTypeInv
    <2>3. /\ moved \in AssignSlot /\ moved.group = assignReq[r].group
          /\ moved.guide = assignReq[r].guide /\ moved.dates = assignReq[r].dates
          /\ moved.late = assignReq[r].late
      BY <2>1 DEF AssignSlot
    <2> HIDE DEF moved
    <2>4. CASE assignReq' = [assignReq EXCEPT ![r] = Pla!Idle]
      BY <2>1, <2>4, IdleAssignment, RequestMovesOn
    <2>5. CASE /\ assignReq' = [assignReq EXCEPT ![r] = moved]
               /\ assignReq[r].pc = "groups" => ~Pla!Busy(r)
      <3>1. SeenIsTrue(r)
        BY DEF PlanningInv
      <3>2. ~moved.late => /\ moved.dates = dates[moved.group]
                           /\ \A g \in Groups \ {moved.group} :
                                guideOf[g] = moved.guide => ~Pla!Chevauche(dates[g], moved.dates)
        BY <2>1, <2>3, <2>5, <3>1 DEF SeenIsTrue, FreeFor, Pla!Busy
      <3> QED
        BY <2>1, <2>3, <2>5, <3>2, RequestMovesOn
    <2> QED
      BY <2>2, <2>4, <2>5
  <1>3. ASSUME UNCHANGED <<guideOf, dates, busy, assignReq>> PROVE PlanningInv'
    BY <1>3 DEF PlanningInv, PlanningTypeInv, SeenIsTrue, FreeFor, Pla!GuideLeadsOneGroup,
                Pla!SameDay, Pla!Chevauche
  <1> QED
    BY <1>1, <1>2, <1>3, AssignKeepsPlanning, MoveKeepsPlanning
       DEF Pla!Next, Pla!vars, Pla!AddUnavailability, Pla!DeleteUnavailability

LEMMA PlanningHolds == TravelSpec => []PlanningInv
  <1>1. TravelInit => PlanningInv
    <2> SUFFICES ASSUME Pla!Init
                 PROVE  PlanningInv
      BY DEF TravelInit
    <2>1. PlanningTypeInv
      BY DEF Pla!Init, PlanningTypeInv
    <2> QED
      BY <2>1, IdleAssignment DEF Pla!Init, PlanningInv, SeenIsTrue, Pla!GuideLeadsOneGroup
  <1>2. PlanningInv /\ [TravelNext]_travelVars => PlanningInv'
    BY NextPlanning, StepsOfParts
  <1> QED
    BY <1>1, <1>2, PTL DEF TravelSpec

-----------------------------------------------------------------------------
(* Conflicts in the schedule of a guide *)

AbsenceInv == absence \in [Absences -> [guide : PlannedGuides, dates : Pla!Periods] \union {None}]

LEMMA NextAbsence == AbsenceInv /\ [Pla!Next]_(Pla!vars) => AbsenceInv'
  <1> SUFFICES ASSUME AbsenceInv, [Pla!Next]_(Pla!vars)
               PROVE  AbsenceInv'
    OBVIOUS
  <1>1. ASSUME NEW a \in Absences, NEW u \in PlannedGuides, NEW p \in Pla!Periods,
               Pla!AddUnavailability(a, u, p)
        PROVE  AbsenceInv'
    BY <1>1 DEF Pla!AddUnavailability, AbsenceInv
  <1>2. ASSUME NEW a \in Absences, Pla!DeleteUnavailability(a)
        PROVE  AbsenceInv'
    BY <1>2 DEF Pla!DeleteUnavailability, AbsenceInv
  <1>3. CASE UNCHANGED absence
    BY <1>3 DEF AbsenceInv
  <1> QED
    BY <1>1, <1>2, <1>3
       DEF Pla!Next, Pla!vars, Pla!AssignRead, Pla!FindGroup, Pla!FindAbsence,
           Pla!AssignWrite, Pla!MovePackage

\* What the schedule of a guide is made of: finitely many periods, told apart by their
\* identifiers.
LEMMA EngagementsAreTold ==
  ASSUME PlanningTypeInv, AbsenceInv, NEW u \in PlannedGuides
  PROVE  /\ IsFiniteSet(Pla!Engagements(u))
         /\ \A e \in Pla!Engagements(u) : e.dates \in Pla!Periods
         /\ \A e, f \in Pla!Engagements(u) : e.id = f.id => e = f
  <1> DEFINE led == {g \in Groups : guideOf[g] = u}
             away == Pla!Declared(u)
             Led == {[id |-> g, dates |-> dates[g]] : g \in led}
             Away == {[id |-> a, dates |-> absence[a].dates] : a \in away}
  <1>1. Pla!Engagements(u) = Led \union Away
    BY DEF Pla!Engagements
  <1>2. IsFiniteSet(led) /\ IsFiniteSet(away)
    BY FS_Subset, TravelAssumption DEF Pla!Declared
  <1>3. IsFiniteSet(Led)
    <2> DEFINE f == [g \in led |-> [id |-> g, dates |-> dates[g]]]
    <2>1. f \in Surjection(led, Led)
      BY DEF Surjection
    <2> QED
      BY <1>2, <2>1, FS_Surjection
  <1>4. IsFiniteSet(Away)
    <2> DEFINE f == [a \in away |-> [id |-> a, dates |-> absence[a].dates]]
    <2>1. f \in Surjection(away, Away)
      BY DEF Surjection
    <2> QED
      BY <1>2, <2>1, FS_Surjection
  <1>5. \A g \in led : g \in Groups /\ dates[g] \in Pla!Periods
    BY DEF PlanningTypeInv
  <1>6. \A a \in away : a \in Absences /\ absence[a].dates \in Pla!Periods
    BY DEF Pla!Declared, AbsenceInv
  <1>7. IsFiniteSet(Led \union Away)
    BY <1>3, <1>4, FS_Union
  <1>8. \A e \in Led : e.id \in Groups /\ e.dates = dates[e.id] /\ e.dates \in Pla!Periods
                       /\ e = [id |-> e.id, dates |-> e.dates]
    BY <1>5
  <1>9. \A e \in Away : e.id \in Absences /\ e.dates = absence[e.id].dates
                        /\ e.dates \in Pla!Periods /\ e = [id |-> e.id, dates |-> e.dates]
    BY <1>6
  <1> HIDE DEF Led, Away
  <1>10. ASSUME NEW e \in Led \union Away, NEW f \in Led \union Away, e.id = f.id
         PROVE  e = f
    <2>1. \/ e \in Led /\ f \in Led
          \/ e \in Away /\ f \in Away
      BY <1>8, <1>9, <1>10, TravelAssumption
    <2>2. e.dates = f.dates
      BY <1>8, <1>9, <1>10, <2>1
    <2>3. e = [id |-> e.id, dates |-> e.dates] /\ f = [id |-> f.id, dates |-> f.dates]
      BY <1>8, <1>9
    <2> QED
      BY <1>10, <2>2, <2>3
  <1> QED
    BY <1>1, <1>7, <1>8, <1>9, <1>10

\* The list that is searched for conflicts holds every engagement once.
LEMMA ParDebutLists ==
  ASSUME NEW E, IsFiniteSet(E), \A e \in E : e.dates \in Pla!Periods
  PROVE  LET s == Pla!ParDebut(E)
         IN  /\ s \in [1..Cardinality(E) -> E] /\ Cardinality(E) \in Nat
             /\ Len(s) = Cardinality(E)
             /\ \A i, j \in 1..Cardinality(E) : i # j => s[i] # s[j]
             /\ \A e \in E : \E i \in 1..Cardinality(E) : s[i] = e
  <1> DEFINE n == Cardinality(E)
             Order(s) == \A i, j \in DOMAIN s : i < j => s[i].dates.start <= s[j].dates.start
             f == [e \in E |-> e.dates.start]
             l == Pla!ParDebut(E)
  <1>1. f \in [E -> Nat]
    BY DEF Pla!Periods
  <1>2. Pla!SetToSeqs(E) = Lists(E)
    <2>1. Pla!Cardinality(E) = Cardinality(E)
      BY DEF Pla!Cardinality, Cardinality
    <2> QED
      BY <2>1 DEF Pla!SetToSeqs, Lists
  <1>3. \E s \in Pla!SetToSeqs(E) : Order(s)
    <2> HIDE DEF f
    <2>1. PICK s \in Lists(E) : \A i, j \in DOMAIN s : i < j => f[s[i]] <= f[s[j]]
      BY <1>1, ListsOfSet
    <2>2. \A i \in DOMAIN s : f[s[i]] = s[i].dates.start
      BY <2>1 DEF f, Lists
    <2> QED
      BY <1>2, <2>1, <2>2
  <1>4. l = CHOOSE s \in Pla!SetToSeqs(E) : Order(s)
    BY DEF Pla!ParDebut
  <1> HIDE DEF Order, l
  <1>5. l \in Lists(E)
    BY <1>2, <1>3, <1>4
  <1>6. /\ n \in Nat /\ Len(l) = n
        /\ \A e \in E : \E i \in 1..n : l[i] = e
    <2> HIDE DEF f
    <2> QED
      BY <1>1, <1>5, ListsOfSet
  <1>7. l \in [1..n -> E] /\ \A i, j \in 1..n : i # j => l[i] # l[j]
    BY <1>5 DEF Lists
  <1> QED
    BY <1>6, <1>7 DEF l

\* Searching the list in pairs finds exactly the pairs of engagements with a day in common.
LEMMA ConflictsAreExact ==
  ASSUME PlanningTypeInv, AbsenceInv
  PROVE  Pla!ScheduleShowsConflicts
  <1> SUFFICES ASSUME NEW u \in PlannedGuides
               PROVE  Pla!Conflits(Pla!Entries(u, [start |-> 1, end |-> LastDay])) =
                        {{pair[1].id, pair[2].id} : pair \in
                           {p \in Pla!Engagements(u) \X Pla!Engagements(u) :
                              p[1].id # p[2].id /\ Pla!SameDay(p[1].dates, p[2].dates)}}
    BY DEF Pla!ScheduleShowsConflicts
  <1> DEFINE E == Pla!Engagements(u)
             window == [start |-> 1, end |-> LastDay]
             n == Cardinality(E)
             s == Pla!ParDebut(E)
             Pairs == {p \in E \X E : p[1].id # p[2].id /\ Pla!SameDay(p[1].dates, p[2].dates)}
             Met(i, j) == Pla!Chevauche(s[i].dates, s[j].dates)
  <1>1. /\ IsFiniteSet(E) /\ \A e \in E : e.dates \in Pla!Periods
        /\ \A e, f \in E : e.id = f.id => e = f
    BY EngagementsAreTold
  <1>2. Pla!Entries(u, window) = E
    <2>1. \A e \in E : Pla!Chevauche(e.dates, window)
      BY <1>1, TravelAssumption DEF Pla!Chevauche, Pla!Periods
    <2> QED
      BY <2>1 DEF Pla!Entries
  <1> HIDE DEF E
  <1>3. /\ s \in [1..n -> E] /\ n \in Nat /\ Len(s) = n
        /\ \A i, j \in 1..n : i # j => s[i] # s[j]
        /\ \A e \in E : \E i \in 1..n : s[i] = e
    BY <1>1, ParDebutLists
  <1>4. Pla!Conflits(E) =
          UNION {{{s[i].id, s[j].id} : j \in {k \in i + 1 .. n : Met(i, k)}} : i \in 1..n}
    BY <1>3 DEF Pla!Conflits
  <1> HIDE DEF s
  <1>5. \A i, j \in 1..n : Met(i, j) <=> Pla!SameDay(s[i].dates, s[j].dates)
    BY <1>1, <1>3, SameDayOverlaps
  <1>6. \A i, j \in 1..n : Met(i, j) <=> Met(j, i)
    BY DEF Pla!Chevauche
  <1> HIDE DEF Met
  <1>7. ASSUME NEW c \in Pla!Conflits(E)
        PROVE  \E p \in Pairs : c = {p[1].id, p[2].id}
    <2>0. PICK i \in 1..n : \E j \in i + 1 .. n : Met(i, j) /\ c = {s[i].id, s[j].id}
      BY <1>4
    <2>1. PICK j \in i + 1 .. n : Met(i, j) /\ c = {s[i].id, s[j].id}
      BY <2>0
    <2>2. j \in 1..n /\ i # j
      BY <1>3, <2>1
    <2>3. s[i] \in E /\ s[j] \in E /\ s[i] # s[j]
      BY <1>3, <2>2
    <2>4. s[i].id # s[j].id /\ Pla!SameDay(s[i].dates, s[j].dates)
      BY <1>1, <1>5, <2>1, <2>2, <2>3
    <2>5. <<s[i], s[j]>> \in Pairs
      BY <2>3, <2>4
    <2> QED
      BY <2>1, <2>5
  <1>8. ASSUME NEW p \in Pairs
        PROVE  {p[1].id, p[2].id} \in Pla!Conflits(E)
    <2>1. p[1] \in E /\ p[2] \in E /\ p[1] # p[2] /\ Pla!SameDay(p[1].dates, p[2].dates)
      OBVIOUS
    <2>2. PICK i \in 1..n, j \in 1..n : s[i] = p[1] /\ s[j] = p[2]
      BY <1>3, <2>1
    <2>3. i # j /\ Met(i, j) /\ Met(j, i)
      BY <1>5, <1>6, <2>1, <2>2
    <2>4. CASE i < j
      <3>1. j \in i + 1 .. n
        BY <1>3, <2>4
      <3> QED
        BY <1>4, <2>2, <2>3, <3>1
    <2>5. CASE j < i
      <3>1. i \in j + 1 .. n
        BY <1>3, <2>5
      <3>2. {s[j].id, s[i].id} \in Pla!Conflits(E)
        BY <1>4, <2>3, <3>1
      <3> QED
        BY <2>2, <3>2
    <2> QED
      BY <1>3, <2>3, <2>4, <2>5
  <1>9. Pla!Conflits(E) = {{pair[1].id, pair[2].id} : pair \in Pairs}
    <2> HIDE DEF Pairs
    <2> QED
      BY <1>7, <1>8
  <1> QED
    BY <1>2, <1>9 DEF E

\* A guide leads two groups on one day only if an assignment overlapped a change of what
\* it had read, or the dates of a package were moved under it; and whatever the cause, the
\* schedule shows exactly the pairs of engagements that have a day in common.
THEOREM GuidesAlwaysFree == TravelSpec => []GuidesAreFree
  <1>1. TravelInit => AbsenceInv
    BY DEF TravelInit, Pla!Init, AbsenceInv
  <1>2. AbsenceInv /\ [TravelNext]_travelVars => AbsenceInv'
    BY NextAbsence, StepsOfParts
  <1>3. PlanningInv /\ AbsenceInv => GuidesAreFree
    BY ConflictsAreExact DEF PlanningInv, GuidesAreFree
  <1> QED
    BY <1>1, <1>2, <1>3, PlanningHolds, PTL DEF TravelSpec

-----------------------------------------------------------------------------
(* Shifts on call *)

\* A shift that exists and one that a request is about to write have valid dates.
ShiftsInv ==
  /\ shift \in [Shifts -> [dates : Onc!Periods, ours : BOOLEAN] \union {None}]
  /\ shiftReq \in [Requests -> {Onc!Idle} \union
                     [pc : {"update"}, id : Shifts, dates : {p \in Onc!Periods : Onc!Valid(p)}]]
  /\ Onc!ShiftsAreValid

LEMMA NextShifts == ShiftsInv /\ [Onc!Next]_(Onc!vars) => ShiftsInv'
  <1> SUFFICES ASSUME ShiftsInv, [Onc!Next]_(Onc!vars)
               PROVE  ShiftsInv'
    OBVIOUS
  <1> USE DEF ShiftsInv, Onc!ShiftsAreValid, Onc!Existing
  <1>1. ASSUME NEW s \in Shifts, NEW p \in Onc!Periods, NEW ours \in BOOLEAN,
               Onc!CreateShift(s, p, ours)
        PROVE  ShiftsInv'
    <2>1. /\ shift' = [shift EXCEPT ![s] = [dates |-> p, ours |-> ours]] /\ Onc!Valid(p)
          /\ UNCHANGED shiftReq
      BY <1>1 DEF Onc!CreateShift
    <2>2. /\ shift'[s].dates = p
          /\ \A t \in Shifts \ {s} : shift'[t] = shift[t]
      BY <2>1
    <2>3. shift' \in [Shifts -> [dates : Onc!Periods, ours : BOOLEAN] \union {None}]
      BY <2>1
    <2> QED
      BY <2>1, <2>2, <2>3
  <1>2. ASSUME NEW r \in Requests, NEW s \in Shifts, NEW p \in Onc!Periods,
               Onc!UpdateRead(r, s, p)
        PROVE  ShiftsInv'
    BY <1>2 DEF Onc!UpdateRead
  <1>3. ASSUME NEW r \in Requests, Onc!UpdateWrite(r)
        PROVE  ShiftsInv'
    <2> DEFINE s == shiftReq[r].id
               p == shiftReq[r].dates
    <2>1. /\ shiftReq[r].pc = "update" /\ shiftReq' = [shiftReq EXCEPT ![r] = Onc!Idle]
          /\ shift' = IF s \in Onc!Existing THEN [shift EXCEPT ![s].dates = p] ELSE shift
      BY <1>3 DEF Onc!UpdateWrite
    <2>2. s \in Shifts /\ p \in Onc!Periods /\ Onc!Valid(p)
      BY <2>1 DEF Onc!Idle
    <2> HIDE DEF s, p
    <2>3. shiftReq' \in [Requests -> {Onc!Idle} \union
                     [pc : {"update"}, id : Shifts, dates : {q \in Onc!Periods : Onc!Valid(q)}]]
      BY <2>1
    <2>4. CASE s \notin Onc!Existing
      BY <2>1, <2>3, <2>4
    <2>5. CASE s \in Onc!Existing
      <3>1. shift[s] \in [dates : Onc!Periods, ours : BOOLEAN]
        BY <2>5
      <3>2. /\ shift'[s] = [shift[s] EXCEPT !.dates = p]
            /\ \A t \in Shifts \ {s} : shift'[t] = shift[t]
            /\ shift' = [shift EXCEPT ![s] = [shift[s] EXCEPT !.dates = p]]
        BY <2>1, <2>2, <2>5
      <3>3. shift'[s] \in [dates : Onc!Periods, ours : BOOLEAN] /\ shift'[s].dates = p
        BY <2>2, <3>1, <3>2
      <3>4. shift' \in [Shifts -> [dates : Onc!Periods, ours : BOOLEAN] \union {None}]
        BY <2>2, <3>2, <3>3
      <3> QED
        BY <2>2, <2>3, <3>2, <3>3, <3>4
    <2> QED
      BY <2>4, <2>5
  <1>4. ASSUME NEW s \in Shifts, Onc!DeleteShift(s)
        PROVE  ShiftsInv'
    BY <1>4 DEF Onc!DeleteShift
  <1>5. CASE UNCHANGED Onc!vars
    BY <1>5 DEF Onc!vars
  <1> QED
    BY <1>1, <1>2, <1>3, <1>4, <1>5 DEF Onc!Next

LEMMA ShiftsHold == TravelSpec => []ShiftsInv
  <1>1. TravelInit => ShiftsInv
    BY DEF TravelInit, Onc!Init, ShiftsInv, Onc!ShiftsAreValid, Onc!Existing
  <1>2. ShiftsInv /\ [TravelNext]_travelVars => ShiftsInv'
    BY NextShifts, StepsOfParts
  <1> QED
    BY <1>1, <1>2, PTL DEF TravelSpec

-----------------------------------------------------------------------------
(* The gaps of the rota *)

Gap == [from : Nat, to : Nat]
Tour == [curseur : Nat, trous : Seq(Gap)]

\* The loop is defined: a first turn that was not would follow one that is.
LEMMA ToursFollow ==
  ASSUME NEW from, NEW to, NEW tries, NEW n \in Nat, Len(tries) = n
  PROVE  LET e == Onc!Tours(from, to, tries)
         IN  /\ e[0] = [curseur |-> from, trous |-> <<>>]
             /\ \A k \in 1..n : e[k] = Onc!Avance(e[k - 1], tries[k], to)
  <1> DEFINE base == [curseur |-> from, trous |-> <<>>]
             Turns(g, m) == g = [k \in 0..m |-> IF k = 0 THEN base
                                                ELSE Onc!Avance(g[k - 1], tries[k], to)]
             Bad == {m \in Nat : ~\E g : Turns(g, m)}
  <1> HIDE DEF base
  <1>1. Bad = {}
    <2> SUFFICES ASSUME Bad # {} PROVE FALSE
      OBVIOUS
    <2>1. PICK m \in Bad : \A k \in Bad : m <= k
      BY LeastNatural
    <2>2. m # 0
      <3>1. Turns([k \in 0..0 |-> base], 0)
        OBVIOUS
      <3> QED
        BY <2>1, <3>1
    <2>3. m \in Nat /\ m - 1 \in Nat /\ m - 1 \notin Bad
      <3>1. m \in Nat
        BY <2>1
      <3> HIDE DEF Bad
      <3> QED
        BY <2>1, <2>2, <3>1
    <2>4. PICK g : Turns(g, m - 1)
      BY <2>3
    <2> DEFINE h == [k \in 0..m |-> IF k = m THEN Onc!Avance(g[m - 1], tries[m], to) ELSE g[k]]
    <2>5. \A k \in 0..(m - 1) : h[k] = g[k]
      BY <2>3
    <2>6. ASSUME NEW k \in 0..m
          PROVE  h[k] = IF k = 0 THEN base ELSE Onc!Avance(h[k - 1], tries[k], to)
      <3>1. CASE k = m
        <4>1. h[k] = Onc!Avance(g[m - 1], tries[m], to) /\ h[m - 1] = g[m - 1]
          BY <2>3, <2>5, <3>1
        <4> QED
          BY <2>2, <3>1, <4>1
      <3>2. CASE k = 0
        <4>1. h[k] = g[k] /\ g[0] = base
          BY <2>3, <2>4, <2>5, <3>2
        <4> QED
          BY <3>2, <4>1
      <3>3. CASE k # m /\ k # 0
        <4>1. k \in 0..(m - 1) /\ k - 1 \in 0..(m - 1)
          BY <2>3, <3>3
        <4>2. g[k] = Onc!Avance(g[k - 1], tries[k], to)
          BY <2>4, <3>3, <4>1
        <4> QED
          BY <2>5, <3>3, <4>1, <4>2
      <3> QED
        BY <3>1, <3>2, <3>3
    <2>7. h = [k \in 0..m |-> h[k]]
      OBVIOUS
    <2> HIDE DEF h
    <2>8. Turns(h, m)
      BY <2>6, <2>7
    <2> QED
      BY <2>1, <2>8
  <1>2. \E g : Turns(g, n)
    BY <1>1
  <1> DEFINE Turn(g) == Turns(g, n)
             e == Onc!Tours(from, to, tries)
  <1>3. e = CHOOSE g : Turn(g)
    BY DEF Onc!Tours, base
  <1> HIDE DEF Turns, e
  <1>4. Turn(e)
    <2> HIDE DEF Turn
    <2>1. \E g : Turn(g)
      BY <1>2 DEF Turn
    <2> QED
      BY <1>3, <2>1
  <1>5. e = [k \in 0..n |-> IF k = 0 THEN base ELSE Onc!Avance(e[k - 1], tries[k], to)]
    BY <1>4 DEF Turn, Turns
  <1>6. e[0] = base
    BY <1>5
  <1>7. \A k \in 1..n : e[k] = Onc!Avance(e[k - 1], tries[k], to)
    BY <1>5
  <1> QED
    BY <1>6, <1>7 DEF e, base

\* What is known after k shifts of the sorted list c: the gaps found so far are in order
\* and apart, end before the cursor and before the shifts to come, and they are the hours
\* before the cursor that no shift read so far covers.
Covers(d, t) == d.from <= t /\ t < d.to
InGap(g, t) == \E i \in 1..Len(g) : g[i].from <= t /\ t < g[i].to

Known(a, c, n, k, from, to) ==
  /\ a.curseur \in Nat /\ a.trous \in Seq(Gap) /\ from <= a.curseur
  /\ \A i \in 1..Len(a.trous) :
       /\ a.trous[i].from < a.trous[i].to /\ a.trous[i].to < a.curseur
       /\ \A m \in (k + 1)..n : a.trous[i].to <= c[m].from
       /\ i > 1 => a.trous[i - 1].to < a.trous[i].from
  /\ a.curseur < to => \A j \in 1..k : c[j].to <= a.curseur
  /\ \A t \in Nat : from <= t /\ t < a.curseur /\ t < to =>
       (InGap(a.trous, t) <=> ~\E j \in 1..k : Covers(c[j], t))

\* One more gap at the end of the list.
LEMMA GapAppended ==
  ASSUME NEW g \in Seq(Gap), NEW x \in Gap
  PROVE  LET h == Append(g, x)
         IN  /\ h \in Seq(Gap) /\ Len(h) = Len(g) + 1 /\ Len(g) \in Nat
             /\ h[Len(g) + 1] = x /\ \A i \in 1..Len(g) : h[i] = g[i]
             /\ \A t \in Nat : InGap(h, t) <=> InGap(g, t) \/ (x.from <= t /\ t < x.to)
  <1> DEFINE h == Append(g, x)
  <1>1. /\ h \in Seq(Gap) /\ Len(h) = Len(g) + 1 /\ Len(g) \in Nat
        /\ h[Len(g) + 1] = x /\ \A i \in 1..Len(g) : h[i] = g[i]
    BY LenProperties
  <1> HIDE DEF h
  <1>2. ASSUME NEW t \in Nat
        PROVE  InGap(h, t) <=> InGap(g, t) \/ (x.from <= t /\ t < x.to)
    <2>1. ASSUME NEW i \in 1..Len(h), h[i].from <= t /\ t < h[i].to
          PROVE  InGap(g, t) \/ (x.from <= t /\ t < x.to)
      <3>1. CASE i = Len(g) + 1
        BY <1>1, <2>1, <3>1
      <3>2. CASE i # Len(g) + 1
        <4>1. i \in 1..Len(g)
          BY <1>1, <3>2
        <4> QED
          BY <1>1, <2>1, <4>1 DEF InGap
      <3> QED
        BY <3>1, <3>2
    <2>2. ASSUME NEW i \in 1..Len(g), g[i].from <= t /\ t < g[i].to
          PROVE  InGap(h, t)
      <3>1. i \in 1..Len(h)
        BY <1>1
      <3> QED
        BY <1>1, <2>2, <3>1 DEF InGap
    <2>3. ASSUME x.from <= t /\ t < x.to
          PROVE  InGap(h, t)
      <3>1. Len(g) + 1 \in 1..Len(h)
        BY <1>1
      <3> QED
        BY <1>1, <2>3, <3>1 DEF InGap
    <2> QED
      BY <2>1, <2>2, <2>3 DEF InGap
  <1> QED
    BY <1>1, <1>2 DEF h

\* One turn of the loop.
LEMMA TourKeepsKnown ==
  ASSUME NEW from \in Nat, NEW to \in Nat, NEW n \in Nat,
         NEW c \in [1..n -> {d \in Gap : d.from < d.to /\ d.from < to}],
         \A i, j \in 1..n : i < j => c[i].from <= c[j].from,
         NEW k \in 1..n, NEW a, Known(a, c, n, k - 1, from, to)
  PROVE  Known(Onc!Avance(a, c[k], to), c, n, k, from, to)
  <1> DEFINE cur == a.curseur
             g == a.trous
             d == c[k]
             b == Onc!Avance(a, d, to)
  <1>1. /\ cur \in Nat /\ g \in Seq(Gap) /\ from <= cur
        /\ \A i \in 1..Len(g) :
             /\ g[i].from < g[i].to /\ g[i].to < cur
             /\ \A m \in k..n : g[i].to <= c[m].from
             /\ i > 1 => g[i - 1].to < g[i].from
        /\ cur < to => \A j \in 1..(k - 1) : c[j].to <= cur
        /\ \A t \in Nat : from <= t /\ t < cur /\ t < to =>
             (InGap(g, t) <=> ~\E j \in 1..(k - 1) : Covers(c[j], t))
    BY DEF Known
  <1>2. /\ d.from \in Nat /\ d.to \in Nat /\ d.from < d.to /\ d.from < to
        /\ \A m \in (k + 1)..n : d.from <= c[m].from /\ c[m].from \in Nat
        /\ k \in Nat /\ 1..k = 1..(k - 1) \union {k}
    BY DEF Gap
  <1>3. Len(g) \in Nat /\ \A i \in 1..Len(g) : g[i].to \in Nat /\ g[i].from \in Nat
    <2>1. Len(g) \in Nat /\ \A i \in 1..Len(g) : g[i] \in Gap
      BY <1>1, LenProperties, ElementOfSeq
    <2> QED
      BY <2>1 DEF Gap
  \* An hour in a gap found before is over when shift k starts.
  <1>4. \A t \in Nat : InGap(g, t) => ~Covers(d, t)
    <2> SUFFICES ASSUME NEW t \in Nat, NEW i \in 1..Len(g), g[i].from <= t /\ t < g[i].to
                 PROVE  ~(d.from <= t)
      BY DEF InGap, Covers
    <2>1. k \in k..n /\ g[i].to <= d.from
      BY <1>1
    <2> QED
      BY <1>2, <1>3, <2>1
  <1>5. \A t \in Nat : from <= t /\ t < cur /\ t < to =>
          (InGap(g, t) <=> ~\E j \in 1..k : Covers(c[j], t))
    BY <1>1, <1>2, <1>4
  <1>6. CASE cur >= to
    <2>1. b = a
      BY <1>6 DEF Onc!Avance
    <2> QED
      BY <1>1, <1>2, <1>3, <1>5, <1>6, <2>1 DEF Known
  <1>7. CASE ~(cur >= to)
    <2> DEFINE new == Onc!Latest(cur, d.to)
    <2>1. /\ new \in Nat /\ cur <= new /\ d.to <= new /\ (new = cur \/ new = d.to)
      BY <1>1, <1>2 DEF Onc!Latest
    <2>2. b.curseur = new
      BY <1>7 DEF Onc!Avance, Onc!Curseur
    <2>3. \A j \in 1..k : c[j].to <= new
      <3>1. \A j \in 1..(k - 1) : c[j].to \in Nat /\ c[j].to <= cur
        BY <1>1, <1>2, <1>7 DEF Gap
      <3> HIDE DEF new
      <3>2. \A j \in 1..(k - 1) : c[j].to <= new
        BY <1>1, <2>1, <3>1
      <3> QED
        BY <1>2, <2>1, <3>2
    <2>4. CASE d.from > cur
      <3> DEFINE x == [from |-> cur, to |-> d.from]
      <3>1. b.trous = Append(g, x) /\ x \in Gap /\ x.from = cur /\ x.to = d.from
        BY <1>1, <1>2, <1>7, <2>4 DEF Onc!Avance, Onc!Earliest, Gap
      <3> HIDE DEF x
      <3>2. /\ b.trous \in Seq(Gap) /\ Len(b.trous) = Len(g) + 1
            /\ b.trous[Len(g) + 1] = x /\ \A i \in 1..Len(g) : b.trous[i] = g[i]
            /\ \A t \in Nat : InGap(b.trous, t) <=> InGap(g, t) \/ (x.from <= t /\ t < x.to)
        BY <1>1, <3>1, GapAppended
      <3> HIDE DEF b, new
      <3>3. ASSUME NEW i \in 1..Len(b.trous)
            PROVE  /\ b.trous[i].from < b.trous[i].to /\ b.trous[i].to < new
                   /\ \A m \in (k + 1)..n : b.trous[i].to <= c[m].from
                   /\ i > 1 => b.trous[i - 1].to < b.trous[i].from
        <4>1. CASE i = Len(g) + 1
          <5>1. i > 1 => i - 1 \in 1..Len(g)
            BY <1>3, <4>1
          <5>2. b.trous[i] = x /\ x.from < x.to /\ x.to < new
            BY <1>1, <1>2, <2>1, <2>4, <3>1, <3>2, <4>1
          <5>3. \A m \in (k + 1)..n : x.to <= c[m].from
            BY <1>2, <3>1
          <5>4. i > 1 => b.trous[i - 1].to < x.from
            BY <1>1, <3>1, <3>2, <5>1
          <5> QED
            BY <5>2, <5>3, <5>4
        <4>2. CASE i # Len(g) + 1
          <5>1. i \in 1..Len(g) /\ b.trous[i] = g[i]
            BY <1>3, <3>2, <4>2
          <5>2. i > 1 => i - 1 \in 1..Len(g) /\ b.trous[i - 1] = g[i - 1]
            BY <1>3, <3>2, <5>1
          <5>3. \A m \in (k + 1)..n : m \in k..n
            BY <1>2
          <5>4. g[i].to < new
            BY <1>1, <1>3, <2>1, <5>1
          <5> QED
            BY <1>1, <5>1, <5>2, <5>3, <5>4
        <4> QED
          BY <4>1, <4>2
      <3>4. ASSUME NEW t \in Nat, from <= t, t < new, t < to
            PROVE  InGap(b.trous, t) <=> ~\E j \in 1..k : Covers(c[j], t)
        <4>1. CASE t < cur
          BY <1>1, <1>5, <3>1, <3>2, <3>4, <4>1
        <4>2. CASE t >= cur
          <5>1. ~InGap(g, t)
            BY <1>1, <1>3, <4>2 DEF InGap
          <5>2. \A j \in 1..(k - 1) : ~Covers(c[j], t)
            <6>1. \A j \in 1..(k - 1) : c[j].to <= cur /\ c[j].to \in Nat
              BY <1>1, <1>2, <1>7 DEF Gap
            <6> QED
              BY <1>1, <4>2, <6>1 DEF Covers
          <5>3. Covers(d, t) <=> ~(x.from <= t /\ t < x.to)
            BY <1>1, <1>2, <2>1, <2>4, <3>1, <3>4, <4>2 DEF Covers
          <5> QED
            BY <1>2, <3>2, <5>1, <5>2, <5>3
        <4> QED
          BY <1>1, <4>1, <4>2
      <3> QED
        BY <1>1, <2>1, <2>2, <2>3, <3>2, <3>3, <3>4 DEF Known, b
    <2>5. CASE ~(d.from > cur)
      <3>1. b.trous = g
        BY <1>7, <2>5 DEF Onc!Avance
      <3> HIDE DEF b, new
      <3>2. ASSUME NEW i \in 1..Len(g)
            PROVE  /\ g[i].from < g[i].to /\ g[i].to < new
                   /\ \A m \in (k + 1)..n : g[i].to <= c[m].from
                   /\ i > 1 => g[i - 1].to < g[i].from
        <4>1. \A m \in (k + 1)..n : m \in k..n
          BY <1>2
        <4>2. g[i].to < new
          BY <1>1, <1>3, <2>1
        <4> QED
          BY <1>1, <4>1, <4>2
      <3>3. ASSUME NEW t \in Nat, from <= t, t < new, t < to
            PROVE  InGap(g, t) <=> ~\E j \in 1..k : Covers(c[j], t)
        <4>1. CASE t < cur
          BY <1>1, <1>5, <3>3, <4>1
        <4>2. CASE t >= cur
          <5>1. ~InGap(g, t)
            BY <1>1, <1>3, <4>2 DEF InGap
          <5>2. Covers(d, t)
            BY <1>1, <1>2, <2>1, <2>5, <3>3, <4>2 DEF Covers
          <5> QED
            BY <1>2, <5>1, <5>2
        <4> QED
          BY <1>1, <4>1, <4>2
      <3> QED
        BY <1>1, <2>1, <2>2, <2>3, <3>1, <3>2, <3>3 DEF Known, b
    <2> QED
      BY <1>1, <1>2, <2>4, <2>5
  <1> QED
    BY <1>1, <1>6, <1>7

\* The whole loop.
LEMMA LoopIsKnown ==
  ASSUME NEW from \in Nat, NEW to \in Nat, NEW n \in Nat,
         NEW c \in [1..n -> {d \in Gap : d.from < d.to /\ d.from < to}],
         \A i, j \in 1..n : i < j => c[i].from <= c[j].from,
         NEW e, e[0] = [curseur |-> from, trous |-> <<>>],
         \A k \in 1..n : e[k] = Onc!Avance(e[k - 1], c[k], to)
  PROVE  Known(e[n], c, n, n, from, to)
  <1> DEFINE Bad == {k \in 0..n : ~Known(e[k], c, n, k, from, to)}
  <1>1. Known(e[0], c, n, 0, from, to)
    <2>1. e[0].curseur = from /\ e[0].trous = <<>> /\ <<>> \in Seq(Gap) /\ Len(<<>>) = 0
      BY EmptySeq
    <2> QED
      BY <2>1 DEF Known
  <1>2. Bad = {}
    <2> SUFFICES ASSUME Bad # {} PROVE FALSE
      OBVIOUS
    <2>0. Bad \subseteq Nat
      OBVIOUS
    <2>1. PICK k \in Bad : \A m \in Bad : k <= m
      <3> HIDE DEF Bad
      <3> QED
        BY <2>0, LeastNatural
    <2>2. k \in 0..n /\ ~Known(e[k], c, n, k, from, to)
      BY <2>1
    <2>3. k # 0
      BY <1>1, <2>2
    <2>4. k \in 1..n /\ k - 1 \in 0..n /\ k - 1 \notin Bad
      <3> HIDE DEF Bad
      <3> QED
        BY <2>1, <2>2, <2>3
    <2>5. Known(e[k - 1], c, n, k - 1, from, to)
      BY <2>4
    <2>6. Known(Onc!Avance(e[k - 1], c[k], to), c, n, k, from, to)
      BY <2>4, <2>5, TourKeepsKnown
    <2> QED
      BY <2>2, <2>4, <2>6
  <1>3. n \in 0..n
    OBVIOUS
  <1> QED
    BY <1>2, <1>3

\* The gaps with the hours left when the loop ends, and what the gaps of the shifts c are.
Closed(a, to) ==
  IF a.curseur < to THEN Append(a.trous, [from |-> a.curseur, to |-> to]) ELSE a.trous

Exact(g, c, n, from, to) ==
  /\ DOMAIN g = 1..Len(g)
  /\ \A i \in 1..Len(g) : g[i].from < g[i].to /\ (i > 1 => g[i - 1].to < g[i].from)
  /\ \A t \in Nat : from <= t /\ t < to =>
       (InGap(g, t) <=> ~\E j \in 1..n : Covers(c[j], t))

LEMMA GapsFound ==
  ASSUME NEW from \in Nat, NEW to \in Nat, NEW n \in Nat,
         NEW c \in [1..n -> Gap], NEW a, Known(a, c, n, n, from, to)
  PROVE  Exact(Closed(a, to), c, n, from, to)
  <1> DEFINE cur == a.curseur
             h == a.trous
  <1>1. /\ cur \in Nat /\ h \in Seq(Gap) /\ from <= cur
        /\ \A i \in 1..Len(h) :
             /\ h[i].from < h[i].to /\ h[i].to < cur
             /\ i > 1 => h[i - 1].to < h[i].from
        /\ cur < to => \A j \in 1..n : c[j].to <= cur
        /\ \A t \in Nat : from <= t /\ t < cur /\ t < to =>
             (InGap(h, t) <=> ~\E j \in 1..n : Covers(c[j], t))
    BY DEF Known
  <1>2. CASE ~(cur < to)
    <2>1. DOMAIN h = 1..Len(h)
      BY <1>1, LenProperties
    <2>2. \A t \in Nat : t < to => t < cur
      BY <1>1, <1>2
    <2>3. Closed(a, to) = h
      BY <1>2 DEF Closed
    <2>4. Exact(h, c, n, from, to)
      BY <1>1, <2>1, <2>2 DEF Exact
    <2> QED
      BY <2>3, <2>4
  <1>3. CASE cur < to
    <2> DEFINE x == [from |-> cur, to |-> to]
               g == Append(h, x)
    <2>1. x \in Gap /\ x.from = cur /\ x.to = to
      BY <1>1 DEF Gap
    <2> HIDE DEF x
    <2>2. /\ g \in Seq(Gap) /\ Len(g) = Len(h) + 1 /\ Len(h) \in Nat
          /\ g[Len(h) + 1] = x /\ \A i \in 1..Len(h) : g[i] = h[i]
          /\ \A t \in Nat : InGap(g, t) <=> InGap(h, t) \/ (x.from <= t /\ t < x.to)
      BY <1>1, <2>1, GapAppended
    <2>3. DOMAIN g = 1..Len(g)
      BY <2>2, LenProperties
    <2> HIDE DEF g
    <2>4. ASSUME NEW i \in 1..Len(g)
          PROVE  g[i].from < g[i].to /\ (i > 1 => g[i - 1].to < g[i].from)
      <3>1. CASE i = Len(h) + 1
        <4>1. i > 1 => i - 1 \in 1..Len(h)
          BY <2>2, <3>1
        <4> QED
          BY <1>1, <1>3, <2>1, <2>2, <3>1, <4>1
      <3>2. CASE i # Len(h) + 1
        <4>1. i \in 1..Len(h) /\ (i > 1 => i - 1 \in 1..Len(h))
          BY <2>2, <3>2
        <4> QED
          BY <1>1, <2>2, <4>1
      <3> QED
        BY <3>1, <3>2
    <2>5. ASSUME NEW t \in Nat, from <= t, t < to
          PROVE  InGap(g, t) <=> ~\E j \in 1..n : Covers(c[j], t)
      <3>1. CASE t < cur
        BY <1>1, <2>1, <2>2, <2>5, <3>1
      <3>2. CASE t >= cur
        <4>1. \A j \in 1..n : c[j].to \in Nat /\ c[j].to <= cur
          BY <1>1, <1>3 DEF Gap
        <4>2. ~\E j \in 1..n : Covers(c[j], t)
          BY <1>1, <3>2, <4>1 DEF Covers
        <4> QED
          BY <2>1, <2>2, <2>5, <3>2, <4>2
      <3> QED
        BY <1>1, <3>1, <3>2
    <2>6. Closed(a, to) = g
      BY <1>3 DEF Closed, g, x
    <2>7. Exact(g, c, n, from, to)
      BY <2>3, <2>4, <2>5 DEF Exact
    <2> QED
      BY <2>6, <2>7
  <1> QED
    BY <1>2, <1>3

\* The shifts that getCoverage reads: finitely many, with valid dates, sorted by start.
LEMMA ShiftsRead ==
  ASSUME ShiftsInv
  PROVE  LET C == {d \in Onc!Dates(Onc!Serving) : d.from < Trip.to /\ d.to > Trip.from}
             c == Onc!ParDebut(C)
             n == Cardinality(C)
         IN  /\ n \in Nat /\ Len(c) = n
             /\ c \in [1..n -> {d \in Gap : d.from < d.to /\ d.from < Trip.to}]
             /\ \A i, j \in 1..n : i < j => c[i].from <= c[j].from
             /\ \A d \in C : \E i \in 1..n : c[i] = d
             /\ \A i \in 1..n : c[i] \in C
  <1> DEFINE C == {d \in Onc!Dates(Onc!Serving) : d.from < Trip.to /\ d.to > Trip.from}
             c == Onc!ParDebut(C)
             n == Cardinality(C)
             Order(s) == \A i, j \in DOMAIN s : i < j => s[i].from <= s[j].from
             f == [d \in C |-> d.from]
  <1>1. IsFiniteSet(C)
    <2>1. IsFiniteSet(Onc!Serving)
      BY FS_Subset, TravelAssumption DEF Onc!Serving, Onc!Existing
    <2>2. [s \in Onc!Serving |-> shift[s].dates] \in Surjection(Onc!Serving, Onc!Dates(Onc!Serving))
      BY DEF Surjection, Onc!Dates
    <2>3. IsFiniteSet(Onc!Dates(Onc!Serving))
      BY <2>1, <2>2, FS_Surjection
    <2> QED
      BY <2>3, FS_Subset
  <1>2. \A d \in C : d \in Gap /\ d.from < d.to /\ d.from < Trip.to /\ d.from \in Nat
    <2> SUFFICES ASSUME NEW s \in Onc!Serving
                 PROVE  /\ shift[s].dates \in Gap /\ shift[s].dates.from < shift[s].dates.to
                        /\ shift[s].dates.from \in Nat
      BY DEF Onc!Dates
    <2>1. shift[s].dates \in Onc!Periods /\ Onc!Valid(shift[s].dates)
      BY DEF Onc!Serving, Onc!Existing, ShiftsInv, Onc!ShiftsAreValid
    <2> QED
      BY <2>1, TravelAssumption DEF Onc!Periods, Onc!Instants, Onc!Valid, Gap
  <1> HIDE DEF C
  <1>3. f \in [C -> Nat]
    BY <1>2
  <1>4. Onc!SetToSeqs(C) = Lists(C)
    <2>1. Onc!Cardinality(C) = Cardinality(C)
      BY DEF Onc!Cardinality, Cardinality
    <2> QED
      BY <2>1 DEF Onc!SetToSeqs, Lists
  <1>5. \E s \in Onc!SetToSeqs(C) : Order(s)
    <2> HIDE DEF f
    <2>1. PICK s \in Lists(C) : \A i, j \in DOMAIN s : i < j => f[s[i]] <= f[s[j]]
      BY <1>1, <1>3, ListsOfSet
    <2>2. \A i \in DOMAIN s : f[s[i]] = s[i].from
      BY <2>1 DEF f, Lists
    <2> QED
      BY <1>4, <2>1, <2>2
  <1>6. c = CHOOSE s \in Onc!SetToSeqs(C) : Order(s)
    BY DEF Onc!ParDebut
  <1> HIDE DEF Order, c
  <1>7. c \in Lists(C) /\ Order(c)
    BY <1>4, <1>5, <1>6
  <1>8. /\ n \in Nat /\ Len(c) = n /\ DOMAIN c = 1..n
        /\ \A d \in C : \E i \in 1..n : c[i] = d
    <2> HIDE DEF f
    <2> QED
      BY <1>1, <1>3, <1>7, ListsOfSet
  <1>9. c \in [1..n -> C]
    BY <1>7 DEF Lists
  <1>10. c \in [1..n -> {d \in Gap : d.from < d.to /\ d.from < Trip.to}]
    BY <1>2, <1>9
  <1>11. \A i, j \in 1..n : i < j => c[i].from <= c[j].from
    BY <1>7, <1>8 DEF Order
  <1> QED
    BY <1>8, <1>9, <1>10, <1>11 DEF c, C

\* The gaps that are shown are the hours of the trip at which nobody is on call.
LEMMA GapsAreExact ==
  ASSUME ShiftsInv
  PROVE  /\ DOMAIN Onc!Gaps = 1..Len(Onc!Gaps)
         /\ \A i \in 1..Len(Onc!Gaps) :
              /\ Onc!Gaps[i].from < Onc!Gaps[i].to
              /\ i > 1 => Onc!Gaps[i - 1].to < Onc!Gaps[i].from
         /\ \A t \in Nat : Trip.from <= t /\ t < Trip.to =>
              (InGap(Onc!Gaps, t) <=> ~Onc!OnDuty(t))
  <1> DEFINE C == {d \in Onc!Dates(Onc!Serving) : d.from < Trip.to /\ d.to > Trip.from}
             c == Onc!ParDebut(C)
             n == Cardinality(C)
             e == Onc!Tours(Trip.from, Trip.to, c)
             a == e[n]
             g == Closed(a, Trip.to)
  <1>1. Trip.from \in Nat /\ Trip.to \in Nat
    BY TravelAssumption
  <1>2. /\ n \in Nat /\ Len(c) = n
        /\ c \in [1..n -> {d \in Gap : d.from < d.to /\ d.from < Trip.to}]
        /\ \A i, j \in 1..n : i < j => c[i].from <= c[j].from
        /\ \A d \in C : \E i \in 1..n : c[i] = d
        /\ \A i \in 1..n : c[i] \in C
    BY ShiftsRead
  <1>3. Onc!Gaps = g
    BY <1>2 DEF Onc!Gaps, Onc!TrousDeCouverture, Closed
  <1> HIDE DEF c, n
  <1>4. /\ e[0] = [curseur |-> Trip.from, trous |-> <<>>]
        /\ \A k \in 1..n : e[k] = Onc!Avance(e[k - 1], c[k], Trip.to)
    BY <1>2, ToursFollow
  <1> HIDE DEF e
  <1>5. Known(a, c, n, n, Trip.from, Trip.to)
    BY <1>1, <1>2, <1>4, LoopIsKnown
  <1> HIDE DEF a
  <1>6. c \in [1..n -> Gap]
    BY <1>2
  <1>7. Exact(g, c, n, Trip.from, Trip.to)
    BY <1>1, <1>2, <1>5, <1>6, GapsFound
  <1> HIDE DEF g
  <1>8. ASSUME NEW t \in Nat, Trip.from <= t, t < Trip.to
        PROVE  (\E j \in 1..n : Covers(c[j], t)) <=> Onc!OnDuty(t)
    <2>1. ASSUME NEW s \in Onc!Serving, Covers(shift[s].dates, t)
          PROVE  \E j \in 1..n : Covers(c[j], t)
      <3>1. shift[s].dates \in Gap
        BY TravelAssumption
           DEF ShiftsInv, Onc!Serving, Onc!Existing, Onc!Periods, Onc!Instants, Gap
      <3>2. shift[s].dates \in C
        BY <1>1, <1>8, <2>1, <3>1 DEF Covers, Gap, Onc!Dates
      <3> QED
        BY <1>2, <2>1, <3>2
    <2>2. ASSUME NEW j \in 1..n, Covers(c[j], t)
          PROVE  \E s \in Onc!Serving : Covers(shift[s].dates, t)
      <3>1. c[j] \in Onc!Dates(Onc!Serving)
        BY <1>2
      <3> QED
        BY <2>2, <3>1 DEF Onc!Dates
    <2>3. Onc!OnDuty(t) <=> \E s \in Onc!Serving : Covers(shift[s].dates, t)
      BY DEF Onc!OnDuty, Covers
    <2> QED
      BY <2>1, <2>2, <2>3
  <1> QED
    BY <1>3, <1>7, <1>8 DEF Exact

\* Whoever is on call is among the first of the list, or somebody before him is.
LEMMA SomebodyIsListed ==
  ASSUME ShiftsInv, NEW t \in Nat, Onc!OnDuty(t)
  PROVE  Onc!OnCallNow(t) # {}
  <1> DEFINE D == {s \in Onc!Serving : shift[s].dates.to > t}
             n == Cardinality(D)
             Order(l) == \A i, j \in DOMAIN l :
                           i < j => shift[l[i]].dates.from <= shift[l[j]].dates.from
             f == [s \in D |-> shift[s].dates.from]
             l == CHOOSE l \in Onc!SetToSeqs(D) : Order(l)
             m == Onc!Earliest(Take, Len(l))
  <1>1. IsFiniteSet(D)
    BY FS_Subset, TravelAssumption DEF Onc!Serving, Onc!Existing
  <1>2. \A s \in D : shift[s].dates.from \in Nat
    BY TravelAssumption DEF ShiftsInv, Onc!Serving, Onc!Existing, Onc!Periods, Onc!Instants
  <1>3. PICK s \in D : shift[s].dates.from <= t
    BY DEF Onc!OnDuty
  <1>4. Onc!Listed(t) = SubSeq(l, 1, m)
    BY DEF Onc!Listed
  <1> HIDE DEF D
  <1>5. f \in [D -> Nat]
    BY <1>2
  <1>6. Onc!SetToSeqs(D) = Lists(D)
    <2>1. Onc!Cardinality(D) = Cardinality(D)
      BY DEF Onc!Cardinality, Cardinality
    <2> QED
      BY <2>1 DEF Onc!SetToSeqs, Lists
  <1>7. \E k \in Onc!SetToSeqs(D) : Order(k)
    <2> HIDE DEF f
    <2>1. PICK k \in Lists(D) : \A i, j \in DOMAIN k : i < j => f[k[i]] <= f[k[j]]
      BY <1>1, <1>5, ListsOfSet
    <2>2. \A i \in DOMAIN k : f[k[i]] = shift[k[i]].dates.from
      BY <2>1 DEF f, Lists
    <2> QED
      BY <1>6, <2>1, <2>2
  <1> HIDE DEF Order
  <1>8. l \in Lists(D) /\ Order(l)
    BY <1>6, <1>7
  <1> HIDE DEF l
  <1>9. /\ n \in Nat /\ Len(l) = n /\ DOMAIN l = 1..n
        /\ \E i \in 1..n : l[i] = s
    <2> HIDE DEF f
    <2> QED
      BY <1>1, <1>3, <1>5, <1>8, ListsOfSet
  <1>10. l \in [1..n -> D] /\ l \in Seq(D)
    <2>1. l \in [1..n -> D]
      BY <1>8 DEF Lists
    <2> HIDE DEF n
    <2> QED
      BY <1>9, <2>1
  <1>11. n >= 1 /\ m \in 1..n
    BY <1>9, TravelAssumption DEF Onc!Earliest
  <1>12. l[1] \in D /\ shift[l[1]].dates.from <= t
    <2>1. PICK i \in 1..n : l[i] = s
      BY <1>9
    <2>2. shift[l[1]].dates.from <= shift[l[i]].dates.from
      <3>1. CASE i = 1
        BY <1>2, <1>3, <2>1, <3>1
      <3>2. CASE i # 1
        BY <1>8, <1>9, <1>11, <3>2 DEF Order
      <3> QED
        BY <3>1, <3>2
    <2>3. l[1] \in D
      BY <1>10, <1>11
    <2> QED
      BY <1>2, <1>3, <2>1, <2>2, <2>3
  <1> HIDE DEF m, n
  <1>13. /\ SubSeq(l, 1, m) \in Seq(D) /\ Len(SubSeq(l, 1, m)) = m
         /\ SubSeq(l, 1, m)[1] = l[1]
    <2>1. n \in Nat /\ m \in Int /\ 1 <= m /\ m <= n /\ 1 \in 1..m - 1 + 1
      BY <1>9, <1>11
    <2>2. \A i \in 1..m : l[i] \in D
      BY <1>10, <2>1
    <2>3. /\ SubSeq(l, 1, m) \in Seq(D)
          /\ Len(SubSeq(l, 1, m)) = IF 1 <= m THEN m - 1 + 1 ELSE 0
          /\ \A i \in 1..m - 1 + 1 : SubSeq(l, 1, m)[i] = l[1 + i - 1]
      BY <2>1, <2>2, SubSeqProperties
    <2> QED
      BY <2>1, <2>3
  <1>14. 1 \in DOMAIN SubSeq(l, 1, m)
    BY <1>11, <1>13, LenProperties
  <1>15. l[1] \in Onc!Range(Onc!Listed(t))
    BY <1>4, <1>13, <1>14 DEF Onc!Range
  <1> QED
    BY <1>12, <1>15 DEF Onc!OnCallNow

\* Two requests that each move one end of a shift never leave it invalid; the gaps shown
\* for a trip are exactly the hours nobody is on call, in order and apart; and at each of
\* the other hours the pilgrim is shown somebody to call.
THEOREM RotaAlwaysSound == TravelSpec => []RotaIsSound
  <1>1. ShiftsInv => Onc!GapsAreUncovered
    <2> SUFFICES ASSUME ShiftsInv PROVE Onc!GapsAreUncovered
      OBVIOUS
    <2>1. ASSUME NEW t \in Trip.from .. Trip.to - 1
          PROVE  t \in Nat /\ Trip.from <= t /\ t < Trip.to
      BY TravelAssumption
    <2> QED
      BY <2>1, GapsAreExact, SomebodyIsListed DEF Onc!GapsAreUncovered, InGap
  <1>2. ShiftsInv => RotaIsSound
    BY <1>1 DEF ShiftsInv, RotaIsSound, Onc!RotaIsSound
  <1> QED
    BY <1>2, ShiftsHold, PTL
=============================================================================
