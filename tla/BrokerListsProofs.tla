--------------------------- MODULE BrokerListsProofs ---------------------------
(* Proofs about BrokerLists, for every set of redirections, every length of the *)
(* list, any timeout and number of attempts, and any number of redirections     *)
(* and restarts.                                                                *)
EXTENDS BrokerLists, TLAPS, FiniteSetTheorems

-------------------------------------------------------------------------------
(* Types                                                                        *)

Element == [address : Address, type : {"IPV4", "IPV6", "FQDN", "NONE"}, distance : Nat]

Place == {"none", "starting", "connecting", "sending", "waiting", "done"}
Status == {"none", "OK", "UNEXPECTED", "TIMEOUT", "ERROR"}
Thread == [at : Place, distance : Nat, retries : Nat, waited : Nat, family : BOOLEAN, status : Status]

Phase == {"idle", "create", "join", "sort", "write", "stopped"}

ListOK == list \in Seq(Element) /\ Len(list) <= MaxInList
ThreadsOK == thread \in [Positions -> Thread]

\* The list and the threads, and where the main thread is.
TypeOK ==
  /\ phase \in Phase
  /\ ListOK
  /\ ThreadsOK
  /\ sorted \in Seq(Element)
  /\ next \in Nat
  /\ file \in Seq(Address)

-------------------------------------------------------------------------------
(* Numbers and sequences                                                        *)

\* A set of numbers has a least one.
LEMMA LeastNumber ==
  ASSUME NEW T, T \subseteq Nat, T # {}
  PROVE  \E x \in T : \A y \in T : x <= y
<1> DEFINE R == OpToRel(<, Nat)
<1>1. IsWellFoundedOn(R, Nat)
  BY NatLessThanWellFounded
<1>2. R = {ss \in Nat \X Nat : ss[1] < ss[2]}
  BY DEF OpToRel
<1> HIDE DEF R
<1>3. PICK x \in T : \A y \in T : <<y, x>> \notin R
  BY <1>1, WFMin
<1>4. \A y \in T : <<y, x>> \in R <=> y < x
  BY <1>2
<1>5. \A y \in T : ~(y < x)
  BY <1>3, <1>4
<1>6. \A y \in T : y \in Int
  OBVIOUS
<1>7. QED
  BY <1>5, <1>6

LEMMA InsertAtElements ==
  ASSUME NEW S, NEW s \in Seq(S), NEW new \in S, NEW x \in 1 .. Len(s) + 1
  PROVE  /\ InsertAt(s, x, new) \in Seq(S)
         /\ Len(InsertAt(s, x, new)) = Len(s) + 1
         /\ \A i \in 1 .. Len(s) + 1 :
              InsertAt(s, x, new)[i] = IF i < x THEN s[i] ELSE IF i = x THEN new ELSE s[i - 1]
<1> DEFINE before == SubSeq(s, 1, x - 1)  after == SubSeq(s, x, Len(s))
<1>0. Len(s) \in Nat /\ x \in Nat /\ \A i \in 1 .. Len(s) : s[i] \in S
  OBVIOUS
<1>1. before \in Seq(S) /\ Len(before) = x - 1 /\ \A i \in 1 .. x - 1 : before[i] = s[i]
  BY <1>0
<1>2. after \in Seq(S) /\ Len(after) = Len(s) - x + 1 /\ \A i \in 1 .. Len(s) - x + 1 : after[i] = s[x + i - 1]
  BY <1>0
<1>3. InsertAt(s, x, new) = (before \o <<new>>) \o after
  BY DEF InsertAt
<1> HIDE DEF before, after
<1> DEFINE upto == before \o <<new>>
<1>4. /\ upto \in Seq(S) /\ Len(upto) = x
      /\ \A i \in 1 .. x : upto[i] = IF i < x THEN s[i] ELSE new
  BY <1>0, <1>1
<1> HIDE DEF upto
<1>5. /\ upto \o after \in Seq(S) /\ Len(upto \o after) = Len(s) + 1
      /\ \A i \in 1 .. Len(s) + 1 : (upto \o after)[i] = IF i <= x THEN upto[i] ELSE after[i - x]
  BY <1>0, <1>2, <1>4
<1>6. ASSUME NEW i \in 1 .. Len(s) + 1
      PROVE  (upto \o after)[i] = IF i < x THEN s[i] ELSE IF i = x THEN new ELSE s[i - 1]
  BY <1>0, <1>2, <1>4, <1>5
<1>7. QED
  BY <1>3, <1>5, <1>6 DEF upto

-------------------------------------------------------------------------------
(* The sort                                                                     *)

NonDecreasing(s) == \A i, j \in 1 .. Len(s) : i < j => s[i].distance <= s[j].distance

\* s holds the first n elements of l, each once.
Rearranges(p, s, l, n) ==
  /\ Len(s) = n
  /\ p \in Bijection(1 .. n, 1 .. n)
  /\ \A i \in 1 .. n : s[i] = l[p[i]]

\* r is s with the new element at position x.
Inserted(r, s, x, new) ==
  /\ r \in Seq(Element) /\ Len(r) = Len(s) + 1
  /\ \A i \in 1 .. Len(s) + 1 : r[i] = IF i < x THEN s[i] ELSE IF i = x THEN new ELSE s[i - 1]

\* The elements passed are those before a position, so that the new one comes
\* between smaller and larger distances.
LEMMA InsertionPlace ==
  ASSUME NEW s \in Seq(Element), NEW new \in Element
  PROVE  \E x \in 1 .. Len(s) + 1 :
           /\ Inserted(tspInsertInBrokerList(s, new), s, x, new)
           /\ \A i \in 1 .. Len(s) : i < x => s[i].distance < new.distance
           /\ x <= Len(s) => new.distance <= s[x].distance
<1> DEFINE passed == {i \in DOMAIN s : \A k \in 1 .. i : new.distance > s[k].distance}
           stops == {i \in 1 .. Len(s) + 1 : i \notin passed}
<1>0. /\ Len(s) \in Nat /\ DOMAIN s = 1 .. Len(s)
      /\ new.distance \in Nat /\ \A i \in 1 .. Len(s) : s[i].distance \in Nat
  <2>1. \A e \in Element : e.distance \in Nat
    BY DEF Element
  <2>2. Len(s) \in Nat /\ DOMAIN s = 1 .. Len(s) /\ \A i \in 1 .. Len(s) : s[i] \in Element
    OBVIOUS
  <2>3. QED
    BY <2>1, <2>2
<1>1. PICK x \in stops : \A y \in stops : x <= y
  <2>1. Len(s) + 1 \in stops /\ stops \subseteq Nat
    BY <1>0
  <2>2. QED
    BY <2>1, LeastNumber
<1>2. x \in 1 .. Len(s) + 1 /\ x \notin passed
  BY <1>1
<1>3. ASSUME NEW i \in 1 .. Len(s), i < x PROVE i \in passed
  <2>1. i \in 1 .. Len(s) + 1 /\ ~(x <= i)
    BY <1>0, <1>2, <1>3
  <2>2. QED
    BY <1>1, <2>1
<1>4. ASSUME NEW i \in passed PROVE i < x
  <2>1. i \in 1 .. Len(s) /\ \A k \in 1 .. i : new.distance > s[k].distance
    BY <1>0
  <2>2. CASE x <= i
    <3>1. x \in 1 .. Len(s) /\ \A k \in 1 .. x : k \in 1 .. i
      BY <1>0, <1>2, <2>1, <2>2
    <3>2. x \in passed
      BY <1>0, <2>1, <3>1
    <3>3. QED
      BY <1>2, <3>2
  <2>3. CASE ~(x <= i)
    BY <1>0, <1>2, <2>1, <2>3
  <2>4. QED
    BY <2>2, <2>3
<1>5. passed = 1 .. x - 1
  <2>1. passed \subseteq 1 .. x - 1
    <3>1. \A i \in passed : i \in 1 .. Len(s) /\ i < x
      BY <1>0, <1>4
    <3>2. QED
      BY <1>0, <1>2, <3>1
  <2>2. ASSUME NEW i \in 1 .. x - 1 PROVE i \in passed
    <3>1. i \in 1 .. Len(s) /\ i < x
      BY <1>0, <1>2
    <3>2. QED
      BY <1>3, <3>1
  <2>3. QED
    BY <2>1, <2>2
<1>6. Inserted(tspInsertInBrokerList(s, new), s, x, new)
  <2>1. Cardinality(1 .. x - 1) = x - 1
    BY <1>0, <1>2, FS_Interval
  <2>2. Cardinality(passed) + 1 = x
    <3> HIDE DEF passed
    <3>1. Cardinality(passed) = x - 1
      BY <1>5, <2>1
    <3>2. QED
      BY <1>0, <1>2, <3>1
  <2>3. tspInsertInBrokerList(s, new) = InsertAt(s, Cardinality(passed) + 1, new)
    BY Zenon DEF tspInsertInBrokerList
  <2>4. Inserted(InsertAt(s, x, new), s, x, new)
    BY <1>2, InsertAtElements DEF Inserted
  <2>5. QED
    BY <2>2, <2>3, <2>4
<1>7. ASSUME NEW i \in 1 .. Len(s), i < x PROVE s[i].distance < new.distance
  <2>1. \A k \in 1 .. i : new.distance > s[k].distance
    BY <1>3, <1>7
  <2>2. QED
    BY <1>0, <2>1
<1>8. ASSUME x <= Len(s) PROVE new.distance <= s[x].distance
  <2>1. PICK k \in 1 .. x : ~(new.distance > s[k].distance)
    BY <1>0, <1>2, <1>8
  <2>2. k \in 1 .. Len(s) /\ k <= x
    BY <1>0, <1>2, <1>8
  <2>3. ~(k < x)
    BY <1>0, <1>7, <2>1, <2>2
  <2>4. QED
    BY <1>0, <1>2, <2>1, <2>2, <2>3
<1>9. QED
  BY <1>2, <1>6, <1>7, <1>8

LEMMA InsertionKeepsOrder ==
  ASSUME NEW s \in Seq(Element), NonDecreasing(s), NEW new \in Element
  PROVE  LET r == tspInsertInBrokerList(s, new) IN
         r \in Seq(Element) /\ Len(r) = Len(s) + 1 /\ NonDecreasing(r)
<1>1. PICK x \in 1 .. Len(s) + 1 :
        /\ Inserted(tspInsertInBrokerList(s, new), s, x, new)
        /\ \A i \in 1 .. Len(s) : i < x => s[i].distance < new.distance
        /\ x <= Len(s) => new.distance <= s[x].distance
  BY InsertionPlace
<1> DEFINE r == tspInsertInBrokerList(s, new)
<1> HIDE DEF r
<1>2. /\ r \in Seq(Element) /\ Len(r) = Len(s) + 1
      /\ \A i \in 1 .. Len(s) + 1 : r[i] = IF i < x THEN s[i] ELSE IF i = x THEN new ELSE s[i - 1]
  BY <1>1 DEF Inserted, r
<1> DEFINE sd == [i \in 1 .. Len(s) |-> s[i].distance]  nd == new.distance
<1>3. /\ Len(s) \in Nat /\ nd \in Nat
      /\ \A i \in 1 .. Len(s) : sd[i] \in Nat
  <2>1. \A e \in Element : e.distance \in Nat
    BY DEF Element
  <2>2. Len(s) \in Nat /\ \A i \in 1 .. Len(s) : s[i] \in Element
    OBVIOUS
  <2>3. QED
    BY <2>1, <2>2
<1>4. \A i, j \in 1 .. Len(s) : i < j => sd[i] <= sd[j]
  BY DEF NonDecreasing
<1>5. /\ \A i \in 1 .. Len(s) : i < x => sd[i] < nd
      /\ x <= Len(s) => nd <= sd[x]
  BY <1>1, <1>3
<1>6. \A i \in 1 .. Len(s) + 1 :
        /\ i < x => i \in 1 .. Len(s) /\ r[i].distance = sd[i]
        /\ i = x => r[i].distance = nd
        /\ i > x => i - 1 \in 1 .. Len(s) /\ r[i].distance = sd[i - 1]
  BY <1>1, <1>2, <1>3
<1> HIDE DEF sd, nd
<1>7. \A i \in 1 .. Len(s) : i >= x => nd <= sd[i]
  <2> SUFFICES ASSUME NEW i \in 1 .. Len(s), i >= x PROVE nd <= sd[i]
    OBVIOUS
  <2>1. x \in 1 .. Len(s) /\ (x = i \/ x < i)
    BY <1>1, <1>3
  <2>2. nd <= sd[x] /\ sd[x] <= sd[i]
    BY <1>3, <1>4, <1>5, <2>1
  <2>3. QED
    BY <1>3, <2>1, <2>2
<1>8. ASSUME NEW i \in 1 .. Len(r), NEW j \in 1 .. Len(r), i < j
      PROVE  r[i].distance <= r[j].distance
  <2>0. i \in 1 .. Len(s) + 1 /\ j \in 1 .. Len(s) + 1 /\ i \in Int /\ j \in Int /\ x \in Int
    BY <1>2, <1>1, <1>3
  <2>1. CASE j < x
    <3>1. i < x /\ i \in 1 .. Len(s) /\ j \in 1 .. Len(s)
      BY <1>8, <2>0, <2>1, <1>6
    <3>2. QED
      BY <1>4, <1>6, <1>8, <2>0, <2>1, <3>1
  <2>2. CASE j = x
    <3>1. i < x /\ i \in 1 .. Len(s)
      BY <1>8, <2>0, <2>2, <1>6
    <3>2. sd[i] < nd /\ r[i].distance = sd[i] /\ r[j].distance = nd
      BY <1>5, <1>6, <2>0, <2>2, <3>1
    <3>3. QED
      BY <1>3, <3>1, <3>2
  <2>3. CASE j > x
    <3>0. j - 1 \in 1 .. Len(s) /\ r[j].distance = sd[j - 1]
      BY <1>6, <2>0, <2>3
    <3>1. CASE i < x
      <4>1. i \in 1 .. Len(s) /\ r[i].distance = sd[i] /\ i < j - 1
        BY <1>6, <2>0, <2>3, <3>1
      <4>2. QED
        BY <1>4, <3>0, <4>1
    <3>2. CASE i = x
      <4>1. r[i].distance = nd /\ j - 1 >= x
        BY <1>6, <2>0, <2>3, <3>2
      <4>2. QED
        BY <1>7, <3>0, <4>1
    <3>3. CASE i > x
      <4>1. i - 1 \in 1 .. Len(s) /\ r[i].distance = sd[i - 1] /\ i - 1 < j - 1
        BY <1>6, <1>8, <2>0, <3>3
      <4>2. QED
        BY <1>4, <3>0, <4>1
    <3>4. QED
      BY <2>0, <3>1, <3>2, <3>3
  <2>4. QED
    BY <2>0, <2>1, <2>2, <2>3
<1>9. NonDecreasing(r)
  BY <1>8 DEF NonDecreasing
<1>10. QED
  BY <1>2, <1>9 DEF r

LEMMA InsertionRearranges ==
  ASSUME NEW s \in Seq(Element), NEW new \in Element, NEW l, NEW n \in Nat, NEW p,
         Rearranges(p, s, l, n), new = l[n + 1]
  PROVE  \E q : Rearranges(q, tspInsertInBrokerList(s, new), l, n + 1)
<1>0. /\ Len(s) = n /\ p \in [1 .. n -> 1 .. n]
      /\ \A i, j \in 1 .. n : p[i] = p[j] => i = j
      /\ \A k \in 1 .. n : \E i \in 1 .. n : p[i] = k
      /\ \A i \in 1 .. n : s[i] = l[p[i]]
  BY DEF Rearranges, Bijection, Injection, Surjection, IsInjective
<1>1. PICK x \in 1 .. n + 1 : Inserted(tspInsertInBrokerList(s, new), s, x, new)
  <2>1. \E x \in 1 .. Len(s) + 1 : Inserted(tspInsertInBrokerList(s, new), s, x, new)
    BY InsertionPlace
  <2>2. QED
    BY <1>0, <2>1
<1> DEFINE r == tspInsertInBrokerList(s, new)
<1> HIDE DEF r
<1>2. /\ Len(r) = n + 1
      /\ \A i \in 1 .. n + 1 : r[i] = IF i < x THEN s[i] ELSE IF i = x THEN new ELSE s[i - 1]
  BY <1>0, <1>1 DEF Inserted, r
<1> DEFINE q == [i \in 1 .. n + 1 |-> IF i < x THEN p[i] ELSE IF i = x THEN n + 1 ELSE p[i - 1]]
<1>3. \A i \in 1 .. n + 1 :
        /\ i < x => i \in 1 .. n /\ q[i] = p[i]
        /\ i = x => q[i] = n + 1
        /\ i > x => i - 1 \in 1 .. n /\ q[i] = p[i - 1]
  OBVIOUS
<1>4. q \in [1 .. n + 1 -> 1 .. n + 1]
  <2>1. ASSUME NEW i \in 1 .. n + 1 PROVE q[i] \in 1 .. n + 1
    <3> HIDE DEF q
    <3>1. \A k \in 1 .. n : p[k] \in 1 .. n + 1
      BY <1>0
    <3>2. n + 1 \in 1 .. n + 1
      OBVIOUS
    <3>3. i < x \/ i = x \/ i > x
      OBVIOUS
    <3>4. QED
      BY <1>3, <3>1, <3>2, <3>3
  <2>2. QED
    BY <2>1
<1>5. ASSUME NEW i \in 1 .. n + 1, NEW j \in 1 .. n + 1, i < j PROVE q[i] # q[j]
  <2> HIDE DEF q
  <2>1. \A k \in 1 .. n : p[k] \in 1 .. n /\ p[k] # n + 1
    BY <1>0
  <2>2. CASE j < x
    BY <1>0, <1>3, <1>5, <2>2
  <2>3. CASE j = x
    BY <1>3, <1>5, <2>1, <2>3
  <2>4. CASE j > x
    <3>0. j - 1 \in 1 .. n /\ q[j] = p[j - 1]
      BY <1>3, <2>4
    <3>1. CASE i < x
      <4>1. i \in 1 .. n /\ q[i] = p[i] /\ i # j - 1
        BY <1>3, <2>4, <3>1
      <4>2. QED
        BY <1>0, <3>0, <4>1
    <3>2. CASE i = x
      BY <1>3, <2>1, <3>0, <3>2
    <3>3. CASE i > x
      <4>1. i - 1 \in 1 .. n /\ q[i] = p[i - 1] /\ i - 1 # j - 1
        BY <1>3, <1>5, <3>3
      <4>2. QED
        BY <1>0, <3>0, <4>1
    <3>4. QED
      BY <3>1, <3>2, <3>3
  <2>5. QED
    BY <2>2, <2>3, <2>4
<1>6. ASSUME NEW k \in 1 .. n + 1 PROVE \E i \in 1 .. n + 1 : q[i] = k
  <2> HIDE DEF q
  <2>1. CASE k = n + 1
    BY <1>3, <2>1
  <2>2. CASE k # n + 1
    <3>1. PICK i \in 1 .. n : p[i] = k
      BY <1>0, <2>2
    <3>2. CASE i < x
      BY <1>3, <3>1, <3>2
    <3>3. CASE i >= x
      <4>1. i + 1 \in 1 .. n + 1 /\ i + 1 > x /\ (i + 1) - 1 = i
        BY <3>3
      <4>2. q[i + 1] = p[i]
        BY <1>3, <4>1
      <4>3. QED
        BY <3>1, <4>1, <4>2
    <3>4. QED
      BY <3>2, <3>3
  <2>3. QED
    BY <2>1, <2>2
<1>7. q \in Bijection(1 .. n + 1, 1 .. n + 1)
  <2> HIDE DEF q
  <2>1. \A i, j \in 1 .. n + 1 : q[i] = q[j] => i = j
    <3> SUFFICES ASSUME NEW i \in 1 .. n + 1, NEW j \in 1 .. n + 1, i # j PROVE q[i] # q[j]
      OBVIOUS
    <3>1. i < j \/ j < i
      OBVIOUS
    <3>2. QED
      BY <1>5, <3>1
  <2>2. QED
    BY <1>4, <1>6, <2>1 DEF Bijection, Injection, Surjection, IsInjective
<1>8. ASSUME NEW i \in 1 .. n + 1 PROVE r[i] = l[q[i]]
  <2> HIDE DEF q
  <2>0. /\ i < x => r[i] = s[i]
        /\ i = x => r[i] = new
        /\ i > x => r[i] = s[i - 1]
    BY <1>2
  <2>1. CASE i < x
    BY <1>0, <1>3, <2>0, <2>1
  <2>2. CASE i = x
    BY <1>3, <2>0, <2>2
  <2>3. CASE i > x
    <3>1. i - 1 \in 1 .. n /\ q[i] = p[i - 1]
      BY <1>3, <2>3
    <3>2. s[i - 1] = l[p[i - 1]]
      BY <1>0, <3>1
    <3>3. QED
      BY <2>0, <2>3, <3>1, <3>2
  <2>4. QED
    BY <2>1, <2>2, <2>3
<1>9. Rearranges(q, r, l, n + 1)
  BY <1>2, <1>7, <1>8 DEF Rearranges
<1>10. QED
  BY <1>9 DEF r

-------------------------------------------------------------------------------
(* The invariant                                                                *)

\* What a thread's distance says: that of a broker that answered is at most the
\* timeout, that of one that did not is more, and more still in the other family.
MeasuredOK(t) ==
  /\ t.waited <= Timeout
  /\ t.at \in {"none", "starting"} => t.distance = 0 /\ t.family
  /\ t.at \in {"connecting", "sending", "waiting"} =>
       t.distance = IF t.family THEN 0 ELSE WrongFamilyAdjust
  /\ t.at = "done" => t.status \in {"OK", "UNEXPECTED", "TIMEOUT", "ERROR"}
  /\ t.at = "done" /\ ~t.family => t.distance >= WrongFamilyAdjust
  /\ t.at = "done" /\ t.family /\ t.status \in {"OK", "UNEXPECTED"} => t.distance <= Timeout
  /\ t.at = "done" /\ t.family /\ t.status \in {"TIMEOUT", "ERROR"} => t.distance = TimeoutAdjust

MeasureInv == \A i \in Positions : MeasuredOK(thread[i])

FromMessage(l) == \E m \in Messages : Addresses(l) = Addresses(tspCreateBrokerList(m))

\* How far the main thread is: with the list of a message, whose elements have the
\* distances of the threads that ended, and those before the cursor joined.
RedirectInv ==
  phase \in {"create", "join", "sort"} =>
    /\ FromMessage(list)
    /\ next \in 1 .. Len(list)
    /\ \A i \in 1 .. Len(list) : thread[i].at = "done" => list[i].distance = thread[i].distance
    /\ \A i \in Positions : thread[i].at # "none" => i \in 1 .. Len(list)
    /\ phase = "create" => \A i \in Positions : i >= next => thread[i] = NotStarted
    /\ phase = "join" => \A i \in 1 .. Len(list) : i < next => thread[i].at = "done"
    /\ phase = "sort" => \A i \in 1 .. Len(list) : thread[i].at = "done"

\* The elements before the cursor are in the sorted list, each once.
SortInv ==
  /\ phase # "sort" => sorted = <<>>
  /\ phase = "sort" => NonDecreasing(sorted) /\ \E p : Rearranges(p, sorted, list, next - 1)

Inv == TypeOK /\ MeasureInv /\ RedirectInv /\ SortInv /\ BestBrokerFirst

-------------------------------------------------------------------------------
(* The list of a message                                                        *)

LEMMA ListOfElements ==
  ASSUME NEW addresses \in Seq(Address), NEW type \in {"IPV4", "IPV6", "FQDN", "NONE"}
  PROVE  /\ ListOf(addresses, type) \in Seq(Element)
         /\ Len(ListOf(addresses, type)) = Len(addresses)
<1>1. DOMAIN addresses = 1 .. Len(addresses) /\ Len(addresses) \in Nat
      /\ \A i \in 1 .. Len(addresses) : addresses[i] \in Address
  OBVIOUS
<1>2. \A i \in 1 .. Len(addresses) : Broker(addresses[i], type) \in Element
  BY <1>1 DEF Broker, Element
<1>3. ListOf(addresses, type) = [i \in 1 .. Len(addresses) |-> Broker(addresses[i], type)]
  BY <1>1 DEF ListOf
<1>4. QED
  BY <1>1, <1>2, <1>3

LEMMA CreatedList ==
  ASSUME NEW m \in Messages
  PROVE  tspCreateBrokerList(m) \in Seq(Element)
<1>1. m.ipv4 \in Seq(Address) /\ m.ipv6 \in Seq(Address) /\ m.dn \in Seq(Address)
  BY BrokerListsAssumption
<1>2. /\ ListOf(m.ipv4, "IPV4") \in Seq(Element)
      /\ ListOf(m.ipv6, "IPV6") \in Seq(Element)
      /\ ListOf(m.dn, "FQDN") \in Seq(Element)
  BY <1>1, ListOfElements
<1>3. QED
  BY <1>2 DEF tspCreateBrokerList

LEMMA AddressesOfList ==
  ASSUME NEW l \in Seq(Element)
  PROVE  /\ Addresses(l) \in Seq(Address) /\ Len(Addresses(l)) = Len(l)
         /\ \A i \in 1 .. Len(l) : Addresses(l)[i] = l[i].address
<1>1. DOMAIN l = 1 .. Len(l) /\ Len(l) \in Nat /\ \A i \in 1 .. Len(l) : l[i] \in Element
  OBVIOUS
<1>2. \A i \in 1 .. Len(l) : l[i].address \in Address
  BY <1>1 DEF Element
<1>3. Addresses(l) = [i \in 1 .. Len(l) |-> l[i].address]
  BY <1>1 DEF Addresses
<1>4. QED
  BY <1>1, <1>2, <1>3

LEMMA PartOfFile ==
  ASSUME NEW l \in Seq(Element), NEW n \in 0 .. Len(l)
  PROVE  Addresses(SubSeq(l, 1, n)) \in Seq(Address)
<1>1. SubSeq(l, 1, n) \in Seq(Element)
  <2>1. \A i \in 1 .. Len(l) : l[i] \in Element
    OBVIOUS
  <2>2. QED
    BY <2>1
<1>2. QED
  BY <1>1, AddressesOfList

-------------------------------------------------------------------------------
(* A step of a thread                                                           *)

\* A thread changes its own state, and when it ends the distance of its element.
LEMMA ThreadStep ==
  ASSUME ThreadsOK, NEW i \in Positions, MeasuredOK(thread[i]), Measuring(i)
  PROVE  /\ thread[i].at \notin {"none", "done"}
         /\ \E t \in Thread :
              /\ MeasuredOK(t) /\ t.at # "none"
              /\ thread' = [thread EXCEPT ![i] = t]
              /\ \/ list' = list /\ t.at # "done"
                 \/ t.at = "done" /\ list' = [list EXCEPT ![i].distance = t.distance]
<1> DEFINE t == thread[i]
           Ends(adjust, status) ==
             [t EXCEPT !.at = "done", !.distance = @ + adjust, !.status = status, !.retries = 0, !.waited = 0]
<1>0. /\ thread \in [Positions -> Thread] /\ t \in Thread
      /\ t.distance \in Nat /\ t.waited \in Nat /\ t.retries \in Nat /\ t.family \in BOOLEAN
      /\ Timeout \in Nat /\ Timeout > 0
  BY BrokerListsAssumption DEF ThreadsOK, Thread
<1>1. ASSUME NEW adjust \in Nat, NEW status \in Status, Finished(i, adjust, status)
      PROVE  /\ Ends(adjust, status) \in Thread
             /\ thread' = [thread EXCEPT ![i] = Ends(adjust, status)]
             /\ list' = [list EXCEPT ![i].distance = Ends(adjust, status).distance]
  <2>1. t.distance + adjust \in Nat
    BY <1>0
  <2>2. Ends(adjust, status) \in Thread /\ Ends(adjust, status).distance = t.distance + adjust
    BY <1>0, <2>1 DEF Thread, Place, Status
  <2>3. QED
    BY <1>0, <1>1, <2>2 DEF Finished
<1> DEFINE Goal == \E u \in Thread :
              /\ MeasuredOK(u) /\ u.at # "none"
              /\ thread' = [thread EXCEPT ![i] = u]
              /\ \/ list' = list /\ u.at # "done"
                 \/ u.at = "done" /\ list' = [list EXCEPT ![i].distance = u.distance]
<1>2. ASSUME NEW adjust \in Nat, NEW status \in Status \ {"none"}, Finished(i, adjust, status),
             t.at \in {"starting", "connecting", "sending", "waiting"},
             \/ status \in {"TIMEOUT", "ERROR"} /\ adjust = 2 * Timeout
             \/ status \in {"OK", "UNEXPECTED"} /\ adjust <= Timeout
      PROVE  Goal
  <2> DEFINE e == Ends(adjust, status)
  <2>1. /\ e \in Thread /\ thread' = [thread EXCEPT ![i] = e]
        /\ list' = [list EXCEPT ![i].distance = e.distance]
    BY <1>1, <1>2
  <2>2. /\ e.at = "done" /\ e.waited = 0 /\ e.status = status /\ e.family = t.family
        /\ e.distance = t.distance + adjust
    BY <1>0 DEF Thread
  <2>3. t.distance = IF t.family THEN 0 ELSE 3 * Timeout
    BY <1>0, <1>2 DEF MeasuredOK, WrongFamilyAdjust
  <2> HIDE DEF e, Ends
  <2>4. /\ ~t.family => e.distance >= 3 * Timeout
        /\ t.family => e.distance = adjust
    BY <1>0, <1>2, <2>2, <2>3
  <2>5. MeasuredOK(e)
    BY <1>0, <1>2, <2>2, <2>4 DEF MeasuredOK, WrongFamilyAdjust, TimeoutAdjust, Status
  <2>6. QED
    BY <2>1, <2>2, <2>5
<1>3. ASSUME NEW u \in Thread, MeasuredOK(u), u.at \notin {"none", "done"},
             thread' = [thread EXCEPT ![i] = u], list' = list
      PROVE  Goal
  BY <1>3
<1>4. /\ ErrorAdjust = 2 * Timeout /\ TimeoutAdjust = 2 * Timeout /\ WrongFamilyAdjust = 3 * Timeout
      /\ 2 * Timeout \in Nat /\ 3 * Timeout \in Nat
  BY <1>0 DEF ErrorAdjust, TimeoutAdjust, WrongFamilyAdjust
<1>at. t.at \notin {"none", "done"}
  BY DEF Measuring, StartFails, tspDoEchoRequest, createConnectedSocket, SendRequest, GiveUp,
         AnswerArrives, StrayMessage, Tick, SelectTimesOut
<1>goal. SUFFICES Goal
  BY <1>at
<1> HIDE DEF Goal
<1>5. CASE StartFails(i)
  BY <1>2, <1>4, <1>5 DEF StartFails, Status
<1>6. CASE tspDoEchoRequest(i)
  <2>1. PICK s : /\ t.at = "starting" /\ list' = list
                 /\ thread' = [thread EXCEPT ![i].at = "connecting", ![i].family = (s = "OK"),
                                 ![i].distance = IF s = "OK" THEN 0 ELSE WrongFamilyAdjust]
    BY <1>6 DEF tspDoEchoRequest
  <2> DEFINE u == [t EXCEPT !.at = "connecting", !.family = (s = "OK"),
                             !.distance = IF s = "OK" THEN 0 ELSE WrongFamilyAdjust]
  <2>2. thread' = [thread EXCEPT ![i] = u]
    BY <1>0, <2>1
  <2>3. /\ u \in Thread /\ u.at = "connecting" /\ u.waited = t.waited
        /\ u.family = (s = "OK") /\ u.distance = IF s = "OK" THEN 0 ELSE WrongFamilyAdjust
    BY <1>0, <1>4 DEF Thread, Place
  <2> HIDE DEF u
  <2>4. MeasuredOK(u)
    BY <2>3 DEF MeasuredOK
  <2>5. QED
    BY <1>3, <2>1, <2>2, <2>3, <2>4
<1>7. CASE createConnectedSocket(i)
  <2>1. CASE thread' = [thread EXCEPT ![i].at = "sending"] /\ UNCHANGED list
    <3> DEFINE u == [t EXCEPT !.at = "sending"]
    <3>1. thread' = [thread EXCEPT ![i] = u] /\ u \in Thread
      BY <1>0, <2>1 DEF Thread, Place
    <3>2. MeasuredOK(u) /\ u.at = "sending"
      BY <1>0, <1>7 DEF createConnectedSocket, MeasuredOK, Thread
    <3> HIDE DEF u
    <3>3. QED
      BY <1>3, <2>1, <3>1, <3>2
  <2>2. CASE Finished(i, ErrorAdjust, "ERROR")
    BY <1>2, <1>4, <1>7, <2>2 DEF createConnectedSocket, Status
  <2>3. QED
    BY <1>7, <2>1, <2>2 DEF createConnectedSocket
<1>8. CASE SendRequest(i)
  <2>1. CASE thread' = [thread EXCEPT ![i].at = "waiting", ![i].waited = 0] /\ UNCHANGED list
    <3> DEFINE u == [t EXCEPT !.at = "waiting", !.waited = 0]
    <3>1. thread' = [thread EXCEPT ![i] = u] /\ u \in Thread
      BY <1>0, <2>1 DEF Thread, Place
    <3>2. MeasuredOK(u) /\ u.at = "waiting"
      BY <1>0, <1>8 DEF SendRequest, MeasuredOK, Thread
    <3> HIDE DEF u
    <3>3. QED
      BY <1>3, <2>1, <3>1, <3>2
  <2>2. CASE Finished(i, ErrorAdjust, "ERROR")
    BY <1>2, <1>4, <1>8, <2>2 DEF SendRequest, Status
  <2>3. QED
    BY <1>8, <2>1, <2>2 DEF SendRequest
<1>9. CASE GiveUp(i)
  BY <1>2, <1>4, <1>9 DEF GiveUp, Status
<1>10. CASE AnswerArrives(i)
  <2>1. t.waited <= Timeout
    BY DEF MeasuredOK
  <2>2. PICK status \in {"OK", "UNEXPECTED"} : Finished(i, t.waited, status)
    BY <1>10 DEF AnswerArrives
  <2>3. QED
    BY <1>0, <1>2, <1>10, <2>1, <2>2 DEF AnswerArrives, Status
<1>11. CASE StrayMessage(i)
  <2>1. CASE UNCHANGED threads
    <3>1. thread' = [thread EXCEPT ![i] = t] /\ list' = list /\ t.at = "waiting"
      BY <1>0, <1>11, <2>1 DEF StrayMessage, threads
    <3>2. QED
      BY <1>0, <1>3, <3>1
  <2>2. CASE Finished(i, ErrorAdjust, "ERROR")
    BY <1>2, <1>4, <1>11, <2>2 DEF StrayMessage, Status
  <2>3. QED
    BY <1>11, <2>1, <2>2 DEF StrayMessage
<1>12. CASE Tick(i)
  <2> DEFINE u == [t EXCEPT !.waited = @ + 1]
  <2>1. thread' = [thread EXCEPT ![i] = u] /\ list' = list /\ t.at = "waiting" /\ t.waited < Timeout
    BY <1>0, <1>12 DEF Tick
  <2>2. /\ u \in Thread /\ u.at = "waiting" /\ u.family = t.family /\ u.distance = t.distance
        /\ u.waited = t.waited + 1
    BY <1>0, <2>1 DEF Thread
  <2> HIDE DEF u
  <2>3. u.waited <= Timeout
    BY <1>0, <2>1, <2>2
  <2>4. MeasuredOK(u)
    BY <2>1, <2>2, <2>3 DEF MeasuredOK
  <2>5. QED
    BY <1>3, <2>1, <2>2, <2>4
<1>13. CASE SelectTimesOut(i)
  <2> DEFINE u == [t EXCEPT !.at = "sending", !.retries = @ + 1]
  <2>1. thread' = [thread EXCEPT ![i] = u] /\ list' = list /\ t.at = "waiting"
    BY <1>0, <1>13 DEF SelectTimesOut
  <2>2. /\ u \in Thread /\ u.at = "sending" /\ u.family = t.family /\ u.distance = t.distance
        /\ u.waited = t.waited
    <3>1. t.retries + 1 \in Nat /\ "sending" \in Place
      BY <1>0 DEF Place
    <3>2. QED
      BY <1>0, <3>1 DEF Thread
  <2> HIDE DEF u
  <2>3. MeasuredOK(u)
    BY <2>1, <2>2 DEF MeasuredOK
  <2>4. QED
    BY <1>3, <2>1, <2>2, <2>3
<1>14. QED
  BY <1>5, <1>6, <1>7, <1>8, <1>9, <1>10, <1>11, <1>12, <1>13 DEF Measuring

LEMMA MeasuringStep ==
  ASSUME Inv, NEW i \in Positions, tspGetBrokerDistance(i)
  PROVE  Inv'
<1>1. /\ ListOK /\ ThreadsOK /\ phase \in {"create", "join"} /\ Measuring(i) /\ MeasuredOK(thread[i])
      /\ UNCHANGED <<phase, result, v4v6, sorted, next, file, redirects, restarts>>
      /\ MaxInList \in Nat
  BY BrokerListsAssumption DEF Inv, TypeOK, MeasureInv, tspGetBrokerDistance
<1>2. PICK t \in Thread :
        /\ MeasuredOK(t) /\ t.at # "none"
        /\ thread' = [thread EXCEPT ![i] = t]
        /\ \/ list' = list /\ t.at # "done"
           \/ t.at = "done" /\ list' = [list EXCEPT ![i].distance = t.distance]
  BY <1>1, ThreadStep
<1>3. thread[i].at \notin {"none", "done"}
  BY <1>1, ThreadStep
<1>4. /\ FromMessage(list) /\ next \in 1 .. Len(list)
      /\ \A k \in 1 .. Len(list) : thread[k].at = "done" => list[k].distance = thread[k].distance
      /\ \A k \in Positions : thread[k].at # "none" => k \in 1 .. Len(list)
      /\ phase = "create" => \A k \in Positions : k >= next => thread[k] = NotStarted
      /\ phase = "join" => \A k \in 1 .. Len(list) : k < next => thread[k].at = "done"
  BY <1>1 DEF Inv, RedirectInv
<1>5. i \in 1 .. Len(list) /\ Len(list) \in Nat /\ 1 .. Len(list) \subseteq Positions
      /\ \A k \in 1 .. Len(list) : list[k] \in Element
  <2>1. i \in 1 .. Len(list)
    BY <1>3, <1>4
  <2>2. Len(list) \in Nat /\ Len(list) <= MaxInList /\ \A k \in 1 .. Len(list) : list[k] \in Element
    BY <1>1 DEF ListOK
  <2>3. 1 .. Len(list) \subseteq Positions
    BY <1>1, <2>2 DEF Positions
  <2>4. QED
    BY <2>1, <2>2, <2>3
<1>6. /\ list' \in Seq(Element) /\ Len(list') = Len(list)
      /\ \A k \in 1 .. Len(list) : list'[k].address = list[k].address
      /\ \A k \in 1 .. Len(list) : k # i => list'[k] = list[k]
      /\ t.at = "done" => list'[i].distance = t.distance
  <2>0. list \in Seq(Element)
    BY <1>1 DEF ListOK
  <2>1. CASE list' = list /\ t.at # "done"
    BY <2>0, <2>1
  <2>2. CASE t.at = "done" /\ list' = [list EXCEPT ![i].distance = t.distance]
    <3> DEFINE e == [list[i] EXCEPT !.distance = t.distance]
    <3>1. e \in Element /\ e.address = list[i].address /\ e.distance = t.distance
      <4>1. t.distance \in Nat
        BY DEF Thread
      <4>2. QED
        BY <1>5, <4>1 DEF Element
    <3>2. list' = [list EXCEPT ![i] = e]
      BY <2>2
    <3> HIDE DEF e
    <3>3. QED
      BY <1>5, <2>0, <3>1, <3>2
  <2>3. QED
    BY <1>2, <2>1, <2>2
<1>7. thread' \in [Positions -> Thread] /\ thread'[i] = t /\ \A k \in Positions : k # i => thread'[k] = thread[k]
  BY <1>1, <1>2 DEF ThreadsOK
<1>8. TypeOK'
  BY <1>1, <1>6, <1>7 DEF Inv, TypeOK, ListOK, ThreadsOK
<1>9. MeasureInv'
  BY <1>2, <1>7 DEF Inv, MeasureInv
<1>10. FromMessage(list')
  <2>1. Addresses(list') = Addresses(list)
    <3>1. DOMAIN list' = 1 .. Len(list) /\ DOMAIN list = 1 .. Len(list)
      BY <1>1, <1>6 DEF ListOK
    <3>2. QED
      BY <1>6, <3>1 DEF Addresses
  <2>2. QED
    BY <1>4, <2>1 DEF FromMessage
<1>11. /\ \A k \in 1 .. Len(list) : thread'[k].at = "done" => list'[k].distance = thread'[k].distance
       /\ \A k \in Positions : thread'[k].at # "none" => k \in 1 .. Len(list)
  BY <1>4, <1>5, <1>6, <1>7
<1>12. phase = "create" => \A k \in Positions : k >= next => thread'[k] = NotStarted
  <2>1. phase = "create" => \A k \in Positions : k >= next => k # i
    BY <1>3, <1>4 DEF NotStarted
  <2>2. QED
    BY <1>4, <1>7, <2>1
<1>13. phase = "join" => \A k \in 1 .. Len(list) : k < next => thread'[k].at = "done"
  <2>1. phase = "join" => \A k \in 1 .. Len(list) : k < next => k # i
    BY <1>3, <1>4
  <2>2. QED
    BY <1>4, <1>5, <1>7, <2>1
<1>14. RedirectInv'
  BY <1>1, <1>4, <1>6, <1>10, <1>11, <1>12, <1>13 DEF RedirectInv
<1>15. SortInv' /\ BestBrokerFirst'
  BY <1>1 DEF Inv, SortInv, BestBrokerFirst
<1>16. QED
  BY <1>8, <1>9, <1>14, <1>15 DEF Inv

-------------------------------------------------------------------------------
(* The steps of the main thread                                                 *)

LEMMA NotStartedOK == NotStarted \in Thread /\ MeasuredOK(NotStarted) /\ NotStarted.at = "none"
<1>1. Timeout \in Nat
  BY BrokerListsAssumption
<1>2. NotStarted \in Thread /\ NotStarted.at = "none" /\ NotStarted.waited = 0
      /\ NotStarted.distance = 0 /\ NotStarted.family
  BY DEF NotStarted, Thread, Place, Status
<1>3. MeasuredOK(NotStarted)
  BY <1>1, <1>2 DEF MeasuredOK
<1>4. QED
  BY <1>2, <1>3

LEMMA NoThreadsOK ==
  /\ NoThreads \in [Positions -> Thread]
  /\ \A i \in Positions : NoThreads[i] = NotStarted /\ MeasuredOK(NoThreads[i]) /\ NoThreads[i].at = "none"
  BY NotStartedOK DEF NoThreads

LEMMA InvInit == Init => Inv
<1> SUFFICES ASSUME Init PROVE Inv
  OBVIOUS
<1>1. TypeOK
  <2>1. MaxInList \in Nat
    BY BrokerListsAssumption
  <2>2. list \in Seq(Element) /\ Len(list) = 0 /\ sorted \in Seq(Element) /\ file \in Seq(Address)
    BY DEF Init
  <2>3. QED
    BY <2>1, <2>2, NoThreadsOK DEF Init, TypeOK, ListOK, ThreadsOK, Phase
<1>2. MeasureInv
  BY NoThreadsOK DEF Init, MeasureInv
<1>3. RedirectInv /\ SortInv /\ BestBrokerFirst
  BY DEF Init, RedirectInv, SortInv, BestBrokerFirst
<1>4. QED
  BY <1>1, <1>2, <1>3 DEF Inv

\* No redirection is being handled.
LEMMA QuietStep ==
  ASSUME phase' \in {"idle", "stopped"}, sorted' = <<>>, TypeOK', MeasureInv'
  PROVE  Inv'
  BY DEF Inv, RedirectInv, SortInv, BestBrokerFirst

LEMMA EmptyLists == <<>> \in Seq(Element) /\ Len(<<>>) = 0 /\ <<>> \in Seq(Address) /\ Len(<<>>) <= MaxInList
<1>1. MaxInList \in Nat
  BY BrokerListsAssumption
<1>2. QED
  BY <1>1

LEMMA HandleRedirectStep ==
  ASSUME Inv, tspHandleRedirect
  PROVE  Inv'
<1>1. /\ phase = "idle" /\ next' = 1 /\ thread' = NoThreads /\ sorted' = <<>> /\ file' = file
      /\ ListOK /\ file \in Seq(Address) /\ sorted' \in Seq(Element) /\ next' \in Nat
      /\ ThreadsOK' /\ MeasureInv'
  BY NoThreadsOK, EmptyLists DEF tspHandleRedirect, Inv, TypeOK, SortInv, ThreadsOK, MeasureInv
<1>2. ASSUME phase' = "stopped", ListOK' PROVE Inv'
  <2>1. TypeOK'
    BY <1>1, <1>2 DEF TypeOK, Phase
  <2>2. QED
    BY <1>1, <1>2, <2>1, QuietStep
<1>3. CASE Stop("CANT_EXTRACT_PAYLOAD") /\ UNCHANGED list
  BY <1>1, <1>2, <1>3 DEF Stop, ListOK
<1>4. CASE Stop("CANT_CREATE_LIST") /\ list' = <<>>
  BY <1>2, <1>4, EmptyLists DEF Stop, ListOK
<1>5. ASSUME NEW m \in Messages, tspAddBrokerToList(Addresses(tspCreateBrokerList(m))),
             list' = tspCreateBrokerList(m)
      PROVE  /\ list' \in Seq(Element) /\ Len(list') \in Nat /\ Len(list') <= MaxInList
             /\ FromMessage(list') /\ ListOK'
  <2>1. list' \in Seq(Element)
    BY <1>5, CreatedList
  <2>2. Len(Addresses(list')) = Len(list')
    BY <2>1, AddressesOfList
  <2>3. Len(list') <= MaxInList
    BY <1>5, <2>2 DEF tspAddBrokerToList
  <2>4. FromMessage(list')
    BY <1>5 DEF FromMessage
  <2>5. QED
    BY <2>1, <2>3, <2>4 DEF ListOK
<1>6. ASSUME NEW m \in Messages, tspAddBrokerToList(Addresses(tspCreateBrokerList(m))),
             list' = tspCreateBrokerList(m), phase' = "create", Len(list') # 0
      PROVE  Inv'
  <2>1. /\ list' \in Seq(Element) /\ Len(list') \in Nat /\ Len(list') <= MaxInList
        /\ FromMessage(list') /\ ListOK'
    BY <1>5, <1>6
  <2>2. TypeOK'
    BY <1>1, <1>6, <2>1 DEF TypeOK, Phase
  <2>3. 1 .. Len(list') \subseteq Positions
    BY <2>1, BrokerListsAssumption DEF Positions
  <2>4. next' \in 1 .. Len(list')
    BY <1>1, <1>6, <2>1
  <2>5. RedirectInv'
    BY <1>1, <1>6, <2>1, <2>3, <2>4, NoThreadsOK DEF RedirectInv
  <2>6. SortInv' /\ BestBrokerFirst'
    BY <1>1, <1>6 DEF SortInv, BestBrokerFirst
  <2>7. QED
    BY <1>1, <2>2, <2>5, <2>6 DEF Inv
<1>7. ASSUME NEW m \in Messages,
             tspAddBrokerToList(Addresses(tspCreateBrokerList(m))),
             list' = tspCreateBrokerList(m),
             CASE Len(tspCreateBrokerList(m)) = 0 -> Stop("EMPTY_BROKER_LIST")
               [] Len(tspCreateBrokerList(m)) = 1 -> phase' = "idle" /\ result' = "OK"
               [] OTHER -> GoOn("create")
      PROVE  Inv'
  <2>1. ListOK' /\ Len(list') \in Nat
    BY <1>5, <1>7
  <2>2. CASE Len(list') = 0
    BY <1>2, <1>7, <2>1, <2>2 DEF Stop
  <2>3. CASE Len(list') = 1
    <3>1. phase' = "idle"
      BY <1>7, <2>3
    <3>2. TypeOK'
      BY <1>1, <2>1, <3>1 DEF TypeOK, Phase
    <3>3. QED
      BY <1>1, <3>1, <3>2, QuietStep
  <2>4. CASE Len(list') # 0 /\ Len(list') # 1
    <3>1. phase' = "create"
      BY <1>7, <2>4 DEF GoOn
    <3>2. QED
      BY <1>6, <1>7, <2>4, <3>1
  <2>5. QED
    BY <2>2, <2>3, <2>4
<1>8. QED
  BY <1>3, <1>4, <1>7 DEF tspHandleRedirect

LEMMA CreateThreadStep ==
  ASSUME Inv, CreateThread
  PROVE  Inv'
<1>1. /\ phase = "create" /\ UNCHANGED <<result, v4v6, list, sorted, file, redirects, restarts>>
      /\ thread' = [thread EXCEPT ![next].at = "starting"]
      /\ ListOK /\ ThreadsOK /\ MaxInList \in Nat
  BY BrokerListsAssumption DEF CreateThread, Inv, TypeOK
<1>2. /\ FromMessage(list) /\ next \in 1 .. Len(list)
      /\ \A k \in 1 .. Len(list) : thread[k].at = "done" => list[k].distance = thread[k].distance
      /\ \A k \in Positions : thread[k].at # "none" => k \in 1 .. Len(list)
      /\ \A k \in Positions : k >= next => thread[k] = NotStarted
  BY <1>1 DEF Inv, RedirectInv
<1>3. Len(list) \in Nat /\ Len(list) <= MaxInList /\ 1 .. Len(list) \subseteq Positions /\ next \in Positions
  BY <1>1, <1>2 DEF ListOK, Positions
<1> DEFINE u == [NotStarted EXCEPT !.at = "starting"]
<1>4. u \in Thread /\ MeasuredOK(u) /\ u.at = "starting"
  <2>1. u \in Thread /\ u.at = "starting" /\ u.distance = 0 /\ u.family /\ u.waited = NotStarted.waited
    BY NotStartedOK DEF Thread, Place, NotStarted
  <2>2. QED
    BY <2>1, NotStartedOK DEF MeasuredOK
<1>5. thread' \in [Positions -> Thread] /\ thread'[next] = u /\ \A k \in Positions : k # next => thread'[k] = thread[k]
  <2>1. thread[next] = NotStarted
    BY <1>2, <1>3
  <2>2. thread' = [thread EXCEPT ![next] = u]
    BY <1>1, <1>3, <2>1 DEF ThreadsOK
  <2> HIDE DEF u
  <2>3. QED
    BY <1>1, <1>3, <1>4, <2>2 DEF ThreadsOK
<1> HIDE DEF u
<1>6. \/ next < Len(list) /\ next' = next + 1 /\ phase' = "create"
      \/ ~(next < Len(list)) /\ next' = 1 /\ phase' = "join"
  BY <1>1 DEF CreateThread
<1>7. next' \in 1 .. Len(list) /\ phase' \in {"create", "join"}
  BY <1>2, <1>3, <1>6
<1>8. TypeOK'
  BY <1>1, <1>3, <1>5, <1>7 DEF Inv, TypeOK, ListOK, ThreadsOK, Phase
<1>9. MeasureInv'
  BY <1>4, <1>5 DEF Inv, MeasureInv
<1>10. /\ \A k \in 1 .. Len(list) : thread'[k].at = "done" => list[k].distance = thread'[k].distance
       /\ \A k \in Positions : thread'[k].at # "none" => k \in 1 .. Len(list)
  BY <1>2, <1>3, <1>4, <1>5
<1>11. phase' = "create" => \A k \in Positions : k >= next' => thread'[k] = NotStarted
  <2>1. phase' = "create" => \A k \in Positions : k >= next' => k >= next /\ k # next
    BY <1>2, <1>3, <1>6 DEF Positions
  <2>2. QED
    BY <1>2, <1>5, <2>1
<1>12. phase' = "join" => \A k \in 1 .. Len(list) : ~(k < next')
  BY <1>6, <1>3
<1>13. RedirectInv'
  BY <1>1, <1>2, <1>7, <1>10, <1>11, <1>12 DEF RedirectInv
<1>14. SortInv' /\ BestBrokerFirst'
  BY <1>1, <1>7 DEF Inv, SortInv, BestBrokerFirst
<1>15. QED
  BY <1>8, <1>9, <1>13, <1>14 DEF Inv

\* A thread that has ended does not start again: when the last is joined all have.
LEMMA JoinThreadStep ==
  ASSUME Inv, JoinThread
  PROVE  Inv'
<1>1. /\ phase = "join" /\ UNCHANGED <<result, v4v6, list, sorted, thread, file, redirects, restarts>>
      /\ thread[next].at = "done" /\ ListOK
  BY DEF JoinThread, Inv, TypeOK
<1>2. /\ FromMessage(list) /\ next \in 1 .. Len(list) /\ Len(list) \in Nat
      /\ \A k \in 1 .. Len(list) : thread[k].at = "done" => list[k].distance = thread[k].distance
      /\ \A k \in Positions : thread[k].at # "none" => k \in 1 .. Len(list)
      /\ \A k \in 1 .. Len(list) : k < next => thread[k].at = "done"
  BY <1>1 DEF Inv, RedirectInv, ListOK
<1>3. \/ next < Len(list) /\ next' = next + 1 /\ phase' = "join"
      \/ ~(next < Len(list)) /\ next' = 1 /\ phase' = "sort"
  BY <1>1 DEF JoinThread
<1>4. next' \in 1 .. Len(list) /\ phase' \in {"join", "sort"}
  BY <1>2, <1>3
<1>5. TypeOK' /\ MeasureInv'
  BY <1>1, <1>4 DEF Inv, TypeOK, ListOK, ThreadsOK, Phase, MeasureInv
<1>6. \A k \in 1 .. Len(list) : k <= next => thread[k].at = "done"
  <2>1. \A k \in 1 .. Len(list) : k <= next => k < next \/ k = next
    BY <1>2
  <2>2. QED
    BY <1>1, <1>2, <2>1
<1>7. /\ phase' = "join" => \A k \in 1 .. Len(list) : k < next' => k <= next
      /\ phase' = "sort" => \A k \in 1 .. Len(list) : k <= next
  BY <1>2, <1>3
<1>8. RedirectInv'
  BY <1>1, <1>2, <1>4, <1>6, <1>7 DEF RedirectInv
<1>9. SortInv'
  <2>1. sorted' = <<>>
    BY <1>1 DEF Inv, SortInv
  <2>2. CASE phase' = "sort"
    <3>1. NonDecreasing(sorted')
      BY <2>1 DEF NonDecreasing
    <3>2. next' - 1 = 0
      BY <1>3, <2>2
    <3>3. <<>> \in Bijection(1 .. 0, 1 .. 0)
      BY DEF Bijection, Injection, Surjection, IsInjective
    <3>4. Rearranges(<<>>, sorted', list', next' - 1)
      BY <2>1, <3>2, <3>3, EmptyLists DEF Rearranges
    <3>5. QED
      BY <2>2, <3>1, <3>4 DEF SortInv
  <2>3. QED
    BY <1>4, <2>1, <2>2 DEF SortInv
<1>10. BestBrokerFirst'
  BY <1>4 DEF BestBrokerFirst
<1>11. QED
  BY <1>5, <1>8, <1>9, <1>10 DEF Inv

\* The sorted list of all the elements is what the property asks for.
LEMMA SortedIsBest ==
  ASSUME NEW r \in Seq(Element), NonDecreasing(r), NEW p,
         ListOK, Rearranges(p, r, list, Len(list)), FromMessage(list), Len(list) <= MaxInList,
         MeasureInv, ThreadsOK,
         \A i \in 1 .. Len(list) : thread[i].at = "done" /\ list[i].distance = thread[i].distance,
         list' = r, thread' = thread
  PROVE  BestBrokerFirst'
<1> DEFINE n == Len(list)
<1>1. n \in Nat /\ Len(r) = n /\ DOMAIN r = 1 .. n /\ 1 .. n \subseteq Positions
  BY BrokerListsAssumption DEF ListOK, Rearranges, Positions
<1>2. /\ p \in Bijection(1 .. n, 1 .. n)
      /\ \A i \in 1 .. n : p[i] \in 1 .. n /\ r[i] = list[p[i]]
  BY DEF Rearranges, Bijection, Injection
<1>3. PICK m \in Messages : Addresses(list) = Addresses(tspCreateBrokerList(m))
  BY DEF FromMessage
<1> DEFINE measured == Addresses(tspCreateBrokerList(m))
<1>4. Len(measured) = n /\ \A i \in 1 .. n : measured[i] = list[i].address
  BY <1>3, AddressesOfList DEF ListOK
<1> HIDE DEF n, measured
<1>5. \A i \in 1 .. n : thread[i].at = "done" /\ list[i].distance = thread[i].distance
  BY DEF n
<1>6. IsMeasuredList(p, measured)'
  <2>1. \A i \in 1 .. n : /\ thread[p[i]].at = "done"
                          /\ r[i].distance = thread[p[i]].distance
                          /\ r[i].address = measured[p[i]]
    BY <1>2, <1>4, <1>5
  <2>2. QED
    BY <1>1, <2>1 DEF IsMeasuredList
<1>7. \A i, j \in 1 .. n : i < j => r[i].distance <= r[j].distance
  BY <1>1 DEF NonDecreasing
<1>8. ASSUME NEW i \in 1 .. n PROVE thread[p[i]] \in Thread /\ MeasuredOK(thread[p[i]]) /\ r[i].distance = thread[p[i]].distance
  <2>1. p[i] \in Positions /\ p[i] \in 1 .. n /\ r[i] = list[p[i]]
    BY <1>1, <1>2
  <2>2. QED
    BY <1>5, <2>1 DEF MeasureInv, ThreadsOK
<1>9. UsableFirst(p)'
  <2>1. ASSUME NEW i \in 1 .. n, NEW j \in 1 .. n,
               \/ thread[p[i]].family /\ thread[p[i]].status = "OK" /\ thread[p[j]].status \in {"TIMEOUT", "ERROR"}
               \/ thread[p[i]].family /\ ~thread[p[j]].family
        PROVE  i < j
    <3> DEFINE ti == thread[p[i]]  tj == thread[p[j]]
    <3>1. /\ ti.at = "done" /\ tj.at = "done" /\ MeasuredOK(ti) /\ MeasuredOK(tj)
          /\ ti.distance \in Nat /\ tj.distance \in Nat
          /\ r[i].distance = ti.distance /\ r[j].distance = tj.distance
      BY <1>2, <1>5, <1>8 DEF Thread
    <3>2. Timeout \in Nat /\ Timeout > 0 /\ TimeoutAdjust = 2 * Timeout /\ WrongFamilyAdjust = 3 * Timeout
      BY BrokerListsAssumption DEF TimeoutAdjust, WrongFamilyAdjust
    <3>3. /\ ti.family /\ ti.status \in {"OK", "UNEXPECTED"} => ti.distance <= Timeout
          /\ ti.family => ti.distance <= 2 * Timeout
          /\ tj.status \in {"TIMEOUT", "ERROR"} => tj.distance >= 2 * Timeout
          /\ ~tj.family => tj.distance >= 3 * Timeout
      <4>1. /\ ti.family /\ ti.status \in {"OK", "UNEXPECTED"} => ti.distance <= Timeout
            /\ ti.family /\ ti.status \in {"TIMEOUT", "ERROR"} => ti.distance = 2 * Timeout
            /\ tj.family /\ tj.status \in {"TIMEOUT", "ERROR"} => tj.distance = 2 * Timeout
            /\ ~tj.family => tj.distance >= 3 * Timeout
            /\ ti.status \in {"OK", "UNEXPECTED", "TIMEOUT", "ERROR"}
        BY <3>1, <3>2 DEF MeasuredOK
      <4> HIDE DEF ti, tj
      <4>2. QED
        BY <3>1, <3>2, <4>1
    <3>4. ti.distance < tj.distance
      <4>1. CASE ti.family /\ ti.status = "OK" /\ tj.status \in {"TIMEOUT", "ERROR"}
        <5> HIDE DEF ti, tj
        <5>1. QED
          BY <3>1, <3>2, <3>3, <4>1
      <4>2. CASE ti.family /\ ~tj.family
        <5> HIDE DEF ti, tj
        <5>1. QED
          BY <3>1, <3>2, <3>3, <4>2
      <4>3. QED
        BY <2>1, <4>1, <4>2
    <3> HIDE DEF ti, tj
    <3>5. i # j /\ ~(j < i)
      BY <1>7, <3>1, <3>4
    <3>6. QED
      BY <3>5, <1>1
  <2>2. QED
    BY <1>1, <2>1 DEF UsableFirst
<1>10. QED
  <2>1. Len(measured) = Len(r) /\ p \in Bijection(DOMAIN r, DOMAIN r)
    BY <1>1, <1>2, <1>4
  <2>2. QED
    BY <1>1, <1>6, <1>7, <1>9, <2>1 DEF BestBrokerFirst, measured

LEMMA SortStep ==
  ASSUME Inv, tspSortBrokerList
  PROVE  Inv'
<1> DEFINE r == tspInsertInBrokerList(sorted, list[next])
<1>1. /\ phase = "sort" /\ UNCHANGED <<v4v6, thread, file, redirects, restarts>>
      /\ ListOK /\ ThreadsOK /\ MeasureInv /\ sorted \in Seq(Element) /\ file \in Seq(Address)
      /\ MaxInList \in Nat
  BY BrokerListsAssumption DEF tspSortBrokerList, Inv, TypeOK
<1>2. /\ FromMessage(list) /\ next \in 1 .. Len(list) /\ Len(list) \in Nat
      /\ \A k \in 1 .. Len(list) : thread[k].at = "done" /\ list[k].distance = thread[k].distance
      /\ \A k \in Positions : thread[k].at # "none" => k \in 1 .. Len(list)
      /\ NonDecreasing(sorted) /\ list[next] \in Element
  BY <1>1 DEF Inv, RedirectInv, SortInv, ListOK
<1>3. PICK p : Rearranges(p, sorted, list, next - 1)
  BY <1>1 DEF Inv, SortInv
<1>4. r \in Seq(Element) /\ Len(r) = Len(sorted) + 1 /\ NonDecreasing(r)
  BY <1>1, <1>2, InsertionKeepsOrder
<1>5. \E q : Rearranges(q, r, list, next)
  <2>1. next - 1 \in Nat /\ (next - 1) + 1 = next
    BY <1>2
  <2> DEFINE k == next - 1
  <2>2. list[next] = list[k + 1]
    BY <2>1
  <2> HIDE DEF k
  <2>3. \E q : Rearranges(q, tspInsertInBrokerList(sorted, list[next]), list, k + 1)
    BY <1>1, <1>2, <1>3, <2>1, <2>2, InsertionRearranges DEF k
  <2>4. QED
    BY <2>1, <2>3 DEF k
<1> HIDE DEF r
<1>6. CASE next < Len(list)
  <2>1. sorted' = r /\ next' = next + 1 /\ UNCHANGED <<phase, result, list>>
    BY <1>6 DEF tspSortBrokerList, r
  <2>2. next' \in 1 .. Len(list) /\ next' - 1 = next
    BY <1>2, <1>6, <2>1
  <2>3. TypeOK' /\ MeasureInv'
    BY <1>1, <1>4, <2>1, <2>2 DEF Inv, TypeOK, ListOK, ThreadsOK, MeasureInv
  <2>4. RedirectInv'
    BY <1>1, <1>2, <2>1, <2>2 DEF RedirectInv
  <2>5. SortInv'
    BY <1>1, <1>4, <1>5, <2>1, <2>2 DEF SortInv
  <2>6. BestBrokerFirst'
    BY <1>1, <2>1 DEF BestBrokerFirst
  <2>7. QED
    BY <2>3, <2>4, <2>5, <2>6 DEF Inv
<1>7. CASE ~(next < Len(list))
  <2>1. list' = r /\ sorted' = <<>> /\ next' = 1 /\ phase' = "write"
    BY <1>7 DEF tspSortBrokerList, r, GoOn
  <2>2. next = Len(list)
    BY <1>2, <1>7
  <2>3. PICK q : Rearranges(q, r, list, Len(list))
    BY <1>5, <2>2
  <2>4. Len(r) = Len(list) /\ Len(list) <= MaxInList
    BY <1>1, <2>3 DEF Rearranges, ListOK
  <2>5. TypeOK' /\ MeasureInv'
    BY <1>1, <1>4, <2>1, <2>4, EmptyLists DEF Inv, TypeOK, ListOK, ThreadsOK, MeasureInv, Phase
  <2>6. RedirectInv' /\ SortInv'
    BY <2>1 DEF RedirectInv, SortInv
  <2>7. BestBrokerFirst'
    BY <1>1, <1>2, <1>4, <2>1, <2>3, <2>4, SortedIsBest
  <2>8. QED
    BY <2>5, <2>6, <2>7 DEF Inv
<1>8. QED
  BY <1>6, <1>7

\* Steps that end the handling of a redirection, or take place outside of it.
LEMMA OtherMainSteps ==
  ASSUME Inv, CreateThreadFails \/ SortFails \/ tspWriteBrokerListToFile \/ tspReadBrokerListFromFile
  PROVE  Inv'
<1>1. TypeOK /\ MeasureInv /\ MaxInList \in Nat
  BY BrokerListsAssumption DEF Inv
<1>2. CASE CreateThreadFails
  <2>1. phase = "create" /\ phase' = "stopped" /\ UNCHANGED <<list, sorted, next, thread, file>>
    BY <1>2 DEF CreateThreadFails, Stop
  <2>2. TypeOK' /\ MeasureInv'
    BY <1>1, <2>1 DEF TypeOK, ListOK, ThreadsOK, MeasureInv, Phase
  <2>3. sorted' = <<>>
    BY <2>1 DEF Inv, SortInv
  <2>4. QED
    BY <2>1, <2>2, <2>3, QuietStep
<1>3. CASE SortFails
  <2>1. phase' = "stopped" /\ sorted' = <<>> /\ UNCHANGED <<list, next, thread, file>>
    BY <1>3 DEF SortFails, Stop
  <2>2. TypeOK' /\ MeasureInv'
    BY <1>1, <2>1, EmptyLists DEF TypeOK, ListOK, ThreadsOK, MeasureInv, Phase
  <2>3. QED
    BY <2>1, <2>2, QuietStep
<1>4. CASE tspWriteBrokerListToFile
  <2>1. phase = "write" /\ phase' = "idle" /\ thread' = NoThreads /\ UNCHANGED <<list, sorted, next>>
    BY <1>4 DEF tspWriteBrokerListToFile
  <2>2. file' \in Seq(Address)
    BY <1>1, <1>4, PartOfFile DEF tspWriteBrokerListToFile, TypeOK, ListOK
  <2>3. TypeOK' /\ MeasureInv'
    BY <1>1, <2>1, <2>2, NoThreadsOK DEF TypeOK, ListOK, ThreadsOK, MeasureInv, Phase
  <2>4. sorted' = <<>>
    BY <2>1 DEF Inv, SortInv
  <2>5. QED
    BY <2>1, <2>3, <2>4, QuietStep
<1>5. CASE tspReadBrokerListFromFile
  <2>1. phase = "idle" /\ UNCHANGED <<phase, v4v6, sorted, next, thread, file, redirects, restarts>>
    BY <1>5 DEF tspReadBrokerListFromFile
  <2>2. ListOK'
    <3>1. CASE list' = ListOf(file, "NONE") /\ tspAddBrokerToList(file)
      <4>1. list' \in Seq(Element) /\ Len(list') = Len(file)
        BY <1>1, <3>1, ListOfElements DEF TypeOK
      <4>2. QED
        BY <3>1, <4>1 DEF tspAddBrokerToList, ListOK
    <3>2. CASE list' = <<>>
      BY <3>2, EmptyLists DEF ListOK
    <3>3. QED
      BY <1>5, <3>1, <3>2 DEF tspReadBrokerListFromFile
  <2>3. TypeOK' /\ MeasureInv'
    BY <1>1, <2>1, <2>2 DEF TypeOK, ThreadsOK, MeasureInv, Phase
  <2>4. sorted' = <<>>
    BY <2>1 DEF Inv, SortInv
  <2>5. QED
    BY <2>1, <2>3, <2>4, QuietStep
<1>6. QED
  BY <1>2, <1>3, <1>4, <1>5

LEMMA RestartStep ==
  ASSUME Inv, Restart
  PROVE  Inv'
<1>1. TypeOK /\ MeasureInv
  BY DEF Inv
<1>2. phase' = "idle" /\ list' = <<>> /\ sorted' = <<>> /\ next' = 1 /\ thread' = NoThreads
  BY DEF Restart, GoOn
<1>3. file' \in Seq(Address)
  BY <1>1, PartOfFile DEF Restart, TypeOK, ListOK
<1>4. TypeOK' /\ MeasureInv'
  BY <1>1, <1>2, <1>3, NoThreadsOK, EmptyLists DEF TypeOK, ListOK, ThreadsOK, MeasureInv, Phase
<1>5. QED
  BY <1>2, <1>4, QuietStep

-------------------------------------------------------------------------------
(* A redirection ends: liveness itself is for TLC, but that a step of it uses   *)
(* up some of a finite amount of work, whatever arrives, can be proved.         *)

Handling == phase \in {"create", "join", "sort", "write"}

\* An attempt is a request, its wait and the end of it.
AttemptsLeft(r) == (Attempts - r) * (Timeout + 2)

\* At most how many steps a thread makes before it has ended.
WorkOf(t) ==
  CASE t.at = "none"       -> AttemptsLeft(0) + 4
    [] t.at = "starting"   -> AttemptsLeft(0) + 3
    [] t.at = "connecting" -> AttemptsLeft(0) + 2
    [] t.at = "sending"    -> AttemptsLeft(t.retries) + 1
    [] t.at = "waiting"    -> AttemptsLeft(t.retries) - t.waited
    [] t.at = "done"       -> 0

\* The same for the main thread: it creates, joins and inserts, element by element.
MainWork ==
  CASE phase = "create" -> 3 * (MaxInList + 1) - next
    [] phase = "join"   -> 2 * (MaxInList + 1) - next
    [] phase = "sort"   -> MaxInList + 1 - next
    [] OTHER            -> 0

\* The work left is a number, and the thread that is waited for was started.
WorkFinite ==
  /\ MainWork \in Nat
  /\ \A i \in Positions : WorkOf(thread[i]) \in Nat
  /\ phase = "join" => thread[next].at # "none"

\* Either the main thread has less to do and no other more, or one other thread has.
WorkUsed ==
  \/ /\ MainWork' < MainWork
     /\ \A i \in Positions : WorkOf(thread'[i]) <= WorkOf(thread[i])
  \/ /\ MainWork' = MainWork
     /\ \E i \in Positions :
          /\ WorkOf(thread'[i]) < WorkOf(thread[i])
          /\ \A k \in Positions \ {i} : thread'[k] = thread[k]

\* The retries are counted, and only between the requests of one measurement.
RetriesOK(t) ==
  /\ t.at = "sending" => t.retries <= Attempts
  /\ t.at = "waiting" => t.retries < Attempts
  /\ t.at \notin {"sending", "waiting"} => t.retries = 0

RetryInv == \A i \in Positions : RetriesOK(thread[i])

\* The threads of the elements before the cursor, and then all, were started.
StartedInv ==
  /\ phase = "create" => \A i \in DOMAIN list : i < next => thread[i].at # "none"
  /\ phase = "join" => \A i \in DOMAIN list : thread[i].at # "none"

LEMMA AttemptsLeftFacts ==
  /\ AttemptsLeft(0) \in Nat
  /\ \A r \in Nat : r <= Attempts => AttemptsLeft(r) \in Nat
  /\ \A r \in Nat : r < Attempts => AttemptsLeft(r) = AttemptsLeft(r + 1) + Timeout + 2
<1>1. Attempts \in Nat /\ Timeout \in Nat
  BY BrokerListsAssumption
<1>2. ASSUME NEW d \in Nat PROVE d * (Timeout + 2) \in Nat /\ (d + 1) * (Timeout + 2) = d * (Timeout + 2) + Timeout + 2
  BY <1>1, <1>2
<1>3. ASSUME NEW r \in Nat, r <= Attempts PROVE AttemptsLeft(r) \in Nat
  <2>1. Attempts - r \in Nat
    BY <1>1, <1>3
  <2>2. QED
    BY <1>2, <2>1 DEF AttemptsLeft
<1>4. ASSUME NEW r \in Nat, r < Attempts PROVE AttemptsLeft(r) = AttemptsLeft(r + 1) + Timeout + 2
  <2>1. Attempts - (r + 1) \in Nat /\ (Attempts - (r + 1)) + 1 = Attempts - r
    BY <1>1, <1>4
  <2>2. QED
    BY <1>2, <2>1 DEF AttemptsLeft
<1>5. QED
  BY <1>1, <1>3, <1>4

LEMMA WorkOfEach ==
  ASSUME NEW t
  PROVE  /\ t.at = "none" => WorkOf(t) = AttemptsLeft(0) + 4
         /\ t.at = "starting" => WorkOf(t) = AttemptsLeft(0) + 3
         /\ t.at = "connecting" => WorkOf(t) = AttemptsLeft(0) + 2
         /\ t.at = "sending" => WorkOf(t) = AttemptsLeft(t.retries) + 1
         /\ t.at = "waiting" => WorkOf(t) = AttemptsLeft(t.retries) - t.waited
         /\ t.at = "done" => WorkOf(t) = 0
  BY DEF WorkOf

\* Until it has ended a thread has something to do.
LEMMA WorkOfThread ==
  ASSUME NEW t \in Thread, MeasuredOK(t), RetriesOK(t)
  PROVE  /\ WorkOf(t) \in Nat
         /\ t.at # "done" => WorkOf(t) > 0
<1>1. /\ t.retries \in Nat /\ t.waited \in Nat /\ t.at \in Place
      /\ Attempts \in Nat /\ Timeout \in Nat /\ t.waited <= Timeout
  BY BrokerListsAssumption DEF Thread, MeasuredOK
<1>2. CASE t.at \in {"none", "starting", "connecting"}
  BY <1>2, AttemptsLeftFacts, WorkOfEach
<1>3. CASE t.at = "sending"
  <2>1. AttemptsLeft(t.retries) \in Nat
    BY <1>1, <1>3, AttemptsLeftFacts DEF RetriesOK
  <2>2. QED
    BY <1>3, <2>1, WorkOfEach
<1>4. CASE t.at = "waiting"
  <2>1. t.retries < Attempts /\ t.retries + 1 \in Nat /\ t.retries + 1 <= Attempts
    BY <1>1, <1>4 DEF RetriesOK
  <2>2. AttemptsLeft(t.retries + 1) \in Nat
    BY <2>1, AttemptsLeftFacts
  <2>3. AttemptsLeft(t.retries) = AttemptsLeft(t.retries + 1) + Timeout + 2
    BY <1>1, <2>1, AttemptsLeftFacts
  <2> HIDE DEF AttemptsLeft
  <2>4. WorkOf(t) = AttemptsLeft(t.retries) - t.waited
    BY <1>4, WorkOfEach
  <2>5. QED
    BY <1>1, <2>2, <2>3, <2>4
<1>5. CASE t.at = "done"
  BY <1>5, WorkOfEach
<1>6. QED
  BY <1>1, <1>2, <1>3, <1>4, <1>5 DEF Place

\* A step of a thread uses up work, or the message received changes nothing.
LEMMA ThreadWork ==
  ASSUME ThreadsOK, NEW i \in Positions, MeasuredOK(thread[i]), RetriesOK(thread[i]), Measuring(i)
  PROVE  \/ UNCHANGED threads
         \/ \E t \in Thread :
              /\ thread' = [thread EXCEPT ![i] = t]
              /\ RetriesOK(t) /\ WorkOf(t) < WorkOf(thread[i])
<1> DEFINE t == thread[i]
           Goal == \E u \in Thread :
                     /\ thread' = [thread EXCEPT ![i] = u]
                     /\ RetriesOK(u) /\ WorkOf(u) < WorkOf(t)
<1>0. /\ thread \in [Positions -> Thread] /\ t \in Thread
      /\ t.distance \in Nat /\ t.waited \in Nat /\ t.retries \in Nat /\ t.family \in BOOLEAN
      /\ Timeout \in Nat /\ Attempts \in Nat /\ Attempts > 0
      /\ ErrorAdjust \in Nat /\ TimeoutAdjust \in Nat /\ WrongFamilyAdjust \in Nat
  BY BrokerListsAssumption DEF ThreadsOK, Thread, ErrorAdjust, TimeoutAdjust, WrongFamilyAdjust
<1>1. WorkOf(t) \in Nat /\ (t.at # "done" => WorkOf(t) > 0)
  BY <1>0, WorkOfThread
<1>2. ASSUME NEW adjust \in Nat, NEW status \in Status, Finished(i, adjust, status), t.at # "done"
      PROVE  Goal
  <2> DEFINE e == [t EXCEPT !.at = "done", !.distance = @ + adjust, !.status = status, !.retries = 0, !.waited = 0]
  <2>1. t.distance + adjust \in Nat
    BY <1>0
  <2>2. e \in Thread /\ e.at = "done" /\ e.retries = 0
    BY <1>0, <2>1 DEF Thread, Place
  <2>3. thread' = [thread EXCEPT ![i] = e]
    BY <1>0, <1>2 DEF Finished
  <2> HIDE DEF e
  <2>4. RetriesOK(e) /\ WorkOf(e) = 0
    BY <1>0, <2>2, WorkOfEach DEF RetriesOK
  <2>5. QED
    BY <1>1, <1>2, <2>2, <2>3, <2>4
<1>3. /\ "ERROR" \in Status /\ "TIMEOUT" \in Status /\ "OK" \in Status /\ "UNEXPECTED" \in Status
      /\ "connecting" \in Place /\ "sending" \in Place /\ "waiting" \in Place
  BY DEF Status, Place
<1>4. CASE StartFails(i)
  BY <1>0, <1>2, <1>3, <1>4 DEF StartFails
<1>5. CASE tspDoEchoRequest(i)
  <2>1. PICK s : /\ t.at = "starting"
                 /\ thread' = [thread EXCEPT ![i].at = "connecting", ![i].family = (s = "OK"),
                                 ![i].distance = IF s = "OK" THEN 0 ELSE WrongFamilyAdjust]
    BY <1>5 DEF tspDoEchoRequest
  <2> DEFINE u == [t EXCEPT !.at = "connecting", !.family = (s = "OK"),
                             !.distance = IF s = "OK" THEN 0 ELSE WrongFamilyAdjust]
  <2>2. thread' = [thread EXCEPT ![i] = u]
    BY <1>0, <2>1
  <2>3. u \in Thread /\ u.at = "connecting" /\ u.retries = t.retries
    BY <1>0, <1>3 DEF Thread
  <2> HIDE DEF u
  <2>4. RetriesOK(u)
    BY <2>1, <2>3 DEF RetriesOK
  <2>5. WorkOf(u) = AttemptsLeft(0) + 2 /\ WorkOf(t) = AttemptsLeft(0) + 3
    BY <2>1, <2>3, WorkOfEach
  <2>6. WorkOf(u) < WorkOf(t)
    BY <2>5, AttemptsLeftFacts
  <2>7. QED
    BY <2>2, <2>3, <2>4, <2>6
<1>6. CASE createConnectedSocket(i)
  <2>1. CASE thread' = [thread EXCEPT ![i].at = "sending"] /\ UNCHANGED list
    <3> DEFINE u == [t EXCEPT !.at = "sending"]
    <3>1. thread' = [thread EXCEPT ![i] = u]
      BY <1>0, <2>1
    <3>2. u \in Thread /\ u.at = "sending" /\ u.retries = t.retries
      BY <1>0, <1>3 DEF Thread
    <3> HIDE DEF u
    <3>3. t.at = "connecting" /\ t.retries = 0
      BY <1>6 DEF createConnectedSocket, RetriesOK
    <3>4. RetriesOK(u)
      BY <1>0, <3>2, <3>3 DEF RetriesOK
    <3>5. WorkOf(u) = AttemptsLeft(0) + 1 /\ WorkOf(t) = AttemptsLeft(0) + 2
      BY <3>2, <3>3, WorkOfEach
    <3>6. WorkOf(u) < WorkOf(t)
      BY <3>5, AttemptsLeftFacts
    <3>7. QED
      BY <3>1, <3>2, <3>4, <3>6
  <2>2. CASE Finished(i, ErrorAdjust, "ERROR")
    BY <1>0, <1>2, <1>3, <1>6, <2>2 DEF createConnectedSocket
  <2>3. QED
    BY <1>6, <2>1, <2>2 DEF createConnectedSocket
<1>7. CASE SendRequest(i)
  <2>1. CASE thread' = [thread EXCEPT ![i].at = "waiting", ![i].waited = 0] /\ UNCHANGED list
    <3> DEFINE u == [t EXCEPT !.at = "waiting", !.waited = 0]
    <3>1. thread' = [thread EXCEPT ![i] = u]
      BY <1>0, <2>1
    <3>2. u \in Thread /\ u.at = "waiting" /\ u.retries = t.retries /\ u.waited = 0
      BY <1>0, <1>3 DEF Thread
    <3> HIDE DEF u
    <3>3. t.at = "sending" /\ t.retries < Attempts
      BY <1>7 DEF SendRequest
    <3>4. RetriesOK(u)
      BY <3>2, <3>3 DEF RetriesOK
    <3>5. WorkOf(u) = AttemptsLeft(t.retries) - 0 /\ WorkOf(t) = AttemptsLeft(t.retries) + 1
      BY <3>2, <3>3, WorkOfEach
    <3>6. AttemptsLeft(t.retries) \in Nat
      BY <1>0, <3>3, AttemptsLeftFacts
    <3>7. WorkOf(u) < WorkOf(t)
      BY <3>5, <3>6
    <3>8. QED
      BY <3>1, <3>2, <3>4, <3>7
  <2>2. CASE Finished(i, ErrorAdjust, "ERROR")
    BY <1>0, <1>2, <1>3, <1>7, <2>2 DEF SendRequest
  <2>3. QED
    BY <1>7, <2>1, <2>2 DEF SendRequest
<1>8. CASE GiveUp(i)
  BY <1>0, <1>2, <1>3, <1>8 DEF GiveUp
<1>9. CASE AnswerArrives(i)
  BY <1>0, <1>2, <1>3, <1>9 DEF AnswerArrives
<1>10. CASE StrayMessage(i) /\ ~UNCHANGED threads
  BY <1>0, <1>2, <1>3, <1>10 DEF StrayMessage
<1>11. CASE Tick(i)
  <2> DEFINE u == [t EXCEPT !.waited = @ + 1]
  <2>1. thread' = [thread EXCEPT ![i] = u] /\ t.at = "waiting"
    BY <1>0, <1>11 DEF Tick
  <2>2. u \in Thread /\ u.at = "waiting" /\ u.retries = t.retries /\ u.waited = t.waited + 1
    BY <1>0, <2>1 DEF Thread
  <2> HIDE DEF u
  <2>3. RetriesOK(u)
    BY <2>1, <2>2 DEF RetriesOK
  <2>4. WorkOf(u) = AttemptsLeft(t.retries) - (t.waited + 1) /\ WorkOf(t) = AttemptsLeft(t.retries) - t.waited
    BY <2>1, <2>2, WorkOfEach
  <2>5. t.retries < Attempts
    BY <2>1 DEF RetriesOK
  <2>6. AttemptsLeft(t.retries) \in Nat
    BY <1>0, <2>5, AttemptsLeftFacts
  <2>7. WorkOf(u) < WorkOf(t)
    BY <1>0, <2>4, <2>6
  <2>8. QED
    BY <2>1, <2>2, <2>3, <2>7
<1>12. CASE SelectTimesOut(i)
  <2> DEFINE u == [t EXCEPT !.at = "sending", !.retries = @ + 1]
  <2>1. thread' = [thread EXCEPT ![i] = u] /\ t.at = "waiting" /\ t.waited = Timeout
    BY <1>0, <1>12 DEF SelectTimesOut
  <2>2. u \in Thread /\ u.at = "sending" /\ u.retries = t.retries + 1
    <3>1. t.retries + 1 \in Nat
      BY <1>0
    <3>2. QED
      BY <1>0, <1>3, <3>1 DEF Thread
  <2> HIDE DEF u
  <2>3. t.retries < Attempts /\ t.retries + 1 \in Nat /\ t.retries + 1 <= Attempts
    BY <1>0, <2>1 DEF RetriesOK
  <2>4. RetriesOK(u)
    BY <2>2, <2>3 DEF RetriesOK
  <2>5. WorkOf(u) = AttemptsLeft(t.retries + 1) + 1 /\ WorkOf(t) = AttemptsLeft(t.retries) - Timeout
    BY <2>1, <2>2, WorkOfEach
  <2>6. /\ AttemptsLeft(t.retries + 1) \in Nat
        /\ AttemptsLeft(t.retries) = AttemptsLeft(t.retries + 1) + Timeout + 2
    BY <1>0, <2>3, AttemptsLeftFacts
  <2>7. WorkOf(u) < WorkOf(t)
    BY <1>0, <2>5, <2>6
  <2>8. QED
    BY <2>1, <2>2, <2>4, <2>7
<1>13. QED
  BY <1>4, <1>5, <1>6, <1>7, <1>8, <1>9, <1>10, <1>11, <1>12 DEF Measuring

\* The invariants of the work: with Inv they are inductive.
WorkInv == RetryInv /\ StartedInv

LEMMA WorkInvFinite ==
  ASSUME Inv, WorkInv
  PROVE  WorkFinite
<1>1. /\ ListOK /\ ThreadsOK /\ MeasureInv /\ RetryInv /\ StartedInv
      /\ MaxInList \in Nat
  BY BrokerListsAssumption DEF Inv, TypeOK, WorkInv
<1>2. \A i \in Positions : WorkOf(thread[i]) \in Nat
  <2>1. \A i \in Positions : thread[i] \in Thread /\ MeasuredOK(thread[i]) /\ RetriesOK(thread[i])
    BY <1>1 DEF ThreadsOK, MeasureInv, RetryInv
  <2>2. QED
    BY <2>1, WorkOfThread
<1>3. phase \in {"create", "join", "sort"} => next \in 1 .. Len(list) /\ Len(list) \in Nat /\ Len(list) <= MaxInList
  BY <1>1 DEF Inv, RedirectInv, ListOK
<1>4. MainWork \in Nat
  BY <1>1, <1>3 DEF MainWork
<1>5. phase = "join" => thread[next].at # "none"
  BY <1>1, <1>3 DEF StartedInv, ListOK
<1>6. QED
  BY <1>2, <1>4, <1>5 DEF WorkFinite

LEMMA MeasuringWork ==
  ASSUME Inv, WorkInv, NEW i \in Positions, tspGetBrokerDistance(i)
  PROVE  WorkInv' /\ (UNCHANGED vars \/ WorkUsed)
<1>1. /\ ThreadsOK /\ ListOK /\ phase \in {"create", "join"} /\ Measuring(i)
      /\ MeasuredOK(thread[i]) /\ RetriesOK(thread[i]) /\ RetryInv /\ StartedInv
      /\ UNCHANGED <<phase, result, v4v6, sorted, next, file, redirects, restarts>>
  BY DEF Inv, TypeOK, MeasureInv, WorkInv, RetryInv, tspGetBrokerDistance
<1>2. CASE UNCHANGED threads
  <2>1. UNCHANGED vars
    BY <1>1, <1>2 DEF vars, threads
  <2>2. WorkInv'
    BY <1>1, <2>1 DEF vars, WorkInv, RetryInv, StartedInv
  <2>3. QED
    BY <2>1, <2>2
<1>3. ASSUME NEW t \in Thread, thread' = [thread EXCEPT ![i] = t], RetriesOK(t), WorkOf(t) < WorkOf(thread[i])
      PROVE  WorkInv' /\ WorkUsed
  <2>1. thread'[i] = t /\ \A k \in Positions : k # i => thread'[k] = thread[k]
    BY <1>1, <1>3 DEF ThreadsOK
  <2>2. RetryInv'
    BY <1>1, <1>3, <2>1 DEF RetryInv
  <2>3. thread'[i].at # "none"
    <3>1. PICK u \in Thread : u.at # "none" /\ thread' = [thread EXCEPT ![i] = u]
      BY <1>1, ThreadStep
    <3>2. QED
      BY <1>1, <3>1 DEF ThreadsOK
  <2>4. DOMAIN list' = DOMAIN list
    <3>1. PICK u \in Thread : list' = list \/ list' = [list EXCEPT ![i].distance = u.distance]
      BY <1>1, ThreadStep
    <3>2. QED
      BY <3>1
  <2>5. StartedInv'
    <3>1. \A k \in DOMAIN list : thread[k].at # "none" => thread'[k].at # "none"
      <4>1. DOMAIN list \subseteq Positions
        BY <1>1, BrokerListsAssumption DEF ListOK, Positions
      <4>2. QED
        BY <2>1, <2>3, <4>1
    <3>2. QED
      BY <1>1, <2>4, <3>1 DEF StartedInv
  <2>6. MainWork' = MainWork
    BY <1>1 DEF MainWork
  <2>7. WorkUsed
    BY <1>3, <2>1, <2>6 DEF WorkUsed
  <2>8. QED
    BY <2>2, <2>5, <2>7 DEF WorkInv
<1>4. QED
  BY <1>1, <1>2, <1>3, ThreadWork

LEMMA CreateThreadWork ==
  ASSUME Inv, WorkInv, CreateThread
  PROVE  WorkInv' /\ WorkUsed
<1>1. /\ phase = "create" /\ list' = list /\ thread' = [thread EXCEPT ![next].at = "starting"]
      /\ ListOK /\ ThreadsOK /\ MeasureInv /\ RetryInv /\ StartedInv /\ MaxInList \in Nat
      /\ next \in 1 .. Len(list)
      /\ \A k \in Positions : k >= next => thread[k] = NotStarted
  BY BrokerListsAssumption DEF CreateThread, Inv, TypeOK, RedirectInv, WorkInv
<1>2. /\ Len(list) \in Nat /\ Len(list) <= MaxInList /\ DOMAIN list = 1 .. Len(list)
      /\ 1 .. Len(list) \subseteq Positions /\ next \in Positions /\ next \in Nat
  BY <1>1 DEF ListOK, Positions
<1> DEFINE u == [NotStarted EXCEPT !.at = "starting"]
<1>3. u.at = "starting" /\ u.retries = 0
  BY DEF NotStarted
<1>4. thread[next] = NotStarted
  BY <1>1, <1>2
<1>5. thread'[next] = u /\ \A k \in Positions : k # next => thread'[k] = thread[k]
  BY <1>1, <1>2, <1>4 DEF ThreadsOK
<1> HIDE DEF u
<1>6. RetryInv'
  <2>1. RetriesOK(u)
    BY <1>3 DEF RetriesOK
  <2>2. QED
    BY <1>1, <1>5, <2>1 DEF RetryInv
<1>7. \/ next < Len(list) /\ next' = next + 1 /\ phase' = "create"
      \/ next = Len(list) /\ next' = 1 /\ phase' = "join"
  BY <1>1, <1>2 DEF CreateThread
<1>8. \A k \in 1 .. Len(list) : k <= next => thread'[k].at # "none"
  <2> SUFFICES ASSUME NEW k \in 1 .. Len(list), k <= next PROVE thread'[k].at # "none"
    OBVIOUS
  <2>1. CASE k = next
    BY <1>3, <1>5, <2>1
  <2>2. CASE k < next
    BY <1>1, <1>2, <1>5, <2>2 DEF StartedInv
  <2>3. QED
    BY <1>2, <2>1, <2>2
<1>9. StartedInv'
  <2>1. phase' = "create" => \A k \in 1 .. Len(list) : k < next' => k <= next
    BY <1>2, <1>7
  <2>2. phase' = "join" => \A k \in 1 .. Len(list) : k <= next
    BY <1>2, <1>7
  <2>3. QED
    BY <1>1, <1>2, <1>8, <2>1, <2>2 DEF StartedInv
<1>10. MainWork' < MainWork
  <2>1. MainWork = 3 * (MaxInList + 1) - next
    BY <1>1 DEF MainWork
  <2>2. CASE next < Len(list) /\ next' = next + 1 /\ phase' = "create"
    <3>1. MainWork' = 3 * (MaxInList + 1) - (next + 1)
      BY <2>2 DEF MainWork
    <3>2. QED
      BY <1>1, <1>2, <2>1, <3>1
  <2>3. CASE next = Len(list) /\ next' = 1 /\ phase' = "join"
    <3>1. MainWork' = 2 * (MaxInList + 1) - 1
      BY <2>3 DEF MainWork
    <3>2. QED
      BY <1>1, <1>2, <2>1, <3>1
  <2>4. QED
    BY <1>7, <2>2, <2>3
<1>11. \A k \in Positions : WorkOf(thread'[k]) <= WorkOf(thread[k])
  <2>1. \A k \in Positions : WorkOf(thread[k]) \in Nat
    BY <1>1, WorkInvFinite DEF WorkFinite
  <2>2. WorkOf(thread'[next]) <= WorkOf(thread[next])
    <3>1. WorkOf(u) = AttemptsLeft(0) + 3 /\ WorkOf(NotStarted) = AttemptsLeft(0) + 4
      BY <1>3, WorkOfEach, NotStartedOK
    <3>2. QED
      BY <1>4, <1>5, <3>1, AttemptsLeftFacts
  <2>3. ASSUME NEW k \in Positions PROVE WorkOf(thread'[k]) <= WorkOf(thread[k])
    <3>1. CASE k = next
      BY <2>2, <3>1
    <3>2. CASE k # next
      BY <1>5, <2>1, <3>2
    <3>3. QED
      BY <3>1, <3>2
  <2>4. QED
    BY <2>3
<1>12. QED
  BY <1>6, <1>9, <1>10, <1>11 DEF WorkInv, WorkUsed

\* A thread is joined, an element is inserted.
LEMMA JoinOrSortWork ==
  ASSUME Inv, WorkInv, JoinThread \/ tspSortBrokerList
  PROVE  WorkInv' /\ WorkUsed
<1>1. /\ thread' = thread /\ RetryInv /\ StartedInv /\ MaxInList \in Nat
      /\ next \in 1 .. Len(list) /\ Len(list) \in Nat /\ Len(list) <= MaxInList
  BY BrokerListsAssumption DEF JoinThread, tspSortBrokerList, Inv, TypeOK, ListOK, RedirectInv, WorkInv
<1>2. \A k \in Positions : WorkOf(thread'[k]) <= WorkOf(thread[k])
  BY <1>1, WorkInvFinite DEF WorkFinite
<1>3. CASE JoinThread
  <2>1. /\ phase = "join" /\ list' = list
        /\ \/ next < Len(list) /\ next' = next + 1 /\ phase' = "join"
           \/ next' = 1 /\ phase' = "sort"
    BY <1>3 DEF JoinThread
  <2>2. WorkInv'
    BY <1>1, <2>1 DEF WorkInv, RetryInv, StartedInv
  <2>3. MainWork' < MainWork
    BY <1>1, <2>1 DEF MainWork
  <2>4. QED
    BY <1>2, <2>2, <2>3 DEF WorkUsed
<1>4. CASE tspSortBrokerList
  <2>1. /\ phase = "sort"
        /\ \/ next < Len(list) /\ next' = next + 1 /\ phase' = "sort"
           \/ phase' = "write"
    BY <1>4 DEF tspSortBrokerList, GoOn
  <2>2. WorkInv'
    BY <1>1, <2>1 DEF WorkInv, RetryInv, StartedInv
  <2>3. MainWork' < MainWork
    BY <1>1, <2>1 DEF MainWork
  <2>4. QED
    BY <1>2, <2>2, <2>3 DEF WorkUsed
<1>5. QED
  BY <1>3, <1>4

\* The handling begins or ends.
LEMMA OutsideWork ==
  ASSUME Inv, WorkInv,
         \/ tspHandleRedirect \/ CreateThreadFails \/ SortFails \/ tspWriteBrokerListToFile
         \/ tspReadBrokerListFromFile \/ Restart
  PROVE  WorkInv' /\ ~(Handling /\ Handling')
<1>1. RetryInv /\ StartedInv
  BY DEF WorkInv
<1>2. \/ thread' = thread
      \/ thread' = NoThreads
  BY DEF tspHandleRedirect, CreateThreadFails, SortFails, tspWriteBrokerListToFile, tspReadBrokerListFromFile, Restart
<1>3. RetriesOK(NotStarted)
  BY DEF RetriesOK, NotStarted
<1>4. RetryInv'
  BY <1>1, <1>2, <1>3, NoThreadsOK DEF RetryInv
<1>5. CASE tspHandleRedirect
  <2>1. phase = "idle" /\ next' = 1 /\ phase' \in {"idle", "stopped", "create"}
    BY <1>5 DEF tspHandleRedirect, Stop, GoOn
  <2>2. DOMAIN list' \subseteq Nat \ {0}
    BY <1>5, HandleRedirectStep DEF Inv, TypeOK, ListOK
  <2>3. \A k \in DOMAIN list' : ~(k < next')
    BY <2>1, <2>2
  <2>4. StartedInv'
    BY <2>1, <2>3 DEF StartedInv
  <2>5. QED
    BY <1>4, <2>1, <2>4 DEF Handling, WorkInv
<1>6. CASE CreateThreadFails \/ SortFails \/ tspWriteBrokerListToFile \/ Restart
  <2>1. phase' \in {"idle", "stopped"}
    BY <1>6 DEF CreateThreadFails, SortFails, tspWriteBrokerListToFile, Restart, Stop, GoOn
  <2>2. QED
    BY <1>4, <2>1 DEF StartedInv, Handling, WorkInv
<1>7. CASE tspReadBrokerListFromFile
  <2>1. phase = "idle" /\ phase' = "idle"
    BY <1>7 DEF tspReadBrokerListFromFile
  <2>2. QED
    BY <1>4, <2>1 DEF StartedInv, Handling, WorkInv
<1>8. QED
  BY <1>5, <1>6, <1>7

-------------------------------------------------------------------------------
(* The theorems                                                                 *)

LEMMA InvStep == Inv /\ [Next]_vars => Inv'
<1> SUFFICES ASSUME Inv, [Next]_vars PROVE Inv'
  OBVIOUS
<1>1. CASE Next
  <2>1. ASSUME Main PROVE Inv'
    BY <2>1, CreateThreadStep, JoinThreadStep, SortStep, OtherMainSteps DEF Main
  <2>2. QED
    BY <1>1, <2>1, HandleRedirectStep, OtherMainSteps, RestartStep, MeasuringStep DEF Next
<1>2. CASE UNCHANGED vars
  BY <1>2 DEF vars, Inv, TypeOK, ListOK, ThreadsOK, MeasureInv, RedirectInv, SortInv, BestBrokerFirst,
             IsMeasuredList, UsableFirst
<1>3. QED
  BY <1>1, <1>2

LEMMA InvHolds == Spec => []Inv
  BY InvInit, InvStep, PTL DEF Spec

\* The list, the threads and the file keep their types, and the list its limit.
THEOREM BrokersTypeCorrect == Spec => []TypeOK
<1>1. Inv => TypeOK
  BY DEF Inv
<1>2. QED
  BY <1>1, InvHolds, PTL

\* However many brokers a redirection names, and in whatever order their threads
\* end, the list that is saved is sorted by the distances measured, has lost and
\* doubled no broker, and has those that can be used first.
THEOREM BrokersSorted == Spec => []BestBrokerFirst
<1>1. Inv => BestBrokerFirst
  BY DEF Inv
<1>2. QED
  BY <1>1, InvHolds, PTL

LEMMA WorkStep ==
  Inv /\ WorkInv /\ [Next]_vars => WorkInv' /\ [Handling /\ Handling' => WorkUsed]_vars
<1> SUFFICES ASSUME Inv, WorkInv, [Next]_vars
             PROVE  WorkInv' /\ (UNCHANGED vars \/ ~(Handling /\ Handling') \/ WorkUsed)
  OBVIOUS
<1>1. CASE Next
  <2>1. ASSUME Main PROVE WorkInv' /\ (~(Handling /\ Handling') \/ WorkUsed)
    BY <2>1, CreateThreadWork, JoinOrSortWork, OutsideWork DEF Main
  <2>2. QED
    BY <1>1, <2>1, OutsideWork, MeasuringWork DEF Next
<1>2. CASE UNCHANGED vars
  BY <1>2 DEF vars, WorkInv, RetryInv, StartedInv
<1>3. QED
  BY <1>1, <1>2

LEMMA WorkInit == Init => WorkInv
<1>1. RetriesOK(NotStarted)
  BY DEF RetriesOK, NotStarted
<1>2. QED
  BY <1>1, NoThreadsOK DEF Init, WorkInv, RetryInv, StartedInv

\* While a redirection is handled the work left is a number, and the thread that
\* the main thread waits for (tspGetBrokerDistances) is one that was started.
THEOREM WorkIsFinite == Spec => []WorkFinite
<1>1. Init => Inv /\ WorkInv
  BY InvInit, WorkInit
<1>2. Inv /\ WorkInv /\ [Next]_vars => (Inv /\ WorkInv)'
  BY InvStep, WorkStep
<1>3. Inv /\ WorkInv => WorkFinite
  BY WorkInvFinite
<1>4. QED
  BY <1>1, <1>2, <1>3, PTL DEF Spec

\* Every step of its handling uses up work: whatever answers, stray messages,
\* timeouts and failures its threads meet, in whatever order, there are only so
\* many.  It is the variant behind RedirectionEnds.
THEOREM WorkIsUsed == Spec => [][Handling /\ Handling' => WorkUsed]_vars
<1>1. Init => Inv /\ WorkInv
  BY InvInit, WorkInit
<1>2. Inv /\ WorkInv /\ [Next]_vars => (Inv /\ WorkInv)'
  BY InvStep, WorkStep
<1>3. Inv /\ WorkInv /\ [Next]_vars => [Handling /\ Handling' => WorkUsed]_vars
  BY WorkStep
<1>4. QED
  BY <1>1, <1>2, <1>3, PTL DEF Spec
================================================================================
