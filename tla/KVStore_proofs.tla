--------------------------- MODULE KVStore_proofs ---------------------------
(***************************************************************************)
(* Proofs, for every page size, file length and step, that the lookup of a *)
(* stored key keeps the key in its window and that its unsigned arithmetic *)
(* does not wrap.                                                          *)
(***************************************************************************)
EXTENDS KVStore, TLAPS, WellFoundedInduction

\* Keys are strictly increasing: the property of the file everything rests on.
Sorted == \A i, j \in 0 .. size - 1 : i < j => file[i] < file[j]

\* What the loop of find_by_key() maintains for any key, stored or not.
SearchBounds ==
    /\ end <= MaxKeys + 2 * KeysPerPage - 1
    /\ begin <= MaxKeys + 2 * KeysPerPage
    /\ pc = "search" => file[0] <= query

\* The inductive invariant.
Inv == TypeOK /\ Sorted /\ SearchBounds /\ StoredKeyInWindow

-----------------------------------------------------------------------------
(* Arithmetic.                                                             *)

\* A non-empty set of naturals has a least element.
LEMMA LeastNat ==
    ASSUME NEW S \in SUBSET Nat, S # {}
    PROVE  \E m \in S : \A t \in S : m <= t
  <1>1. PICK m \in S : \A t \in S : ~(<<t, m>> \in OpToRel(<, Nat))
    BY NatLessThanWellFounded, WFMin
  <1>2. \A t \in S : ~(t < m)
    BY <1>1 DEF OpToRel
  <1> QED
    BY <1>2

\* Quotient and remainder.
LEMMA DivMod ==
    ASSUME NEW P \in Nat \ {0}, NEW n \in Nat
    PROVE  n = (n \div P) * P + (n % P) /\ n % P \in 0 .. P - 1 /\ n \div P \in Nat
  OBVIOUS

\* Multiples of P are at least P apart.
LEMMA MulLess ==
    ASSUME NEW P \in Nat \ {0}, NEW a \in Nat, NEW b \in Nat, a < b
    PROVE  a * P + P <= b * P
  <1>1. (a + 1) * P <= b * P
    OBVIOUS
  <1> QED
    BY <1>1

\* The last page starts in the file and ends with it.
LEMMA LastPage ==
    ASSUME TypeOK
    PROVE  /\ LastStart \in 0 .. size - 1
           /\ LastStart + LastPageSize = size
           /\ LastPageSize \in Nat
  <1> DEFINE P == KeysPerPage
             q == (size - 1) \div KeysPerPage
             r == (size - 1) % KeysPerPage
  <1>0. P \in Nat \ {0} /\ size \in Nat \ {0} /\ size - 1 \in Nat
    BY KVStoreAssumption DEF TypeOK
  <1>1. size - 1 = q * P + r /\ r \in 0 .. P - 1 /\ q \in Nat
    BY <1>0, DivMod
  <1> DEFINE d == size \div KeysPerPage
             m == size % KeysPerPage
  <1>2. size = d * P + m /\ m \in 0 .. P - 1 /\ d \in Nat
    BY <1>0, DivMod
  <1> HIDE DEF q, r, d, m, P
  <1>3. CASE r = P - 1
    <2>1. size = (q + 1) * P + 0
      BY <1>0, <1>1, <1>3
    <2>2. q + 1 \in Nat /\ 0 \in 0 .. P - 1 /\ d * P + m = (q + 1) * P + 0
      BY <1>0, <1>1, <1>2, <2>1
    <2>a. ~(d < q + 1)
      BY <1>0, <1>1, <1>2, <2>2, MulLess
    <2>b. ~(q + 1 < d)
      BY <1>0, <1>1, <1>2, <2>2, MulLess
    <2>3. m = 0
      <3>1. d = q + 1
        BY <1>1, <1>2, <2>a, <2>b
      <3> QED
        BY <1>0, <1>1, <1>2, <2>2, <3>1
    <2>4. LastStart = q * P /\ LastPageSize = P
      BY <2>3 DEF LastStart, LastPageSize, q, m, P
    <2> QED
      BY <1>0, <1>1, <1>3, <2>4
  <1>4. CASE r # P - 1
    <2>1. r + 1 \in 0 .. P - 1 /\ size = q * P + (r + 1)
      BY <1>0, <1>1, <1>4
    <2>2. d * P + m = q * P + (r + 1)
      BY <1>0, <1>1, <1>2, <2>1
    <2>a. ~(d < q)
      BY <1>0, <1>1, <1>2, <2>1, <2>2, MulLess
    <2>b. ~(q < d)
      BY <1>0, <1>1, <1>2, <2>1, <2>2, MulLess
    <2>3. m = r + 1
      <3>1. d = q
        BY <1>1, <1>2, <2>a, <2>b
      <3> QED
        BY <1>0, <1>1, <1>2, <2>1, <2>2, <3>1
    <2>4. LastStart = q * P /\ LastPageSize = r + 1
      BY <1>0, <1>1, <2>1, <2>3 DEF LastStart, LastPageSize, q, m, P
    <2> QED
      BY <1>0, <1>1, <2>1, <2>4
  <1> QED
    BY <1>3, <1>4

\* Page starts are records of the file; the first is 0, the last LastStart, and
\* each one but the first follows another at a distance of one page.
LEMMA Starts ==
    ASSUME TypeOK
    PROVE  /\ PageStarts \subseteq 0 .. size - 1
           /\ 0 \in PageStarts
           /\ LastStart \in PageStarts
           /\ \A s \in PageStarts : s <= LastStart
           /\ \A s \in PageStarts \ {0} : s - KeysPerPage \in PageStarts
           /\ \A s \in PageStarts \ {LastStart} : s + KeysPerPage <= LastStart
  <1> DEFINE P == KeysPerPage
             q == (size - 1) \div KeysPerPage
  <1>a. P \in Nat \ {0} /\ size - 1 \in Nat
    BY KVStoreAssumption DEF TypeOK
  <1>0. P \in Nat \ {0} /\ size - 1 \in Nat /\ q \in Nat
    BY <1>a, DivMod
  <1>1. LastStart \in 0 .. size - 1 /\ LastStart = q * P
    BY LastPage DEF LastStart
  <1>2. PageStarts = {p * P : p \in 0 .. q}
    BY DEF PageStarts
  <1> HIDE DEF q, P
  <1>3. ASSUME NEW p \in 0 .. q
        PROVE  /\ p * P \in Nat /\ p * P <= q * P
               /\ p # q => p * P + P <= q * P
               /\ p # 0 => p * P - P = (p - 1) * P /\ p - 1 \in 0 .. q
               /\ p = 0 => p * P = 0
    <2>1. p * P \in Nat /\ p * P <= q * P
      BY <1>0
    <2>2. p # q => (p + 1) * P <= q * P
      BY <1>0
    <2>3. (p + 1) * P = p * P + P /\ (p - 1) * P = p * P - P
      BY <1>0
    <2> QED
      BY <1>0, <2>1, <2>2, <2>3
  <1>4. 0 \in PageStarts /\ LastStart \in PageStarts
    <2>1. 0 = 0 * P /\ 0 \in 0 .. q /\ q \in 0 .. q
      BY <1>0
    <2> QED
      BY <1>1, <1>2, <2>1
  <1>5. ASSUME NEW s \in PageStarts
        PROVE  /\ s \in 0 .. size - 1 /\ s <= LastStart
               /\ s # 0 => s - KeysPerPage \in PageStarts
               /\ s # LastStart => s + KeysPerPage <= LastStart
    <2>1. PICK p \in 0 .. q : s = p * P
      BY <1>2
    <2>2. s \in Nat /\ s <= LastStart
      BY <1>1, <1>3, <2>1
    <2>3. s # 0 => s - P \in PageStarts
      BY <1>2, <1>3, <2>1
    <2>4. s # LastStart => s + P <= LastStart
      BY <1>1, <1>3, <2>1
    <2> QED
      BY <1>0, <1>1, <2>2, <2>3, <2>4 DEF P
  <1> QED
    BY <1>4, <1>5

\* lower_bound() of a key that is not above every first key.
LEMMA LowerBoundLeast ==
    ASSUME TypeOK, NEW key \in Nat, NotBelow(key) # {}
    PROVE  /\ LowerBound(key) \in PageStarts
           /\ LowerBound(key) \in 0 .. size - 1
           /\ file[LowerBound(key)] >= key
           /\ \A s \in PageStarts : s < LowerBound(key) => file[s] < key
  <1>1. PageStarts \subseteq 0 .. size - 1 /\ NotBelow(key) \in SUBSET Nat
    <2>1. size \in Nat /\ PageStarts \subseteq 0 .. size - 1
      BY Starts DEF TypeOK
    <2>2. PageStarts \subseteq Nat
      BY <2>1
    <2> QED
      BY <2>1, <2>2 DEF NotBelow
  <1>2. \E m \in NotBelow(key) : \A t \in NotBelow(key) : m <= t
    BY <1>1, LeastNat
  <1>3. /\ LowerBound(key) \in NotBelow(key)
        /\ \A t \in NotBelow(key) : LowerBound(key) <= t
    BY <1>2 DEF LowerBound
  <1>4. \A s \in PageStarts : file[s] \in Nat
    BY <1>1 DEF TypeOK
  <1> QED
    BY <1>1, <1>3, <1>4 DEF NotBelow

\* The midpoint of a window that starts in the file and does not reach past
\* its end is a record of the file.
LEMMA MidBelow ==
    ASSUME NEW b \in Nat, NEW e \in Nat, NEW n \in Nat, b < n, b <= e, e <= n
    PROVE  b + (e - b) \div 2 < n
  OBVIOUS

\* Every record of the file is mapped.
LEMMA SizeMapped ==
    ASSUME TypeOK
    PROVE  Mapped \in Nat /\ size <= Mapped
  <1> DEFINE V == VmPage
             n == size + VmPage - 1
  <1>1. V \in Nat \ {0} /\ n \in Nat /\ size \in Nat /\ n = size + V - 1
    BY KVStoreAssumption DEF TypeOK
  <1>2. n = (n \div V) * V + (n % V) /\ n % V \in 0 .. V - 1 /\ n \div V \in Nat
    BY <1>1, DivMod
  <1>3. Mapped = (n \div V) * V
    BY DEF Mapped
  <1> HIDE DEF n, V
  <1> QED
    BY <1>1, <1>2, <1>3

\* Equal keys are one record, and a smaller key is at a smaller index.
LEMMA SortedOrder ==
    ASSUME TypeOK, Sorted, NEW i \in 0 .. size - 1, NEW j \in 0 .. size - 1
    PROVE  /\ file[i] \in Nat /\ file[j] \in Nat
           /\ file[i] = file[j] => i = j
           /\ file[i] < file[j] => i < j
           /\ i <= j => file[i] <= file[j]
  <1>1. file[i] \in Nat /\ file[j] \in Nat
    BY DEF TypeOK
  <1>2. (i < j => file[i] < file[j]) /\ (j < i => file[j] < file[i])
    BY DEF Sorted
  <1>3. size \in Nat
    BY DEF TypeOK
  <1> QED
    BY <1>1, <1>2, <1>3

-----------------------------------------------------------------------------
(* The invariant.                                                          *)

\* The files generate_data() writes are sorted, and no lookup has begun.
LEMMA InitInv == Init => Inv
  <1> SUFFICES ASSUME Init PROVE Inv
    OBVIOUS
  <1>1. PICK n \in 1 .. MaxKeys, first \in FirstKeys, step \in Steps :
           size = n /\ file = GeneratedFile(n, first, step)
    BY DEF Init
  <1>2. first \in Nat /\ step \in Nat \ {0} /\ n \in Nat \ {0} /\ MaxKeys \in Nat
    BY KVStoreAssumption
  <1>3. \A i \in 0 .. n - 1 : file[i] = first + i * step /\ file[i] \in Nat
    BY <1>1, <1>2 DEF GeneratedFile
  <1>4. file \in [0 .. size - 1 -> Nat]
    BY <1>1, <1>2, <1>3 DEF GeneratedFile
  <1>5. TypeOK
    BY <1>1, <1>2, <1>4, KVStoreAssumption DEF TypeOK, Init
  <1>6. Sorted
    <2> SUFFICES ASSUME NEW i \in 0 .. size - 1, NEW j \in 0 .. size - 1, i < j
                 PROVE  file[i] < file[j]
      BY DEF Sorted
    <2>1. i \in Nat /\ j \in Nat
      BY <1>1, <1>2
    <2>2. i * step + step <= j * step
      BY <1>2, <2>1, MulLess
    <2>3. i * step \in Nat /\ j * step \in Nat
      BY <1>2, <2>1
    <2> QED
      BY <1>1, <1>2, <1>3, <2>2, <2>3
  <1>7. SearchBounds
    BY KVStoreAssumption DEF SearchBounds, Init
  <1>8. StoredKeyInWindow
    BY DEF StoredKeyInWindow, Init
  <1> QED
    BY <1>5, <1>6, <1>7, <1>8 DEF Inv

\* What find_page() returns for a key: bounds in range, only for keys that are
\* not below the first one, and around the key if it is stored.
LEMMA FindPageBounds ==
    ASSUME TypeOK, Sorted, NEW key \in Nat, NEW b \in FindPage(key)
    PROVE  /\ b[1] \in Nat /\ b[1] <= MaxKeys + 2 * KeysPerPage
           /\ b[2] \in Nat /\ b[2] <= MaxKeys + 2 * KeysPerPage - 1
           /\ file[0] <= key
           /\ \A k \in 0 .. size - 1 :
                file[k] = key /\ ~StartsShortPage(k) /\ ~EndMatches(key) =>
                  k \in b[1] .. b[2] /\ b[2] <= size
  <1> DEFINE P == KeysPerPage
  <1>0. /\ P \in Nat \ {0} /\ MaxKeys \in Nat \ {0}
        /\ size \in Nat \ {0} /\ size <= MaxKeys
        /\ 0 \in 0 .. size - 1 /\ file[0] \in Nat
    BY KVStoreAssumption DEF TypeOK
  <1>1. /\ PageStarts \subseteq 0 .. size - 1
        /\ 0 \in PageStarts
        /\ LastStart \in PageStarts
        /\ \A s \in PageStarts \ {0} : s - P \in PageStarts
        /\ \A s \in PageStarts \ {LastStart} : s + P <= LastStart
    BY Starts
  <1>2. /\ LastStart \in 0 .. size - 1
        /\ LastStart + LastPageSize = size
        /\ LastPageSize \in Nat
    BY LastPage
  <1>3. CASE NotBelow(key) = {}
    <2>1. \A s \in PageStarts : file[s] < key
      <3> SUFFICES ASSUME NEW s \in PageStarts PROVE file[s] < key
        OBVIOUS
      <3>1. file[s] \in Nat /\ ~(file[s] >= key)
        BY <1>1, <1>3 DEF NotBelow, TypeOK
      <3> QED
        BY <3>1
    <2>2. file[0] < key /\ file[LastStart] < key
      BY <1>1, <2>1
    <2>3. CASE b = <<LastStart, LastStart + LastPageSize>>
      <3>1. ASSUME NEW k \in 0 .. size - 1, file[k] = key
            PROVE  LastStart < k
        BY <1>2, <2>2, <3>1, SortedOrder
      <3> QED
        BY <1>0, <1>2, <2>2, <2>3, <3>1
    <2>4. CASE b = <<P, 2 * P>> /\ EndMatches(key)
      BY <1>0, <2>2, <2>4
    <2> QED
      BY <1>3, <2>3, <2>4 DEF FindPage
  <1>4. CASE NotBelow(key) # {}
    <2> DEFINE l == LowerBound(key)
    <2>1. /\ l \in PageStarts /\ l \in 0 .. size - 1
          /\ file[l] >= key
          /\ \A s \in PageStarts : s < l => file[s] < key
      BY <1>4, LowerBoundLeast
    <2> HIDE DEF l
    <2>2. CASE file[l] = key
      <3>1. b = <<l, l + P>>
        BY <1>4, <2>2 DEF FindPage, l
      <3>2. file[0] <= key
        BY <1>0, <2>1, <2>2, SortedOrder
      <3>3. ASSUME NEW k \in 0 .. size - 1, file[k] = key, ~StartsShortPage(k)
            PROVE  k = l /\ l + P <= size
        <4>1. k = l
          BY <2>1, <2>2, <3>3, SortedOrder
        <4>2. CASE l = LastStart
          <5>1. LastPageSize = P
            BY <3>3, <4>1, <4>2 DEF StartsShortPage, LastPageSize
          <5> QED
            BY <1>0, <1>2, <4>1, <4>2, <5>1
        <4>3. CASE l # LastStart
          BY <1>0, <1>1, <1>2, <2>1, <4>1, <4>3
        <4> QED
          BY <4>2, <4>3
      <3> QED
        BY <1>0, <2>1, <3>1, <3>2, <3>3
    <2>3. CASE file[l] # key
      <3>1. l # 0 /\ b = <<l - P, l>>
        BY <1>4, <2>3 DEF FindPage, l
      <3>2. l - P \in PageStarts /\ l - P < l /\ l - P \in 0 .. size - 1
        BY <1>0, <1>1, <2>1, <3>1
      <3>3. file[l - P] < key /\ key < file[l]
        <4>1. file[l] \in Nat
          BY <2>1 DEF TypeOK
        <4> QED
          BY <2>1, <2>3, <3>2, <4>1
      <3>4. file[0] <= file[l - P] /\ file[l - P] \in Nat
        BY <1>0, <3>2, SortedOrder
      <3>5. ASSUME NEW k \in 0 .. size - 1, file[k] = key
            PROVE  l - P < k /\ k < l
        BY <2>1, <3>2, <3>3, <3>5, SortedOrder
      <3> QED
        BY <1>0, <2>1, <3>1, <3>2, <3>3, <3>4, <3>5
    <2> QED
      BY <2>2, <2>3
  <1> QED
    BY <1>3, <1>4

\* No key is stored when find_page() has no page for it.
LEMMA NoPageNoKey ==
    ASSUME TypeOK, Sorted, NEW key \in Nat, FindPage(key) = {},
           NEW k \in 0 .. size - 1
    PROVE  file[k] # key
  <1>1. /\ NotBelow(key) # {}
        /\ file[LowerBound(key)] # key
        /\ LowerBound(key) = 0
    BY DEF FindPage
  <1>2. 0 \in 0 .. size - 1 /\ file[0] >= key
    BY <1>1, LowerBoundLeast
  <1>3. file[0] <= file[k] /\ file[0] \in Nat /\ file[k] \in Nat
    BY <1>2, SortedOrder
  <1> QED
    BY <1>1, <1>2, <1>3

\* The index is not touched by a lookup.
LEMMA IndexUnchanged ==
    ASSUME UNCHANGED <<file, size>>
    PROVE  /\ \A k : StartsShortPage(k)' <=> StartsShortPage(k)
           /\ \A key : EndMatches(key)' <=> EndMatches(key)
           /\ Mapped' = Mapped
           /\ Sorted => Sorted'
  BY DEF StartsShortPage, LastStart, EndMatches, NotBelow, PageStarts, Mapped, Sorted

\* get() starts a search with bounds that satisfy the invariant, or answers.
LEMMA GetInv ==
    ASSUME Inv, NEW key \in 0 .. MaxQuery, Get(key)
    PROVE  Inv'
  <1> USE DEF Inv
  <1>0. /\ key \in Nat /\ query' = key /\ result' = -1
        /\ file' = file /\ size' = size
        /\ SizeMax \in Nat /\ SizeMax >= MaxKeys + 2 * KeysPerPage
        /\ KeysPerPage \in Nat \ {0} /\ MaxKeys \in Nat \ {0}
        /\ size \in Nat \ {0} /\ DOMAIN file = 0 .. size - 1
    BY KVStoreAssumption DEF Get, TypeOK
  <1>1. Sorted'
    BY <1>0, IndexUnchanged
  <1>2. CASE FindPage(key) = {} /\ pc' = "done" /\ UNCHANGED <<begin, end>>
    <2>1. TypeOK' /\ SearchBounds'
      BY <1>0, <1>2 DEF TypeOK, SearchBounds
    <2>2. StoredKeyInWindow'
      BY <1>0, <1>2, NoPageNoKey DEF StoredKeyInWindow
    <2> QED
      BY <1>1, <2>1, <2>2
  <1>3. ASSUME NEW b \in FindPage(key), pc' = "search", begin' = b[1], end' = b[2]
        PROVE  Inv'
    <2>1. /\ b[1] \in Nat /\ b[1] <= MaxKeys + 2 * KeysPerPage
          /\ b[2] \in Nat /\ b[2] <= MaxKeys + 2 * KeysPerPage - 1
          /\ file[0] <= key
          /\ \A k \in 0 .. size - 1 :
               file[k] = key /\ ~StartsShortPage(k) /\ ~EndMatches(key) =>
                 k \in b[1] .. b[2] /\ b[2] <= size
      BY <1>0, FindPageBounds
    <2>2. TypeOK' /\ SearchBounds'
      BY <1>0, <1>3, <2>1, SMTT(30) DEF TypeOK, SearchBounds
    <2>3. StoredKeyInWindow'
      <3> SUFFICES ASSUME NEW k \in 0 .. size - 1,
                          file[k] = key, ~StartsShortPage(k), ~EndMatches(key)
                   PROVE  k \in begin' .. end' /\ end' <= size /\ Mid' < size
        BY <1>0, <1>3, IndexUnchanged DEF StoredKeyInWindow
      <3>1. k \in b[1] .. b[2] /\ b[2] <= size
        BY <2>1
      <3>2. /\ b[1] \in Nat /\ b[2] \in Nat /\ size \in Nat
            /\ b[1] < size /\ b[1] <= b[2] /\ b[2] <= size
        <4>1. b[1] \in Nat /\ b[2] \in Nat /\ size \in Nat
          BY <1>0, <2>1
        <4>2. k \in Nat /\ b[1] <= k /\ k <= b[2] /\ k < size /\ b[2] <= size
          BY <3>1, <4>1
        <4> QED
          BY <4>1, <4>2
      <3>3. b[1] + (b[2] - b[1]) \div 2 < size
        BY <3>2, MidBelow
      <3> QED
        BY <1>0, <1>3, <3>1, <3>3 DEF Mid
    <2> QED
      BY <1>1, <2>2, <2>3
  <1> QED
    BY <1>2, <1>3 DEF Get

\* One turn of the loop of find_by_key() keeps a stored key in the window.
LEMMA ProbeInv ==
    ASSUME Inv, Probe
    PROVE  Inv'
  <1> USE DEF Inv
  <1>0. /\ file' = file /\ size' = size /\ query' = query
        /\ SizeMax \in Nat /\ SizeMax >= MaxKeys + 2 * KeysPerPage
        /\ KeysPerPage \in Nat \ {0} /\ MaxKeys \in Nat \ {0}
        /\ size \in Nat \ {0} /\ DOMAIN file = 0 .. size - 1
        /\ begin \in Nat /\ end \in Nat /\ begin <= end /\ query \in Nat
        /\ end <= MaxKeys + 2 * KeysPerPage - 1
        /\ pc = "search" /\ file[0] <= query /\ file[0] \in Nat
        /\ 0 \in 0 .. size - 1
    BY KVStoreAssumption DEF Probe, TypeOK, SearchBounds
  <1>1. Sorted'
    BY <1>0, IndexUnchanged
  <1>2. Mid \in Nat /\ begin <= Mid /\ Mid <= end
    BY <1>0 DEF Mid
  <1>3. ASSUME NEW k \in 0 .. size - 1,
               file[k] = query, ~StartsShortPage(k), ~EndMatches(query)
        PROVE  /\ k \in begin .. end /\ end <= size /\ Mid < size
               /\ KeyAt(Mid) = file[Mid] /\ file[Mid] \in Nat
               /\ Mid \in 0 .. size - 1
    <2>1. k \in begin .. end /\ end <= size /\ Mid < size
      BY <1>0, <1>3 DEF StoredKeyInWindow
    <2> QED
      BY <1>0, <1>2, <2>1 DEF KeyAt, TypeOK
  <1>4. KeyAt(Mid) \in Nat
    BY <1>0 DEF KeyAt, TypeOK
  <1>5. CASE /\ KeyAt(Mid) = query /\ pc' = "done" /\ result' = Mid
             /\ UNCHANGED <<begin, end>>
    <2>1. TypeOK' /\ SearchBounds'
      BY <1>0, <1>2, <1>5 DEF TypeOK, SearchBounds
    <2>2. StoredKeyInWindow'
      <3> SUFFICES ASSUME NEW k \in 0 .. size - 1,
                          file[k] = query, ~StartsShortPage(k), ~EndMatches(query)
                   PROVE  Mid = k
        BY <1>0, <1>5, IndexUnchanged DEF StoredKeyInWindow
      <3>1. file[Mid] = file[k] /\ Mid \in 0 .. size - 1
        BY <1>3, <1>5
      <3> QED
        BY <3>1, SortedOrder
    <2> QED
      BY <1>1, <2>1, <2>2
  <1>6. CASE query < KeyAt(Mid) /\ end' = Dec(Mid) /\ UNCHANGED <<pc, begin, result>>
    <2>1. Mid # 0
      <3>1. Mid = 0 => KeyAt(Mid) = file[0]
        BY <1>0 DEF KeyAt
      <3> QED
        BY <1>0, <1>6, <3>1
    <2>2. end' = Mid - 1 /\ end' \in Nat /\ end' <= end
      BY <1>0, <1>2, <1>6, <2>1 DEF Dec
    <2>3. TypeOK' /\ SearchBounds'
      BY <1>0, <1>6, <2>2 DEF TypeOK, SearchBounds
    <2>4. StoredKeyInWindow'
      <3> SUFFICES ASSUME NEW k \in 0 .. size - 1,
                          file[k] = query, ~StartsShortPage(k), ~EndMatches(query)
                   PROVE  k \in begin' .. end' /\ end' <= size /\ Mid' < size
        BY <1>0, <1>6, IndexUnchanged DEF StoredKeyInWindow
      <3>1. k \in begin .. end /\ end <= size /\ k < Mid
        BY <1>3, <1>6, SortedOrder
      <3>2. k \in begin' .. end' /\ end' <= size /\ begin' < size
        BY <1>0, <1>2, <1>6, <2>2, <3>1
      <3>3. /\ begin' \in Nat /\ end' \in Nat /\ size \in Nat
            /\ begin' < size /\ begin' <= end' /\ end' <= size
        BY <1>0, <1>6, <2>2, <3>2 DEF TypeOK
      <3>4. begin' + (end' - begin') \div 2 < size
        BY <3>3, MidBelow
      <3> QED
        BY <3>2, <3>4 DEF Mid
    <2> QED
      BY <1>1, <2>3, <2>4
  <1>7. CASE query > KeyAt(Mid) /\ begin' = Mid + 1 /\ UNCHANGED <<pc, end, result>>
    <2>1. TypeOK' /\ SearchBounds'
      BY <1>0, <1>2, <1>7 DEF TypeOK, SearchBounds
    <2>2. StoredKeyInWindow'
      <3> SUFFICES ASSUME NEW k \in 0 .. size - 1,
                          file[k] = query, ~StartsShortPage(k), ~EndMatches(query)
                   PROVE  k \in begin' .. end' /\ end' <= size /\ Mid' < size
        BY <1>0, <1>7, IndexUnchanged DEF StoredKeyInWindow
      <3>1. k \in begin .. end /\ end <= size /\ Mid < k
        BY <1>3, <1>7, SortedOrder
      <3>2. /\ k \in begin' .. end' /\ end' <= size
            /\ begin' < size /\ begin' \in Nat /\ begin' <= end'
        BY <1>0, <1>2, <1>7, <3>1
      <3>3. begin' + (end' - begin') \div 2 < size
        BY <1>0, <1>7, <3>2, MidBelow
      <3> QED
        BY <3>2, <3>3 DEF Mid
    <2> QED
      BY <1>1, <2>1, <2>2
  <1> QED
    BY <1>5, <1>6, <1>7 DEF Probe

\* The lookup of a stored key neither faults nor gives up.
LEMMA EndInv ==
    ASSUME Inv, Fault \/ NotFound
    PROVE  Inv'
  <1> USE DEF Inv
  <1>0. /\ file' = file /\ size' = size /\ query' = query
        /\ begin' = begin /\ end' = end /\ result' = result
        /\ pc = "search" /\ pc' \in {"fault", "done"}
    BY DEF Fault, NotFound
  <1>1. Sorted'
    BY <1>0, IndexUnchanged
  <1>2. TypeOK' /\ SearchBounds'
    BY <1>0 DEF TypeOK, SearchBounds
  <1>3. ASSUME NEW k \in 0 .. size - 1,
               file[k] = query, ~StartsShortPage(k), ~EndMatches(query)
        PROVE  FALSE
    <2>1. k \in begin .. end /\ Mid < size
      BY <1>0, <1>3 DEF StoredKeyInWindow, TypeOK
    <2>2. begin \in Nat /\ end \in Nat /\ begin <= end /\ size \in Nat
      BY <2>1, KVStoreAssumption DEF TypeOK
    <2>3. Mid \in Nat
      BY <2>2 DEF Mid
    <2>4. Mapped \in Nat /\ size <= Mapped
      BY SizeMapped
    <2> QED
      BY <2>1, <2>2, <2>3, <2>4 DEF Fault, NotFound
  <1>4. StoredKeyInWindow'
    <2>1. DOMAIN file' = 0 .. size - 1
      BY <1>0 DEF TypeOK
    <2> QED
      BY <1>0, <1>3, <2>1, IndexUnchanged DEF StoredKeyInWindow
  <1> QED
    BY <1>1, <1>2, <1>4

\* Steps of the environment leave the lookup alone.
LEMMA StutterInv ==
    ASSUME Inv, UNCHANGED vars
    PROVE  Inv'
  <1>1. UNCHANGED <<file, size>> /\ Mid' = Mid
    BY DEF vars, Mid
  <1>2. Sorted' /\ TypeOK' /\ SearchBounds'
    BY <1>1, IndexUnchanged DEF Inv, vars, TypeOK, SearchBounds
  <1>3. StoredKeyInWindow'
    BY <1>1, IndexUnchanged DEF Inv, vars, StoredKeyInWindow
  <1> QED
    BY <1>2, <1>3 DEF Inv

\* The inductive invariant holds in every reachable state, for every file
\* generate_data() writes and every key.
THEOREM Invariance == Spec => []Inv
  <1>1. Inv /\ [Next]_vars => Inv'
    <2> SUFFICES ASSUME Inv, [Next]_vars PROVE Inv'
      OBVIOUS
    <2> QED
      BY GetInv, ProbeInv, EndInv, StutterInv DEF Next
  <1> QED
    BY InitInv, <1>1, PTL DEF Spec

\* The bounds of find_by_key() stay size_t values.
THEOREM TypeCorrect == Spec => []TypeOK
  <1>1. Inv => TypeOK
    BY DEF Inv
  <1> QED
    BY Invariance, <1>1, PTL

\* end = mid - 1 never wraps around, whatever key is asked for.
THEOREM NoWrap == Spec => []EndNeverWraps
  <1>1. Inv => EndNeverWraps
    BY KVStoreAssumption DEF Inv, TypeOK, SearchBounds, EndNeverWraps
  <1> QED
    BY Invariance, <1>1, PTL

\* A stored key (but the first one of a short last page, and one that equals
\* the number of index entries) stays in the window of its search, is read
\* without leaving the file, and is what get() returns.
THEOREM StoredKeyCorrect == Spec => []StoredKeyInWindow
  <1>1. Inv => StoredKeyInWindow
    BY DEF Inv
  <1> QED
    BY Invariance, <1>1, PTL

-----------------------------------------------------------------------------
(* What lies past the last record.                                         *)

\* Zeroes past the last record could be taken for the key 0.  Its search begins on
\* the whole first page and only moves left.
ZeroSearch ==
    pc = "search" /\ query = 0 => begin = 0 /\ (end = KeysPerPage \/ end < size)

\* The loop has no answer while it runs.
Unanswered == pc = "search" => result = -1

Found == ZeroSearch /\ Unanswered /\ FoundIsStored

\* The key 0 can only be on the first page.
LEMMA ZeroPage ==
    ASSUME TypeOK, NEW b \in FindPage(0)
    PROVE  b = <<0, KeysPerPage>>
  <1>1. 0 \in PageStarts /\ \A s \in PageStarts : file[s] \in Nat
    BY Starts DEF TypeOK
  <1>2. NotBelow(0) # {}
    BY <1>1 DEF NotBelow
  <1>3. LowerBound(0) = 0
    BY <1>1, <1>2, LowerBoundLeast
  <1>4. FindPage(0) \subseteq {<<0, 0 + KeysPerPage>>}
    BY <1>2, <1>3 DEF FindPage
  <1> QED
    BY <1>4, KVStoreAssumption

\* The middle of a page of whole memory pages is mapped only when it is in the
\* file.
LEMMA HalfPageMapped ==
    ASSUME TypeOK, KeysPerPage % (2 * VmPage) = 0, KeysPerPage \div 2 < Mapped
    PROVE  KeysPerPage \div 2 < size
  <1> DEFINE V == VmPage
             j == KeysPerPage \div (2 * VmPage)
             n == size + VmPage - 1
             e == n \div VmPage
             r == n % VmPage
  <1>1. V \in Nat \ {0} /\ n \in Nat /\ size \in Nat /\ n = size + V - 1
        /\ 2 * V \in Nat \ {0} /\ KeysPerPage \in Nat
    BY KVStoreAssumption DEF TypeOK
  <1>2. n = e * V + r /\ r \in 0 .. V - 1 /\ e \in Nat
    BY <1>1, DivMod
  <1>3. KeysPerPage = j * (2 * V) + 0 /\ j \in Nat
    BY <1>1, DivMod
  <1>4. Mapped = e * V
    BY DEF Mapped
  <1> HIDE DEF V, j, n, e, r
  <1>5. j * V \in Nat /\ KeysPerPage = 2 * (j * V)
    BY <1>1, <1>3
  <1>6. KeysPerPage \div 2 = j * V
    BY <1>5
  <1>7. j < e
    <2>1. CASE e <= j
      <3>1. e * V <= j * V
        BY <1>1, <1>2, <1>3, <2>1
      <3> QED
        BY <1>1, <1>2, <1>4, <1>5, <1>6, <3>1
    <2> QED
      BY <1>2, <1>3, <2>1
  <1>8. j * V + V <= e * V
    BY <1>1, <1>2, <1>3, <1>7, MulLess
  <1> QED
    BY <1>1, <1>2, <1>5, <1>6, <1>8

\* One step of a lookup, for pages that are whole pairs of memory pages.
LEMMA FoundStep ==
    ASSUME KeysPerPage % (2 * VmPage) = 0,
           Inv, Found, [Next]_vars
    PROVE  Found'
  <1> USE DEF Found
  <1>0. /\ KeysPerPage \in Nat \ {0} /\ size \in Nat \ {0} /\ DOMAIN file = 0 .. size - 1
        /\ begin \in Nat /\ end \in Nat /\ query \in Nat /\ TypeOK
    BY KVStoreAssumption DEF Inv, TypeOK
  <1>1. ASSUME NEW key \in 0 .. MaxQuery, Get(key)
        PROVE  Found'
    <2>1. FoundIsStored' /\ Unanswered'
      BY <1>1 DEF Get, FoundIsStored, Unanswered
    <2>2. ASSUME pc' = "search", query' = 0
          PROVE  begin' = 0 /\ end' = KeysPerPage
      <3>1. key = 0 /\ \E b \in FindPage(0) : begin' = b[1] /\ end' = b[2]
        BY <1>1, <2>2 DEF Get
      <3> QED
        BY <1>0, <3>1, ZeroPage
    <2> QED
      BY <2>1, <2>2 DEF ZeroSearch
  <1>2. CASE Probe
    <2>0. /\ pc = "search" /\ begin <= end /\ Mid < Mapped /\ UNCHANGED <<file, size, query>>
          /\ file[0] \in Nat /\ file[0] <= query
      BY <1>0, <1>2 DEF Probe, Inv, SearchBounds, TypeOK
    <2>1. Mid \in Nat /\ begin <= Mid /\ Mid <= end
      BY <1>0, <2>0 DEF Mid
    <2>2. query = 0 => begin = 0 /\ Mid < size
      <3>1. ASSUME query = 0, end = KeysPerPage PROVE Mid < size
        <4>1. begin = 0
          BY <2>0, <3>1 DEF ZeroSearch
        <4>2. Mid = KeysPerPage \div 2
          BY <1>0, <3>1, <4>1 DEF Mid
        <4> QED
          BY <1>0, <2>0, <4>2, HalfPageMapped
      <3> QED
        BY <1>0, <2>0, <2>1, <3>1 DEF ZeroSearch
    <2>3. CASE KeyAt(Mid) = query /\ pc' = "done" /\ result' = Mid
      <3>1. Mid \in 0 .. size - 1
        BY <1>0, <2>1, <2>2, <2>3 DEF KeyAt
      <3> QED
        BY <1>0, <2>0, <2>3, <3>1 DEF KeyAt, ZeroSearch, FoundIsStored, Unanswered
    <2>4. CASE query < KeyAt(Mid) /\ end' = Dec(Mid) /\ UNCHANGED <<pc, begin, result>>
      <3>1. ASSUME query = 0 PROVE end' < size
        <4>1. Mid # 0
          BY <1>0, <2>0, <2>4 DEF KeyAt
        <4> QED
          BY <1>0, <2>1, <2>2, <2>4, <3>1, <4>1 DEF Dec
      <3> QED
        BY <2>0, <2>2, <2>4, <3>1 DEF ZeroSearch, FoundIsStored, Unanswered
    <2>5. CASE query > KeyAt(Mid) /\ begin' = Mid + 1 /\ UNCHANGED <<pc, end, result>>
      <3>1. KeyAt(Mid) \in Nat
        BY <1>0, <2>1 DEF KeyAt, TypeOK
      <3>2. query # 0
        BY <2>5, <3>1
      <3> QED
        BY <2>0, <2>5, <3>2 DEF ZeroSearch, FoundIsStored, Unanswered
    <2> QED
      BY <1>2, <2>3, <2>4, <2>5 DEF Probe
  <1>3. CASE Fault \/ NotFound \/ UNCHANGED vars
    <2>1. UNCHANGED <<file, size, query, begin, end, result>> /\ pc' \in {"fault", "done", pc}
      BY <1>3 DEF Fault, NotFound, vars
    <2>2. pc' = "done" /\ pc # "done" => pc = "search"
      BY <1>3 DEF Fault, NotFound, vars
    <2>3. ZeroSearch'
      BY <2>1 DEF ZeroSearch
    <2>4. pc' = "search" => pc = "search"
      BY <1>3 DEF Fault, NotFound, vars
    <2> QED
      BY <2>1, <2>2, <2>3, <2>4 DEF FoundIsStored, Unanswered
  <1> QED
    BY <1>1, <1>2, <1>3 DEF Next

\* The record get() returns is in the file and has the key asked for, although
\* the mapping goes on with zeroes: for every file and key, if a page of the
\* index is a whole number of pairs of memory pages, as 1024 records are.
THEOREM FoundCorrect ==
    ASSUME KeysPerPage % (2 * VmPage) = 0
    PROVE  Spec => []FoundIsStored
  <1>1. Init => Found
    BY DEF Init, Found, ZeroSearch, Unanswered, FoundIsStored
  <1>2. Inv /\ Found /\ [Next]_vars => Found'
    BY FoundStep
  <1>3. Found => FoundIsStored
    BY DEF Found
  <1> QED
    BY Invariance, <1>1, <1>2, <1>3, PTL DEF Spec
=============================================================================
