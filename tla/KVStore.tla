------------------------------ MODULE KVStore ------------------------------
(***************************************************************************)
(* KVStore::get over a file written by kvstore-generator: the sparse index *)
(* of the first key of every page (KVIndex), and the binary search of one  *)
(* page (find_by_key).  Offsets are counted in records of sizeof(Data).    *)
(* The file is mapped with the length of its records, which the kernel     *)
(* rounds up to whole memory pages: past the last record a read sees       *)
(* zeroes up to the end of the mapping and faults beyond it.               *)
(***************************************************************************)
EXTENDS Integers, FiniteSets

CONSTANTS
    KeysPerPage,    \* keys_per_index_page (1024 in kvstore-http)
    VmPage,         \* records in a memory page (4096 / sizeof(Data) = 128)
    MaxKeys,        \* bound: KEYS_NUMBER
    FirstKeys,      \* key of the first record (0 for kvstore-generator)
    Steps,          \* values of STEP
    MaxQuery,       \* bound: keys asked for
    SizeMax         \* the largest size_t

ASSUME KVStoreAssumption ==
    /\ KeysPerPage \in Nat \ {0} /\ VmPage \in Nat \ {0}
    /\ MaxKeys \in Nat \ {0} /\ MaxQuery \in Nat
    /\ FirstKeys \subseteq Nat /\ Steps \subseteq Nat \ {0}
    /\ SizeMax \in Nat /\ SizeMax >= MaxKeys + 2 * KeysPerPage

VARIABLES
    file,       \* file[i]: key of record i
    size,       \* File::size(), in records
    query,      \* the key get() was called with
    pc,         \* "idle", "search" (in the loop of find_by_key), "done", "fault"
    begin,
    end,
    result      \* index of the record returned, -1 for std::nullopt

vars == <<file, size, query, pc, begin, end, result>>

\* generate_data(): n records with keys first, first + step, ...; the generator
\* starts at 0.
GeneratedFile(n, first, step) == [i \in 0 .. n - 1 |-> first + i * step]

Init ==
    /\ \E n \in 1 .. MaxKeys, first \in FirstKeys, step \in Steps :
          size = n /\ file = GeneratedFile(n, first, step)
    /\ query = 0
    /\ pc = "idle"
    /\ begin = 0
    /\ end = 0
    /\ result = -1

-----------------------------------------------------------------------------
\* store_: the offsets of the first record of every page.
PageStarts == {p * KeysPerPage : p \in 0 .. (size - 1) \div KeysPerPage}

LastStart == ((size - 1) \div KeysPerPage) * KeysPerPage

\* last_page_size: the rest of the division, or a whole page.
LastPageSize == IF size % KeysPerPage = 0 THEN KeysPerPage ELSE size % KeysPerPage

\* store_.lower_bound(key): the page whose first key is the least not below key.
NotBelow(key) == {s \in PageStarts : file[s] >= key}
LowerBound(key) == CHOOSE s \in NotBelow(key) : \A t \in NotBelow(key) : s <= t

\* store_.end() is read before it is tested for: what is found there (with
\* libstdc++ the number of entries, followed by page_size) may equal key.
EndMatches(key) == NotBelow(key) = {} /\ key = Cardinality(PageStarts)

FindPageBelowFirst(key) ==   \* mutant: a key below the first one gets the first page
    IF NotBelow(key) = {} THEN {<<LastStart, LastStart + LastPageSize>>}
    ELSE IF file[LowerBound(key)] = key \/ LowerBound(key) = 0
         THEN {<<LowerBound(key), LowerBound(key) + KeysPerPage>>}
         ELSE {<<LowerBound(key) - KeysPerPage, LowerBound(key)>>}

FindPagePreviousAlways(key) ==   \* mutant: itlow-- even on store_.begin()
    IF NotBelow(key) = {} THEN {<<LastStart, LastStart + LastPageSize>>}
    ELSE IF file[LowerBound(key)] = key
         THEN {<<LowerBound(key), LowerBound(key) + KeysPerPage>>}
         ELSE {<<LowerBound(key) - KeysPerPage, LowerBound(key)>>}

FindPageNotPrevious(key) ==   \* mutant: itlow-- forgotten for an inner page
    IF NotBelow(key) = {} THEN {<<LastStart, LastStart + LastPageSize>>}
    ELSE IF file[LowerBound(key)] = key \/ LowerBound(key) # 0
         THEN {<<LowerBound(key), LowerBound(key) + KeysPerPage>>}
         ELSE {}

\* find_page(): the bounds it may return, none for std::nullopt.
FindPage(key) ==
    IF NotBelow(key) = {}
    THEN {<<LastStart, LastStart + LastPageSize>>} \cup
         {b \in {<<KeysPerPage, 2 * KeysPerPage>>} : EndMatches(key)}
    ELSE IF file[LowerBound(key)] = key
    THEN {<<LowerBound(key), LowerBound(key) + KeysPerPage>>}
    ELSE IF LowerBound(key) # 0
    THEN {<<LowerBound(key) - KeysPerPage, LowerBound(key)>>}
    ELSE {}

\* Records the mapping covers.
Mapped == ((size + VmPage - 1) \div VmPage) * VmPage

\* read_at() of record i inside the mapping.
KeyAt(i) == IF i \in DOMAIN file THEN file[i] ELSE 0

\* Unsigned subtraction of one.
Dec(i) == IF i = 0 THEN SizeMax ELSE i - 1

-----------------------------------------------------------------------------
\* get(key): the index gives no page, and get() returns nullopt at once, or
\* one, and find_by_key() starts on it.
Get(key) ==
    /\ pc \in {"idle", "done"}
    /\ query' = key
    /\ result' = -1
    /\ \/ /\ FindPage(key) = {}
          /\ pc' = "done"
          /\ UNCHANGED <<begin, end>>
       \/ \E b \in FindPage(key) :
             /\ pc' = "search"
             /\ begin' = b[1]
             /\ end' = b[2]
    /\ UNCHANGED <<file, size>>

Mid == begin + (end - begin) \div 2

ProbeKeepsEnd ==   \* mutant: end = mid, not mid - 1
    /\ pc = "search"
    /\ begin <= end
    /\ Mid < Mapped
    /\ \/ /\ KeyAt(Mid) = query
          /\ pc' = "done"
          /\ result' = Mid
          /\ UNCHANGED <<begin, end>>
       \/ /\ query < KeyAt(Mid)
          /\ end' = Mid
          /\ UNCHANGED <<pc, begin, result>>
       \/ /\ query > KeyAt(Mid)
          /\ begin' = Mid + 1
          /\ UNCHANGED <<pc, end, result>>
    /\ UNCHANGED <<file, size, query>>

ProbeReturnsBegin ==   \* mutant: the record at begin is returned
    /\ pc = "search"
    /\ begin <= end
    /\ Mid < Mapped
    /\ \/ /\ KeyAt(Mid) = query
          /\ pc' = "done"
          /\ result' = begin
          /\ UNCHANGED <<begin, end>>
       \/ /\ query < KeyAt(Mid)
          /\ end' = Dec(Mid)
          /\ UNCHANGED <<pc, begin, result>>
       \/ /\ query > KeyAt(Mid)
          /\ begin' = Mid + 1
          /\ UNCHANGED <<pc, end, result>>
    /\ UNCHANGED <<file, size, query>>

\* One turn of the loop of find_by_key().
Probe ==
    /\ pc = "search"
    /\ begin <= end
    /\ Mid < Mapped
    /\ \/ /\ KeyAt(Mid) = query
          /\ pc' = "done"
          /\ result' = Mid
          /\ UNCHANGED <<begin, end>>
       \/ /\ query < KeyAt(Mid)
          /\ end' = Dec(Mid)
          /\ UNCHANGED <<pc, begin, result>>
       \/ /\ query > KeyAt(Mid)
          /\ begin' = Mid + 1
          /\ UNCHANGED <<pc, end, result>>
    /\ UNCHANGED <<file, size, query>>

\* The loop reads past the mapping: SIGSEGV.
Fault ==
    /\ pc = "search"
    /\ begin <= end
    /\ Mid >= Mapped
    /\ pc' = "fault"
    /\ UNCHANGED <<file, size, query, begin, end, result>>

\* begin > end: nullopt.
NotFound ==
    /\ pc = "search"
    /\ begin > end
    /\ pc' = "done"
    /\ UNCHANGED <<file, size, query, begin, end, result>>

Next == (\E key \in 0 .. MaxQuery : Get(key)) \/ Probe \/ Fault \/ NotFound

Spec == Init /\ [][Next]_vars

\* The thread that called get() keeps running.
FairSpec == Spec /\ WF_vars(Probe \/ Fault \/ NotFound)

-----------------------------------------------------------------------------
\* Types; the bounds of the search are size_t values.
TypeOK ==
    /\ size \in 1 .. MaxKeys
    /\ file \in [0 .. size - 1 -> Nat]
    /\ query \in 0 .. MaxQuery
    /\ pc \in {"idle", "search", "done", "fault"}
    /\ begin \in 0 .. SizeMax
    /\ end \in 0 .. SizeMax
    /\ result \in Nat \cup {-1}

\* end = mid - 1 never wraps around: find_page() has sent away every key below
\* the first one, and the search of a page never moves left of its first key.
EndNeverWraps == end # SizeMax

\* A record returned is a record of the file, and has the key asked for: what
\* lies past the last record is never taken for data.
FoundIsStored ==
    pc = "done" /\ result # -1 => result \in DOMAIN file /\ file[result] = query

\* The stored key that query names starts a last page that is not full: its
\* bounds are computed with page_size.
StartsShortPage(k) == k = LastStart /\ size % KeysPerPage # 0

\* Any other stored key (whose lookup does not stumble over end()) is found:
\* the search window never loses it, every record it reads is in the file, and
\* it does not end without it.
StoredKeyInWindow ==
    \A k \in DOMAIN file :
      file[k] = query /\ ~StartsShortPage(k) /\ ~EndMatches(query) =>
        /\ pc = "search" => k \in begin .. end /\ end <= size /\ Mid < size
        /\ pc = "done" => result = k
        /\ pc # "fault"

\* get() comes back, or the process is killed by the fault.
GetReturns == pc = "search" ~> pc # "search"

\* README.md: the file holds the keys 0, STEP, 2 * STEP, ... that the generator
\* wrote, KEYS_NUMBER of them; so a lookup of one of them succeeds.
StoredKeyFound ==
    \A k \in DOMAIN file :
      file[k] = query => (pc = "done" => result = k) /\ pc # "fault"
=============================================================================
