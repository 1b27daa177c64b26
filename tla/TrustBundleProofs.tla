-------------------------- MODULE TrustBundleProofs --------------------------
(***************************************************************************)
(* The trust bundle through any number of runs of rhtas, for any kinds,    *)
(* targets, chains and URIs: the lists are edited by position, so that the *)
(* proofs say for each edit where an entry comes from.  No period ends     *)
(* before it starts, nothing is listed twice, the newest stays open, the   *)
(* past stays trusted, and services have an entry.                         *)
(***************************************************************************)
EXTENDS TrustBundle, FiniteSetTheorems, FunctionTheorems, TLAPS

-----------------------------------------------------------------------------
(* Selection by position.  The rank of a position counts those up to it;   *)
(* ranks are distinct, so that every rank is that of one position.         *)
LEMMA RankBijective ==
  ASSUME NEW N \in Nat, NEW P \in SUBSET (1 .. N)
  PROVE  /\ IsFiniteSet(P) /\ Cardinality(P) \in Nat
         /\ \A i \in 1 .. Cardinality(P) : \E p \in P : Rank(P, p) = i
         /\ \A p \in P : Rank(P, p) \in 1 .. Cardinality(P)
         /\ \A p, r \in P : Rank(P, p) = Rank(P, r) => p = r
<1> DEFINE Upto(p) == {q \in P : q <= p}
           rank == [p \in P |-> Cardinality(Upto(p))]
<1>1. IsFiniteSet(P) /\ Cardinality(P) \in Nat
  <2>1. IsFiniteSet(1 .. N)
    BY FS_Interval
  <2> QED
    BY <2>1, FS_Subset, FS_CardinalityType
<1>2. ASSUME NEW p \in P
      PROVE  /\ IsFiniteSet(Upto(p)) /\ Cardinality(Upto(p)) \in 1 .. Cardinality(P)
             /\ p \in Upto(p) /\ Upto(p) \subseteq P
  <2>1. p \in Upto(p) /\ Upto(p) \subseteq P
    OBVIOUS
  <2> HIDE DEF Upto
  <2>2. IsFiniteSet(Upto(p)) /\ Cardinality(Upto(p)) <= Cardinality(P) /\ Upto(p) # {}
    BY <1>1, <2>1, FS_Subset
  <2>3. Cardinality(Upto(p)) \in Nat /\ Cardinality(Upto(p)) # 0
    BY <2>2, FS_CardinalityType, FS_EmptySet
  <2> QED
    BY <1>1, <2>1, <2>2, <2>3
<1>3. ASSUME NEW p \in P, NEW r \in P, p < r
      PROVE  Cardinality(Upto(p)) # Cardinality(Upto(r))
  <2>1. Upto(p) \subseteq Upto(r) /\ r \in Upto(r) /\ r \notin Upto(p)
    <3>1. \A q \in P : q \in Int
      OBVIOUS
    <3>2. p \in Int /\ r \in Int /\ p < r
      BY <1>3, <3>1
    <3>3. \A q \in P : q <= p => q <= r
      BY <3>1, <3>2
    <3>4. r <= r /\ ~(r <= p)
      BY <3>2
    <3> QED
      BY <3>3, <3>4
  <2>2. IsFiniteSet(Upto(r))
    BY <1>2
  <2> HIDE DEF Upto
  <2> QED
    BY <2>1, <2>2, FS_Subset
<1>4. ASSUME NEW p \in P, NEW r \in P, Cardinality(Upto(p)) = Cardinality(Upto(r)) PROVE p = r
  <2>1. p \in Int /\ r \in Int
    OBVIOUS
  <2> HIDE DEF Upto
  <2> QED
    BY <1>3, <1>4, <2>1
<1>5. rank \in Injection(P, 1 .. Cardinality(P))
  <2>1. \A p \in P : rank[p] \in 1 .. Cardinality(P)
    BY <1>2
  <2>2. \A p, r \in P : rank[p] = rank[r] => p = r
    BY <1>4
  <2> QED
    BY <2>1, <2>2 DEF Injection, IsInjective
<1>6. IsFiniteSet(1 .. Cardinality(P)) /\ Cardinality(1 .. Cardinality(P)) = Cardinality(P)
  BY <1>1, FS_Interval
<1>7. rank \in Surjection(P, 1 .. Cardinality(P))
  <2> HIDE DEF rank
  <2> QED
    BY <1>5, <1>6, FS_Injection
<1>8. \A i \in 1 .. Cardinality(P) : \E p \in P : rank[p] = i
  <2> HIDE DEF rank
  <2> QED
    BY <1>7 DEF Surjection, Range
<1>9. \A p \in P : Rank(P, p) = Cardinality(Upto(p)) /\ rank[p] = Cardinality(Upto(p))
  BY DEF Rank
<1> HIDE DEF Upto, rank
<1> QED
  BY <1>1, <1>2, <1>4, <1>8, <1>9

(* What Select takes, each from one of the positions, and all of them.     *)
Picks(s, P, at) ==
  /\ \A i \in 1 .. Cardinality(P) : at[i] \in P /\ Select(s, P)[i] = s[at[i]] /\ Rank(P, at[i]) = i
  /\ \A i, j \in 1 .. Cardinality(P) : at[i] = at[j] => i = j
  /\ \A p \in P : \E i \in 1 .. Cardinality(P) : at[i] = p

(* These are the elements of a selection, and their number.                *)
LEMMA SelectIs ==
  ASSUME NEW S, NEW s \in Seq(S), NEW P \in SUBSET DOMAIN s
  PROVE  /\ Select(s, P) \in Seq(S)
         /\ DOMAIN Select(s, P) = 1 .. Cardinality(P) /\ Len(Select(s, P)) = Cardinality(P)
         /\ Cardinality(P) \in Nat
         /\ \E at : Picks(s, P, at)
<1> DEFINE n == Cardinality(P)
           at == [i \in 1 .. n |-> CHOOSE p \in P : Rank(P, p) = i]
<1>1. /\ n \in Nat
      /\ \A i \in 1 .. n : \E p \in P : Rank(P, p) = i
      /\ \A p \in P : Rank(P, p) \in 1 .. n
      /\ \A p, r \in P : Rank(P, p) = Rank(P, r) => p = r
  <2>1. Len(s) \in Nat /\ P \in SUBSET (1 .. Len(s))
    OBVIOUS
  <2> QED
    BY <2>1, RankBijective
<1>2. Select(s, P) = [i \in 1 .. n |-> s[at[i]]]
  BY DEF Select
<1> HIDE DEF n
<1>3. \A i \in 1 .. n : at[i] \in P /\ Rank(P, at[i]) = i
  BY <1>1
<1>4. at \in [1 .. n -> P]
  BY <1>3
<1>5. \A i, j \in 1 .. n : at[i] = at[j] => i = j
  BY <1>3
<1>6. \A p \in P : \E i \in 1 .. n : at[i] = p
  <2> SUFFICES ASSUME NEW p \in P PROVE at[Rank(P, p)] = p
    BY <1>1
  <2>1. Rank(P, p) \in 1 .. n
    BY <1>1
  <2> QED
    BY <1>1, <1>3, <2>1
<1> HIDE DEF at
<1>7. \A i \in 1 .. n : s[at[i]] \in S
  BY <1>4
<1>8. Select(s, P) \in Seq(S) /\ DOMAIN Select(s, P) = 1 .. n /\ Len(Select(s, P)) = n
  BY <1>1, <1>2, <1>7
<1>9. \A i \in 1 .. n : Select(s, P)[i] = s[at[i]]
  BY <1>2
<1> QED
  BY <1>1, <1>3, <1>4, <1>5, <1>6, <1>8, <1>9 DEF n, Picks

(* Selecting every position changes nothing.                               *)
LEMMA SelectAll ==
  ASSUME NEW S, NEW s \in Seq(S) PROVE Select(s, DOMAIN s) = s
<1> DEFINE P == DOMAIN s
<1>0. P = 1 .. Len(s) /\ Len(s) \in Nat
  OBVIOUS
<1>1. Cardinality(P) = Len(s)
  BY <1>0, FS_Interval
<1>2. ASSUME NEW p \in P PROVE Rank(P, p) = p
  <2> DEFINE U == {q \in P : q <= p}
  <2>1. U = 1 .. p /\ p \in Int /\ 1 <= p
    BY <1>0, <1>2
  <2>2. Cardinality(1 .. p) = p
    BY <2>1, FS_Interval
  <2>3. Cardinality(U) = p
    <3> HIDE DEF U
    <3> QED
      BY <2>1, <2>2
  <2> QED
    BY <2>3 DEF Rank
<1>3. P \in SUBSET DOMAIN s
  OBVIOUS
<1> HIDE DEF P
<1>4. 1 .. Cardinality(P) = P
  BY <1>0, <1>1
<1>5. PICK at : Picks(s, P, at)
  BY <1>3, SelectIs
<1>6. Select(s, P) \in Seq(S) /\ DOMAIN Select(s, P) = P
  BY <1>3, <1>4, SelectIs
<1>7. ASSUME NEW i \in P PROVE Select(s, P)[i] = s[i]
  <2>1. at[i] \in P /\ Select(s, P)[i] = s[at[i]] /\ Rank(P, at[i]) = i
    BY <1>4, <1>5 DEF Picks
  <2>2. Rank(P, at[i]) = at[i]
    BY <1>2, <2>1
  <2> QED
    BY <2>1, <2>2
<1>8. s = [i \in P |-> s[i]] /\ Select(s, P) = [i \in P |-> Select(s, P)[i]]
  BY <1>6 DEF P
<1> QED
  BY <1>7, <1>8 DEF P

(* The first and the last of some positions exist: they have the lowest    *)
(* and the highest rank.                                                   *)
LEMMA MinMaxIn ==
  ASSUME NEW N \in Nat, NEW P \in SUBSET (1 .. N), P # {}
  PROVE  Min(P) \in P /\ Max(P) \in P
<1>1. /\ IsFiniteSet(P) /\ Cardinality(P) \in Nat /\ Cardinality(P) # 0
      /\ \A i \in 1 .. Cardinality(P) : \E p \in P : Rank(P, p) = i
  BY RankBijective, FS_EmptySet
<1>2. \A p \in P : p \in Int
  OBVIOUS
<1>3. PICK p \in P : Rank(P, p) = 1
  BY <1>1
<1>4. ASSUME NEW q \in P PROVE p <= q
  <2> DEFINE U == {u \in P : u <= p}
  <2>1. IsFiniteSet(U) /\ Cardinality(U) = 1
    <3>1. U \subseteq P
      OBVIOUS
    <3>2. Cardinality(U) = 1
      BY <1>3 DEF Rank
    <3> HIDE DEF U
    <3> QED
      BY <1>1, <3>1, <3>2, FS_Subset
  <2>2. PICK x : U = {x}
    <3> HIDE DEF U
    <3> QED
      BY <2>1, FS_Singleton
  <2>3. p \in U /\ (q <= p => q \in U)
    BY <1>2
  <2> HIDE DEF U
  <2> QED
    BY <1>2, <2>2, <2>3
<1>5. PICK r \in P : Rank(P, r) = Cardinality(P)
  BY <1>1
<1>6. ASSUME NEW q \in P PROVE q <= r
  <2> DEFINE U == {u \in P : u <= r}
  <2>1. U \subseteq P
    OBVIOUS
  <2>2. Cardinality(U) = Cardinality(P)
    BY <1>5 DEF Rank
  <2>3. U = P
    <3> HIDE DEF U
    <3> QED
      BY <1>1, <2>1, <2>2, FS_Subset
  <2> QED
    BY <2>3
<1>7. \E x \in P : \A y \in P : x <= y
  BY <1>4
<1>8. \E x \in P : \A y \in P : x >= y
  BY <1>2, <1>6
<1> QED
  BY <1>7, <1>8 DEF Min, Max

-----------------------------------------------------------------------------
(* An entry without PEM text. *)
CleanEntry == [chain : Seq(Cert \ Corrupt) \ {<<>>}, uri : Uri \cup {None}, valid : Validity]

(* What is left of a chain are its certificates that are not PEM text.     *)
LEMMA GenuineIs ==
  ASSUME NEW chain \in Seq(Cert)
  PROVE  Genuine(chain) \in Seq(Cert \ Corrupt) /\ Range(Genuine(chain)) = Range(chain) \ Corrupt
<1> DEFINE P == {i \in DOMAIN chain : chain[i] \notin Corrupt}
<1>1. P \in SUBSET DOMAIN chain /\ Genuine(chain) = Select(chain, P)
  BY DEF Genuine
<1>2. /\ \A i \in DOMAIN chain : i \in P <=> chain[i] \notin Corrupt
      /\ \A i \in DOMAIN chain : chain[i] \in Cert
  OBVIOUS
<1> HIDE DEF P
<1>3. /\ Genuine(chain) \in Seq(Cert) /\ DOMAIN Genuine(chain) = 1 .. Cardinality(P)
      /\ Cardinality(P) \in Nat
  BY <1>1, SelectIs
<1>4. PICK at : Picks(chain, P, at)
  BY <1>1, SelectIs
<1>5. \A i \in 1 .. Cardinality(P) : at[i] \in P /\ Genuine(chain)[i] = chain[at[i]]
  BY <1>1, <1>4 DEF Picks
<1>6. Genuine(chain) \in Seq(Cert \ Corrupt)
  <2>1. \A i \in DOMAIN Genuine(chain) : Genuine(chain)[i] \in Cert \ Corrupt
    BY <1>1, <1>2, <1>3, <1>5
  <2> QED
    BY <1>3, <2>1
<1>7. \A c : c \in Range(Genuine(chain)) <=> c \in Range(chain) \ Corrupt
  <2>1. ASSUME NEW c \in Range(Genuine(chain)) PROVE c \in Range(chain) \ Corrupt
    BY <1>1, <1>2, <1>3, <1>5 DEF Range
  <2>2. ASSUME NEW c \in Range(chain) \ Corrupt PROVE c \in Range(Genuine(chain))
    <3>1. PICK p \in DOMAIN chain : chain[p] = c
      BY DEF Range
    <3>2. PICK i \in 1 .. Cardinality(P) : at[i] = p
      BY <1>2, <1>4, <3>1 DEF Picks
    <3> QED
      BY <1>3, <1>5, <3>1, <3>2 DEF Range
  <2> QED
    BY <2>1, <2>2
<1> QED
  BY <1>6, <1>7

(* A chain without PEM text stays as it is.                                *)
LEMMA GenuineStays ==
  ASSUME NEW chain \in Seq(Cert \ Corrupt) PROVE Genuine(chain) = chain
<1>0. \A i \in DOMAIN chain : chain[i] \in Cert \ Corrupt
  OBVIOUS
<1>1. {i \in DOMAIN chain : chain[i] \notin Corrupt} = DOMAIN chain
  BY <1>0
<1> QED
  BY <1>1, SelectAll DEF Genuine

(* Where the entries of a list come from when it is cleaned.               *)
CleansTo(es, at) ==
  /\ \A i \in DOMAIN Clean(es) :
       /\ at[i] \in DOMAIN es
       /\ Clean(es)[i] = [es[at[i]] EXCEPT !.chain = Genuine(es[at[i]].chain)]
  /\ \A i, j \in DOMAIN Clean(es) : at[i] = at[j] => i = j
  /\ \A p \in DOMAIN es : Genuine(es[p].chain) # <<>> => \E i \in DOMAIN Clean(es) : at[i] = p

(* Cleaning keeps every entry that has a certificate left, once.           *)
LEMMA CleanIs ==
  ASSUME NEW es \in Seq(Entry)
  PROVE  Clean(es) \in Seq(CleanEntry) /\ \E at : CleansTo(es, at)
<1> DEFINE cleaned == [i \in DOMAIN es |-> [es[i] EXCEPT !.chain = Genuine(es[i].chain)]]
           P == {i \in DOMAIN es : cleaned[i].chain # <<>>}
           All == [chain : Seq(Cert \ Corrupt), uri : Uri \cup {None}, valid : Validity]
<1>1. \A i \in DOMAIN es : /\ cleaned[i] = [es[i] EXCEPT !.chain = Genuine(es[i].chain)]
                           /\ cleaned[i] \in All /\ cleaned[i].chain = Genuine(es[i].chain)
                           /\ i \in P <=> Genuine(es[i].chain) # <<>>
                           /\ i \in P => cleaned[i] \in CleanEntry
  <2> SUFFICES ASSUME NEW i \in DOMAIN es
               PROVE  /\ cleaned[i] = [es[i] EXCEPT !.chain = Genuine(es[i].chain)]
                      /\ cleaned[i] \in All /\ cleaned[i].chain = Genuine(es[i].chain)
                      /\ i \in P <=> Genuine(es[i].chain) # <<>>
                      /\ i \in P => cleaned[i] \in CleanEntry
    OBVIOUS
  <2>1. es[i] \in Entry
    OBVIOUS
  <2>2. Genuine(es[i].chain) \in Seq(Cert \ Corrupt)
    BY <2>1, GenuineIs DEF Entry
  <2> QED
    BY <2>1, <2>2 DEF Entry, CleanEntry
<1>2. cleaned \in Seq(All) /\ DOMAIN cleaned = DOMAIN es /\ P \in SUBSET DOMAIN cleaned
  <2>1. DOMAIN cleaned = 1 .. Len(es) /\ Len(es) \in Nat /\ DOMAIN es = 1 .. Len(es)
    OBVIOUS
  <2>2. cleaned \in [1 .. Len(es) -> All]
    BY <1>1, <2>1
  <2> QED
    BY <2>1, <2>2
<1>3. Clean(es) = Select(cleaned, P)
  BY DEF Clean
<1> HIDE DEF cleaned, P, All
<1>4. /\ Clean(es) \in Seq(All) /\ DOMAIN Clean(es) = 1 .. Cardinality(P)
      /\ Cardinality(P) \in Nat
  BY <1>2, <1>3, SelectIs
<1>5. PICK at : Picks(cleaned, P, at)
  BY <1>2, SelectIs
<1>6. \A i \in 1 .. Cardinality(P) : at[i] \in P /\ Clean(es)[i] = cleaned[at[i]]
  BY <1>3, <1>5 DEF Picks
<1>7. Clean(es) \in Seq(CleanEntry)
  <2>1. \A i \in DOMAIN Clean(es) : Clean(es)[i] \in CleanEntry
    BY <1>1, <1>2, <1>4, <1>6
  <2> QED
    BY <1>4, <2>1
<1>8. CleansTo(es, at)
  BY <1>1, <1>2, <1>4, <1>5, <1>6 DEF CleansTo, Picks
<1> QED
  BY <1>7, <1>8

(* Where the entries come from that do not contain a certificate.          *)
DropsTo(es, c, at) ==
  /\ \A i \in DOMAIN Without(es, c) :
       /\ at[i] \in DOMAIN Clean(es) /\ Without(es, c)[i] = Clean(es)[at[i]]
       /\ c \notin Range(Clean(es)[at[i]].chain)
  /\ \A i, j \in DOMAIN Without(es, c) : at[i] = at[j] => i = j
  /\ \A p \in DOMAIN Clean(es) :
       c \notin Range(Clean(es)[p].chain) => \E i \in DOMAIN Without(es, c) : at[i] = p

(* A deletion drops the entries with the certificate, and no other.        *)
LEMMA WithoutIs ==
  ASSUME NEW es \in Seq(Entry), NEW c
  PROVE  Without(es, c) \in Seq(CleanEntry) /\ \E at : DropsTo(es, c, at)
<1> DEFINE P == {i \in DOMAIN Clean(es) : c \notin Range(Clean(es)[i].chain)}
<1>1. /\ P \in SUBSET DOMAIN Clean(es)
      /\ \A i \in DOMAIN Clean(es) : i \in P <=> c \notin Range(Clean(es)[i].chain)
  OBVIOUS
<1>2. Without(es, c) = Select(Clean(es), P)
  BY DEF Without
<1> HIDE DEF P
<1>3. Clean(es) \in Seq(CleanEntry)
  BY CleanIs
<1>4. Without(es, c) \in Seq(CleanEntry) /\ DOMAIN Without(es, c) = 1 .. Cardinality(P)
  BY <1>1, <1>2, <1>3, SelectIs
<1>5. PICK at : Picks(Clean(es), P, at)
  BY <1>1, <1>3, SelectIs
<1>6. DropsTo(es, c, at)
  BY <1>1, <1>2, <1>4, <1>5 DEF DropsTo, Picks
<1> QED
  BY <1>4, <1>6

(* A clean list is a list. *)
LEMMA CleanSeq == \A es \in Seq(CleanEntry) : es \in Seq(Entry)
<1> SUFFICES ASSUME NEW es \in Seq(CleanEntry) PROVE es \in Seq(Entry)
  OBVIOUS
<1>1. ASSUME NEW s \in Seq(Cert \ Corrupt) PROVE s \in Seq(Cert)
  <2>1. \A i \in DOMAIN s : s[i] \in Cert
    OBVIOUS
  <2> QED
    BY <2>1
<1>2. CleanEntry \subseteq Entry
  BY <1>1 DEF CleanEntry, Entry
<1>3. \A i \in DOMAIN es : es[i] \in CleanEntry
  OBVIOUS
<1> QED
  BY <1>2, <1>3

(* A validity period is its start and its end.                             *)
LEMMA ValidParts ==
  ASSUME NEW e \in CleanEntry, NEW t
  PROVE  /\ [e EXCEPT !.valid.end = t] = [e EXCEPT !.valid = [start |-> e.valid.start, end |-> t]]
         /\ [e EXCEPT !.valid.start = t] = [e EXCEPT !.valid = [start |-> t, end |-> e.valid.end]]
<1>1. e.valid \in [start : TimeOrNone, end : TimeOrNone]
  BY DEF CleanEntry, Validity
<1>2. /\ [e.valid EXCEPT !.end = t] = [start |-> e.valid.start, end |-> t]
      /\ [e.valid EXCEPT !.start = t] = [start |-> t, end |-> e.valid.end]
  BY <1>1
<1>3. /\ [e EXCEPT !.valid.end = t] = [e EXCEPT !.valid = [e.valid EXCEPT !.end = t]]
      /\ [e EXCEPT !.valid.start = t] = [e EXCEPT !.valid = [e.valid EXCEPT !.start = t]]
  BY DEF CleanEntry
<1> QED
  BY <1>2, <1>3

(* A rotation ends the last entry, if it is open, and disturbs no other.   *)
LEMMA EndedIs ==
  ASSUME NEW es \in Seq(CleanEntry), NEW t \in TimeOrNone
  PROVE  /\ Ended(es, t) \in Seq(CleanEntry) /\ DOMAIN Ended(es, t) = DOMAIN es
         /\ Len(Ended(es, t)) = Len(es)
         /\ \A i \in DOMAIN es :
              \/ Ended(es, t)[i] = es[i]
              \/ /\ es[i].valid.end = None
                 /\ Ended(es, t)[i] = [es[i] EXCEPT !.valid = [start |-> es[i].valid.start, end |-> t]]
<1>1. CASE es # <<>> /\ es[Len(es)].valid.end = None
  <2> DEFINE last == [es[Len(es)] EXCEPT !.valid = [start |-> es[Len(es)].valid.start, end |-> t]]
  <2>1. Len(es) \in DOMAIN es
    BY <1>1
  <2>2. es[Len(es)] \in CleanEntry
    BY <2>1
  <2>3. last \in CleanEntry
    BY <2>2 DEF CleanEntry, Validity
  <2>4. [es[Len(es)] EXCEPT !.valid.end = t] = last
    BY <2>2, ValidParts
  <2>5. Ended(es, t) = [es EXCEPT ![Len(es)] = last]
    BY <1>1, <2>1, <2>4 DEF Ended
  <2>6. last.valid = [start |-> es[Len(es)].valid.start, end |-> t]
    BY <2>2 DEF CleanEntry
  <2> HIDE DEF last
  <2>7. Ended(es, t) \in Seq(CleanEntry) /\ DOMAIN Ended(es, t) = DOMAIN es /\ Len(Ended(es, t)) = Len(es)
    BY <2>1, <2>3, <2>5
  <2>8. \A i \in DOMAIN es : Ended(es, t)[i] = IF i = Len(es) THEN last ELSE es[i]
    BY <2>1, <2>5
  <2> QED
    BY <1>1, <2>7, <2>8 DEF last
<1>2. CASE ~(es # <<>> /\ es[Len(es)].valid.end = None)
  <2>1. Ended(es, t) = es
    BY <1>2 DEF Ended
  <2> QED
    BY <2>1
<1> QED
  BY <1>1, <1>2

(* A new entry comes to stand behind the others: the last of them is ended. *)
Appends(es, e) ==
  /\ Entered(es, e) \in Seq(CleanEntry)
  /\ DOMAIN Entered(es, e) = DOMAIN es \cup {Len(es) + 1}
  /\ Len(es) + 1 \notin DOMAIN es
  /\ Entered(es, e)[Len(es) + 1] = e
  /\ \A i \in DOMAIN es :
       /\ es[i].chain # e.chain
       /\ \/ Entered(es, e)[i] = es[i]
          \/ /\ es[i].valid.end = None
             /\ Entered(es, e)[i] =
                  [es[i] EXCEPT !.valid = [start |-> es[i].valid.start, end |-> e.valid.start]]

(* Such an entry is one whose chain is not listed ...                      *)
LEMMA AppendedIs ==
  ASSUME NEW es \in Seq(CleanEntry), NEW e \in CleanEntry, Position(es, e.chain) = {}
  PROVE  Appends(es, e)
<1> DEFINE ended == Ended(es, e.valid.start)
<1>1. e.valid.start \in TimeOrNone
  BY DEF CleanEntry, Validity
<1>2. /\ ended \in Seq(CleanEntry) /\ DOMAIN ended = DOMAIN es /\ Len(ended) = Len(es)
      /\ \A i \in DOMAIN es :
              \/ ended[i] = es[i]
              \/ /\ es[i].valid.end = None
                 /\ ended[i] = [es[i] EXCEPT !.valid = [start |-> es[i].valid.start, end |-> e.valid.start]]
  BY <1>1, EndedIs
<1>3. Entered(es, e) = Append(ended, e)
  BY DEF Entered
<1> HIDE DEF ended
<1>4. \A i \in DOMAIN es : es[i].chain # e.chain
  BY DEF Position
<1>5. /\ Append(ended, e) \in Seq(CleanEntry) /\ DOMAIN Append(ended, e) = 1 .. Len(es) + 1
      /\ Append(ended, e)[Len(es) + 1] = e
      /\ \A i \in DOMAIN es : Append(ended, e)[i] = ended[i]
  BY <1>2
<1>6. 1 .. Len(es) + 1 = DOMAIN es \cup {Len(es) + 1} /\ Len(es) + 1 \notin DOMAIN es
  OBVIOUS
<1> QED
  BY <1>2, <1>3, <1>4, <1>5, <1>6 DEF Appends

(* ... and one that is listed stays in its place.                          *)
LEMMA InPlaceIs ==
  ASSUME NEW es \in Seq(CleanEntry), NEW e \in CleanEntry, Position(es, e.chain) # {}
  PROVE  \E p \in DOMAIN es :
           /\ es[p].chain = e.chain
           /\ Entered(es, e) \in Seq(CleanEntry) /\ DOMAIN Entered(es, e) = DOMAIN es
           /\ \A i \in DOMAIN es :
                Entered(es, e)[i] = IF i = p THEN Replaced(es[p], e) ELSE es[i]
           /\ Replaced(es[p], e) =
                IF e.valid.start = None
                THEN [e EXCEPT !.valid = [start |-> es[p].valid.start, end |-> e.valid.end]] ELSE e
<1> DEFINE P == Position(es, e.chain)
           p == Min(P)
<1>1. /\ P \in SUBSET (1 .. Len(es)) /\ Len(es) \in Nat /\ P \subseteq DOMAIN es
      /\ \A i \in P : es[i].chain = e.chain
  BY DEF Position
<1>2. p \in P
  <2> HIDE DEF P
  <2>1. P # {}
    BY DEF P
  <2> QED
    BY <1>1, <2>1, MinMaxIn
<1>3. p \in DOMAIN es /\ es[p].chain = e.chain /\ es[p] \in CleanEntry
  BY <1>1, <1>2
<1>4. Entered(es, e) = [es EXCEPT ![p] = Replaced(es[p], e)]
  BY DEF Entered
<1> HIDE DEF p
<1>5. Replaced(es[p], e) =
        IF e.valid.start = None
        THEN [e EXCEPT !.valid = [start |-> es[p].valid.start, end |-> e.valid.end]] ELSE e
  <2>1. [e EXCEPT !.valid.start = es[p].valid.start] =
          [e EXCEPT !.valid = [start |-> es[p].valid.start, end |-> e.valid.end]]
    BY ValidParts
  <2> QED
    BY <2>1 DEF Replaced
<1>6. Replaced(es[p], e) \in CleanEntry
  <2>1. [start |-> es[p].valid.start, end |-> e.valid.end] \in Validity
    BY <1>3 DEF CleanEntry, Validity
  <2> QED
    BY <1>5, <2>1 DEF CleanEntry
<1>7. /\ Entered(es, e) \in Seq(CleanEntry) /\ DOMAIN Entered(es, e) = DOMAIN es
      /\ \A i \in DOMAIN es : Entered(es, e)[i] = IF i = p THEN Replaced(es[p], e) ELSE es[i]
  <2> HIDE DEF Replaced
  <2> QED
    BY <1>3, <1>4, <1>6
<1> QED
  BY <1>3, <1>5, <1>7

-----------------------------------------------------------------------------
(* No two services of a kind have the same URL.                            *)
Distinct(offers) == \A s, t \in offers : s.url = t.url => s = t

(* A rotation may end the period of services that share it, but it neither *)
(* adds nor drops one.                                                     *)
LEMMA FollowingIs ==
  ASSUME NEW k, services[k] \subseteq Service, Distinct(services[k]),
         NEW es, NEW chain, NEW t \in TimeOrNone
  PROVE  LET followed == Following(k, es, chain, t)
         IN /\ followed \subseteq Service /\ Distinct(followed)
            /\ \A s \in followed : \E o \in services[k] : o.url = s.url
<1> DEFINE last == IF es = <<>> THEN None ELSE es[Len(es)].chain
           Follow(s) ==
             IF s.of = None THEN s
             ELSE IF Position(es, chain) # {}
             THEN IF s.of = chain THEN [s EXCEPT !.of = None] ELSE s
             ELSE IF s.of = last /\ s.valid.end = None THEN [s EXCEPT !.valid.end = t] ELSE s
<1>1. Following(k, es, chain, t) = {Follow(s) : s \in services[k]}
  BY DEF Following
<1>2. ASSUME NEW s \in services[k] PROVE Follow(s) \in Service /\ Follow(s).url = s.url
  <2>1. s \in Service
    OBVIOUS
  <2>2. [s EXCEPT !.of = None] \in Service /\ [s EXCEPT !.of = None].url = s.url
    BY <2>1 DEF Service
  <2>3. [s EXCEPT !.valid.end = t] \in Service /\ [s EXCEPT !.valid.end = t].url = s.url
    BY <2>1 DEF Service, Validity
  <2> QED
    BY <2>1, <2>2, <2>3
<1> HIDE DEF Follow
<1> QED
  BY <1>1, <1>2 DEF Distinct

(* A service replaces the one that has its URL.                            *)
LEMMA OfferIs ==
  ASSUME NEW offers \in SUBSET Service, Distinct(offers), NEW s \in Service
  PROVE  /\ Offer(offers, s) \subseteq Service /\ Distinct(Offer(offers, s))
         /\ \A o \in Offer(offers, s) : o = s \/ o \in offers
  BY DEF Offer, Distinct

(* What the status says of a period, now. *)
LEMMA ValidFromIs ==
  ASSUME now \in Time, NEW status
  PROVE  /\ ValidFrom(status) \in Validity
         /\ status = "Active" => ValidFrom(status) = [start |-> now, end |-> None]
         /\ \/ ValidFrom(status) = [start |-> now, end |-> None]
            \/ status = "Expired" /\ ValidFrom(status) = [start |-> None, end |-> now]
  BY DEF ValidFrom, Validity, TimeOrNone

(* The entry of a chain that has been entered, and its place.              *)
LEMMA EnteredTypes ==
  ASSUME NEW es \in Seq(CleanEntry), NEW e \in CleanEntry
  PROVE  LET entered == Entered(es, e)
             p == Min(Position(entered, e.chain))
         IN entered \in Seq(CleanEntry) /\ p \in DOMAIN entered
            /\ entered[p] \in CleanEntry /\ entered[p].chain = e.chain
<1> DEFINE entered == Entered(es, e)
           P == Position(entered, e.chain)
<1>1. entered \in Seq(CleanEntry) /\ \E i \in DOMAIN entered : entered[i].chain = e.chain
  <2>1. CASE Position(es, e.chain) = {}
    <3>1. /\ Entered(es, e) \in Seq(CleanEntry)
          /\ DOMAIN Entered(es, e) = DOMAIN es \cup {Len(es) + 1}
          /\ Entered(es, e)[Len(es) + 1] = e
      BY <2>1, AppendedIs DEF Appends
    <3> QED
      BY <3>1
  <2>2. CASE Position(es, e.chain) # {}
    <3>1. PICK p \in DOMAIN es :
           /\ Entered(es, e) \in Seq(CleanEntry) /\ DOMAIN Entered(es, e) = DOMAIN es
           /\ \A i \in DOMAIN es :
                Entered(es, e)[i] = IF i = p THEN Replaced(es[p], e) ELSE es[i]
           /\ Replaced(es[p], e) =
                IF e.valid.start = None
                THEN [e EXCEPT !.valid = [start |-> es[p].valid.start, end |-> e.valid.end]] ELSE e
      BY <2>2, InPlaceIs
    <3>2. Replaced(es[p], e).chain = e.chain
      BY <3>1 DEF CleanEntry
    <3> QED
      BY <3>1, <3>2
  <2> QED
    BY <2>1, <2>2
<1> HIDE DEF entered
<1>2. /\ P \in SUBSET (1 .. Len(entered)) /\ Len(entered) \in Nat /\ P # {}
      /\ \A i \in P : i \in DOMAIN entered /\ entered[i].chain = e.chain
  BY <1>1 DEF Position
<1> HIDE DEF P
<1>3. Min(P) \in P
  BY <1>2, MinMaxIn
<1> QED
  BY <1>1, <1>2, <1>3 DEF entered, P

(* The services of a kind, after one URI was refreshed.                    *)
LEMMA RefreshedIs ==
  ASSUME NEW offers \in SUBSET Service, Distinct(offers),
         NEW es \in Seq(CleanEntry), NEW uri \in Uri
  PROVE  /\ Refreshed(offers, es, uri) \subseteq Service /\ Distinct(Refreshed(offers, es, uri))
         /\ \A s \in Refreshed(offers, es, uri) :
              \/ s \in offers /\ s.url # uri
              \/ s.url = uri /\ \E i \in DOMAIN es : es[i].uri = uri
<1> DEFINE P == Backing(es, uri)
           e == es[Max(P)]
           s == [url |-> uri, valid |-> e.valid, of |-> e.chain]
<1>1. CASE P = {}
  BY <1>1 DEF Refreshed, Distinct
<1>2. CASE P # {}
  <2>1. P \in SUBSET (1 .. Len(es)) /\ \A i \in P : i \in DOMAIN es /\ es[i].uri = uri
    BY DEF Backing
  <2>2. Max(P) \in P
    <3> HIDE DEF P
    <3>1. Len(es) \in Nat
      OBVIOUS
    <3> QED
      BY <1>2, <2>1, <3>1, MinMaxIn
  <2>3. e \in CleanEntry /\ e \in Entry
    BY <2>1, <2>2, CleanSeq
  <2>4. Refreshed(offers, es, uri) = Offer(offers, s)
    BY <1>2 DEF Refreshed
  <2> HIDE DEF e, P
  <2>5. s \in Service /\ s.url = uri
    BY <2>3 DEF Service, Entry
  <2> HIDE DEF s
  <2>6. /\ Offer(offers, s) \subseteq Service /\ Distinct(Offer(offers, s))
        /\ \A o \in Offer(offers, s) : o = s \/ (o \in offers /\ o.url # uri)
    BY <2>5, OfferIs DEF Offer
  <2> QED
    BY <2>1, <2>2, <2>4, <2>5, <2>6
<1> QED
  BY <1>1, <1>2

(* Setting an authority or a log keeps the types.                          *)
LEMMA SetTypes ==
  ASSUME TypeOK, NEW k \in Kind, NEW n \in Name, NEW chain \in Chain,
         NEW uri \in Uri \cup {None}, NEW status \in {"Active", "Expired"},
         Set(k, n, chain, uri, status)
  PROVE  TypeOK'
<1> DEFINE es == Clean(root[k])
           e == [chain |-> chain, uri |-> uri, valid |-> ValidFrom(status)]
           entered == Entered(es, e)
           valid == entered[Min(Position(entered, chain))].valid
           s == [url |-> uri, valid |-> valid, of |-> chain]
           offers == Offer(Following(k, es, chain, e.valid.start), s)
<1>1. es \in Seq(CleanEntry)
  BY CleanIs DEF TypeOK
<1>2. e \in CleanEntry /\ e.chain = chain /\ e.valid.start \in TimeOrNone /\ chain \in Seq(Cert \ Corrupt)
  BY TrustBundleAssumption, ValidFromIs DEF TypeOK, CleanEntry, Validity
<1>3. /\ root' = [root EXCEPT ![k] = entered]
      /\ services' = IF k = "Ctlog" THEN services ELSE [services EXCEPT ![k] = offers]
      /\ newest' \in [Kind -> Chain \cup {None}]
      /\ left' = [left EXCEPT ![k] = Lost(k, entered)]
      /\ target' = [target EXCEPT ![n] = chain]
      /\ set' \subseteq Kind
      /\ UNCHANGED <<now, pc, run>>
  BY DEF Set, TypeOK
<1> HIDE DEF es, e
<1>4. entered \in Seq(CleanEntry) /\ valid \in Validity
  BY <1>1, <1>2, EnteredTypes DEF CleanEntry
<1>5. root' \in [Kind -> Seq(Entry)]
  BY <1>3, <1>4, CleanSeq DEF TypeOK
<1>6. Lost(k, entered) \subseteq Uri
  <2>1. \A i \in DOMAIN root[k] : root[k][i] \in Entry
    BY DEF TypeOK
  <2> QED
    BY <2>1 DEF Lost, UrisOf, Entry, TypeOK
<1>7. offers \subseteq Service /\ Distinct(offers)
  <2>1. services[k] \subseteq Service /\ Distinct(services[k])
    BY DEF TypeOK, Distinct
  <2>2. Following(k, es, chain, e.valid.start) \subseteq Service
        /\ Distinct(Following(k, es, chain, e.valid.start))
    BY <1>2, <2>1, FollowingIs
  <2>3. chain \in Seq(Cert)
    <3>1. \A i \in DOMAIN chain : chain[i] \in Cert
      BY <1>2
    <3> QED
      BY <1>2, <3>1
  <2>4. s \in Service
    BY <1>4, <2>3 DEF Service
  <2> HIDE DEF s
  <2> QED
    BY <2>2, <2>4, OfferIs
<1> HIDE DEF offers, entered
<1>8. /\ services' \in [Kind -> SUBSET Service]
      /\ \A j \in Kind : Distinct(services'[j])
      /\ "Ctlog" \in Kind => services'["Ctlog"] = {}
  BY <1>3, <1>7 DEF TypeOK, Distinct
<1>9. left' \in [Kind -> SUBSET Uri] /\ target' \in [Name -> Chain \cup {None}]
  BY <1>3, <1>6 DEF TypeOK
<1> QED
  BY <1>3, <1>5, <1>8, <1>9 DEF TypeOK, Distinct

(* The URI of a target is that of an entry with its certificate.           *)
LEMMA UriForIs ==
  ASSUME NEW es \in Seq(Entry), NEW c
  PROVE  \/ UriFor(es, c) = None /\ \A i \in DOMAIN es : c \in Range(es[i].chain) => es[i].uri = None
         \/ \E i \in DOMAIN es : /\ c \in Range(es[i].chain) /\ es[i].uri # None
                                 /\ UriFor(es, c) = es[i].uri
<1> DEFINE P == {i \in DOMAIN es : c \in Range(es[i].chain) /\ es[i].uri # None}
<1>0. \A i \in DOMAIN es : i \in P <=> c \in Range(es[i].chain) /\ es[i].uri # None
  OBVIOUS
<1>1. UriFor(es, c) = IF P = {} THEN None ELSE es[Min(P)].uri
  BY DEF UriFor
<1>2. P \in SUBSET (1 .. Len(es)) /\ Len(es) \in Nat /\ P \subseteq DOMAIN es
  OBVIOUS
<1> HIDE DEF P
<1>3. P # {} => Min(P) \in P
  BY <1>2, MinMaxIn
<1> QED
  BY <1>0, <1>1, <1>2, <1>3

(* Deleting a target keeps the types.                                      *)
LEMMA DeleteTypes ==
  ASSUME TypeOK, NEW k \in Kind, NEW n \in Name, Delete(k, n)
  PROVE  TypeOK'
<1> DEFINE c == Head(target[n])
           uri == UriFor(root[k], c)
           es == Without(root[k], c)
<1>1. root[k] \in Seq(Entry) /\ \A i \in DOMAIN root[k] : root[k][i] \in Entry
  BY DEF TypeOK
<1>2. es \in Seq(CleanEntry) /\ es \in Seq(Entry)
  BY <1>1, WithoutIs, CleanSeq
<1>3. uri \in Uri \cup {None}
  <2>1. \A i \in DOMAIN root[k] : root[k][i].uri \in Uri \cup {None}
    BY <1>1 DEF Entry
  <2> HIDE DEF c
  <2> QED
    BY <1>1, <2>1, UriForIs
<1>4. Clean(root[k]) \in Seq(CleanEntry)
  BY <1>1, CleanIs
<1>5. /\ root' = [root EXCEPT ![k] = es]
      /\ services' = IF uri # None /\ k # "Ctlog"
                     THEN [services EXCEPT ![k] = Refreshed(services[k], es, uri)] ELSE services
      /\ newest' \in [Kind -> Chain \cup {None}]
      /\ left' = [left EXCEPT ![k] = Lost(k, Clean(root[k]))]
      /\ target' = [target EXCEPT ![n] = None]
      /\ UNCHANGED <<now, pc, run, set>>
  BY DEF Delete, TypeOK
<1> HIDE DEF es, uri
<1>6. root' \in [Kind -> Seq(Entry)]
  BY <1>2, <1>5 DEF TypeOK
<1>7. Lost(k, Clean(root[k])) \subseteq Uri
  BY <1>1 DEF Lost, UrisOf, Entry, TypeOK
<1>8. uri # None => /\ Refreshed(services[k], es, uri) \subseteq Service
                    /\ Distinct(Refreshed(services[k], es, uri))
  <2>1. services[k] \in SUBSET Service /\ Distinct(services[k])
    BY DEF TypeOK, Distinct
  <2> QED
    BY <1>2, <1>3, <2>1, RefreshedIs
<1>9. /\ services' \in [Kind -> SUBSET Service]
      /\ \A j \in Kind : Distinct(services'[j])
      /\ "Ctlog" \in Kind => services'["Ctlog"] = {}
  BY <1>5, <1>8 DEF TypeOK, Distinct
<1>10. left' \in [Kind -> SUBSET Uri] /\ target' \in [Name -> Chain \cup {None}]
  BY <1>5, <1>7 DEF TypeOK
<1> QED
  BY <1>5, <1>6, <1>9, <1>10 DEF TypeOK, Distinct

(* Saving the bundle parts services and entries.                           *)
LEMMA SaveTypes ==
  ASSUME TypeOK, Save
  PROVE  /\ TypeOK'
         /\ \A k \in Kind : \A s \in services'[k] : \E o \in services[k] : o.url = s.url
<1> DEFINE Apart(s) == [s EXCEPT !.of = None]
<1>1. \A k \in Kind : services'[k] = {Apart(s) : s \in services[k]}
  BY DEF Save
<1>2. ASSUME NEW k \in Kind, NEW s \in services[k]
      PROVE  Apart(s) \in Service /\ Apart(s).url = s.url
  <2>1. s \in Service
    BY DEF TypeOK
  <2> QED
    BY <2>1 DEF Service
<1> HIDE DEF Apart
<1>3. \A k \in Kind : \A s \in services'[k] : \E o \in services[k] : s = Apart(o)
  BY <1>1
<1>4. services' \in [Kind -> SUBSET Service]
  BY <1>1, <1>2 DEF Save
<1>5. \A k \in Kind : \A s, t \in services'[k] : s.url = t.url => s = t
  BY <1>2, <1>3 DEF TypeOK
<1>6. "Ctlog" \in Kind => services'["Ctlog"] = {}
  BY <1>3 DEF TypeOK
<1>7. TypeOK'
  BY <1>4, <1>5, <1>6 DEF Save, TypeOK, history
<1> QED
  BY <1>2, <1>3, <1>7

(* Every step keeps the types.                                             *)
LEMMA TypeStep == ASSUME TypeOK, [Next]_vars PROVE TypeOK'
<1>1. CASE Begin
  BY <1>1, TrustBundleAssumption DEF Begin, TypeOK, bundle, history
<1>2. CASE Save
  BY <1>2, SaveTypes
<1>3. CASE Tick
  BY <1>3, TrustBundleAssumption DEF Tick, TypeOK, bundle, history, Time
<1>4. CASE \E k \in Kind, n \in Name : Delete(k, n)
  BY <1>4, DeleteTypes
<1>5. CASE \E k \in Kind, n \in Name, chain \in Chain, uri \in Uri \cup {None},
              status \in {"Active", "Expired"} : Set(k, n, chain, uri, status)
  BY <1>5, SetTypes
<1>6. CASE UNCHANGED vars
  BY <1>6 DEF vars, TypeOK, bundle, history
<1> QED
  BY <1>1, <1>2, <1>3, <1>4, <1>5, <1>6 DEF Next

(* A repository that an earlier version wrote, or a new one.               *)
LEMMA InitTypes ==
  ASSUME Init
  PROVE  /\ TypeOK
         /\ \A k \in Kind : \A s \in services[k] : s.url \in UrisOf(root[k])
<1>1. ASSUME NEW k \in Kind PROVE root[k] \in Seq(Entry) /\ UrisOf(root[k]) \subseteq Uri
  <2>1. root[k] \in Seq(Entry)
    BY TrustBundleAssumption DEF Init
  <2>2. \A i \in DOMAIN root[k] : root[k][i] \in Entry
    BY <2>1
  <2> QED
    BY <2>1, <2>2 DEF UrisOf, Entry
<1>2. [start |-> 0, end |-> None] \in Validity /\ 0 \in Time
  BY TrustBundleAssumption DEF Validity, TimeOrNone, Time
<1> DEFINE First(k) == {[url |-> u, valid |-> [start |-> 0, end |-> None], of |-> None] :
                          u \in UrisOf(root[k])}
<1>3. \A k \in Kind : First(k) \subseteq Service /\ \A s \in First(k) :
        s.url \in UrisOf(root[k]) /\ s = [url |-> s.url, valid |-> [start |-> 0, end |-> None], of |-> None]
  BY <1>1, <1>2 DEF Service
<1>4. services = [k \in Kind |-> IF k = "Ctlog" THEN {} ELSE First(k)]
  BY DEF Init
<1> HIDE DEF First
<1>5. /\ services \in [Kind -> SUBSET Service]
      /\ \A k \in Kind : \A s, t \in services[k] : s.url = t.url => s = t
      /\ "Ctlog" \in Kind => services["Ctlog"] = {}
      /\ \A k \in Kind : \A s \in services[k] : s.url \in UrisOf(root[k])
  BY <1>3, <1>4
<1>6. root \in [Kind -> Seq(Entry)]
  BY <1>1 DEF Init
<1> QED
  BY <1>2, <1>5, <1>6, TrustBundleAssumption DEF Init, TypeOK

-----------------------------------------------------------------------------
(* A period that begins in the past, and before it ends. *)
Begun(valid, t) ==
  valid.start # None => valid.start <= t /\ (valid.end # None => valid.start <= valid.end)

(* A list in which no chain is entered twice, with PEM text or without.    *)
Listed(es, t) ==
  /\ \A i \in DOMAIN es : Begun(es[i].valid, t)
  /\ \A i, j \in DOMAIN es : es[i].chain = es[j].chain => i = j
  /\ \A i, j \in DOMAIN es :
       Genuine(es[i].chain) = Genuine(es[j].chain) /\ Genuine(es[i].chain) # <<>> => i = j

(* In a clean list chains are compared as they are. *)
LEMMA ListedOfClean ==
  ASSUME NEW es \in Seq(CleanEntry), NEW t,
         \A i \in DOMAIN es : Begun(es[i].valid, t),
         \A i, j \in DOMAIN es : es[i].chain = es[j].chain => i = j
  PROVE  Listed(es, t)
<1>1. \A i \in DOMAIN es : es[i] \in CleanEntry
  OBVIOUS
<1>2. \A i \in DOMAIN es : Genuine(es[i].chain) = es[i].chain
  BY <1>1, GenuineStays DEF CleanEntry
<1> QED
  BY <1>2 DEF Listed

(* Cleaning a list lists nothing twice.                                    *)
LEMMA ListedClean ==
  ASSUME NEW es \in Seq(Entry), NEW t, Listed(es, t) PROVE Listed(Clean(es), t)
<1>1. Clean(es) \in Seq(CleanEntry)
  BY CleanIs
<1>2. PICK at : CleansTo(es, at)
  BY CleanIs
<1>3. ASSUME NEW i \in DOMAIN Clean(es)
      PROVE  /\ at[i] \in DOMAIN es /\ Clean(es)[i].valid = es[at[i]].valid
             /\ Clean(es)[i].chain = Genuine(es[at[i]].chain) /\ Clean(es)[i].chain # <<>>
  <2>1. at[i] \in DOMAIN es /\ Clean(es)[i] = [es[at[i]] EXCEPT !.chain = Genuine(es[at[i]].chain)]
    BY <1>2 DEF CleansTo
  <2>2. es[at[i]] \in Entry /\ Clean(es)[i] \in CleanEntry
    BY <1>1, <2>1
  <2> QED
    BY <2>1, <2>2 DEF Entry, CleanEntry
<1>4. \A i \in DOMAIN Clean(es) : Begun(Clean(es)[i].valid, t)
  BY <1>3 DEF Listed
<1>5. ASSUME NEW i \in DOMAIN Clean(es), NEW j \in DOMAIN Clean(es),
             Clean(es)[i].chain = Clean(es)[j].chain
      PROVE  i = j
  <2>1. at[i] = at[j]
    BY <1>3, <1>5 DEF Listed
  <2> QED
    BY <1>2, <2>1 DEF CleansTo
<1> QED
  BY <1>1, <1>4, <1>5, ListedOfClean

(* Nor does dropping some of its entries.                                  *)
LEMMA ListedWithout ==
  ASSUME NEW es \in Seq(Entry), NEW c, NEW t, Listed(es, t) PROVE Listed(Without(es, c), t)
<1>1. Without(es, c) \in Seq(CleanEntry)
  BY WithoutIs
<1>2. PICK at : DropsTo(es, c, at)
  BY WithoutIs
<1>3. \A i \in DOMAIN Without(es, c) :
        at[i] \in DOMAIN Clean(es) /\ Without(es, c)[i] = Clean(es)[at[i]]
  BY <1>2 DEF DropsTo
<1>4. Listed(Clean(es), t)
  BY ListedClean
<1>5. \A i \in DOMAIN Without(es, c) : Begun(Without(es, c)[i].valid, t)
  BY <1>3, <1>4 DEF Listed
<1>6. ASSUME NEW i \in DOMAIN Without(es, c), NEW j \in DOMAIN Without(es, c),
             Without(es, c)[i].chain = Without(es, c)[j].chain
      PROVE  i = j
  <2>1. at[i] = at[j]
    BY <1>3, <1>4, <1>6 DEF Listed
  <2> QED
    BY <1>2, <2>1 DEF DropsTo
<1> QED
  BY <1>1, <1>5, <1>6, ListedOfClean

(* What the entries of a list are after e was entered: e, the last one     *)
(* with its period ended, or as before.                                    *)
EnteredFrom(es, e, at) ==
  /\ Entered(es, e) \in Seq(CleanEntry) /\ DOMAIN es \subseteq DOMAIN Entered(es, e)
  /\ at \in DOMAIN Entered(es, e)
  /\ Entered(es, e)[at].chain = e.chain /\ Entered(es, e)[at].uri = e.uri
  /\ e.valid.start # None => Entered(es, e)[at].valid = e.valid
  /\ at \notin DOMAIN es => Entered(es, e)[at].valid = e.valid
  /\ at \in DOMAIN es => /\ es[at].chain = e.chain
                         /\ e.valid.start = None =>
                              Entered(es, e)[at].valid = [start |-> es[at].valid.start, end |-> e.valid.end]
  /\ \A i \in DOMAIN Entered(es, e) \ {at} :
       /\ i \in DOMAIN es
       /\ Entered(es, e)[i].chain = es[i].chain /\ Entered(es, e)[i].uri = es[i].uri
       /\ \/ Entered(es, e)[i].valid = es[i].valid
          \/ /\ es[i].valid.end = None
             /\ Entered(es, e)[i].valid = [start |-> es[i].valid.start, end |-> e.valid.start]
  /\ at \notin DOMAIN es => \A i \in DOMAIN es : es[i].chain # e.chain

(* An entry is entered in its place, or behind the others.                 *)
LEMMA EnteredIs ==
  ASSUME NEW es \in Seq(CleanEntry), NEW e \in CleanEntry
  PROVE  \E at : EnteredFrom(es, e, at)
<1>0. \A i \in DOMAIN es : es[i] \in CleanEntry
  OBVIOUS
<1>1. CASE Position(es, e.chain) = {}
  <2>1. Appends(es, e)
    BY <1>1, AppendedIs
  <2>2. \A i \in DOMAIN es :
              /\ Entered(es, e)[i].chain = es[i].chain /\ Entered(es, e)[i].uri = es[i].uri
              /\ \/ Entered(es, e)[i].valid = es[i].valid
                 \/ /\ es[i].valid.end = None
                    /\ Entered(es, e)[i].valid = [start |-> es[i].valid.start, end |-> e.valid.start]
    BY <1>0, <2>1 DEF CleanEntry, Appends
  <2>3. EnteredFrom(es, e, Len(es) + 1)
    BY <2>1, <2>2 DEF EnteredFrom, Appends
  <2> QED
    BY <2>3
<1>2. CASE Position(es, e.chain) # {}
  <2>1. PICK p \in DOMAIN es :
           /\ es[p].chain = e.chain
           /\ Entered(es, e) \in Seq(CleanEntry) /\ DOMAIN Entered(es, e) = DOMAIN es
           /\ \A i \in DOMAIN es :
                Entered(es, e)[i] = IF i = p THEN Replaced(es[p], e) ELSE es[i]
           /\ Replaced(es[p], e) =
                IF e.valid.start = None
                THEN [e EXCEPT !.valid = [start |-> es[p].valid.start, end |-> e.valid.end]] ELSE e
    BY <1>2, InPlaceIs
  <2>2. /\ Entered(es, e)[p].chain = e.chain /\ Entered(es, e)[p].uri = e.uri
        /\ e.valid.start # None => Entered(es, e)[p].valid = e.valid
        /\ e.valid.start = None =>
             Entered(es, e)[p].valid = [start |-> es[p].valid.start, end |-> e.valid.end]
    BY <2>1 DEF CleanEntry
  <2>3. EnteredFrom(es, e, p)
    BY <2>1, <2>2 DEF EnteredFrom
  <2> QED
    BY <2>3
<1> QED
  BY <1>1, <1>2

(* Entering a chain lists nothing twice, and ends no period before its     *)
(* start: what is ended began in the past.                                 *)
LEMMA ListedEntered ==
  ASSUME NEW es \in Seq(CleanEntry), NEW e \in CleanEntry, NEW status, now \in Time,
         e.valid = ValidFrom(status), Listed(es, now)
  PROVE  Listed(Entered(es, e), now)
<1>1. PICK at : EnteredFrom(es, e, at)
  BY EnteredIs
<1>2. /\ now \in Int /\ now # None /\ now <= now
      /\ \/ e.valid.start = now /\ e.valid.end = None
         \/ e.valid.start = None /\ e.valid.end = now
  BY ValidFromIs, TrustBundleAssumption DEF Time
<1>3. ASSUME NEW i \in DOMAIN Entered(es, e) PROVE Begun(Entered(es, e)[i].valid, now)
  <2>1. CASE i = at /\ e.valid.start # None
    BY <1>1, <1>2, <2>1 DEF EnteredFrom, Begun
  <2>2. CASE i = at /\ e.valid.start = None
    BY <1>1, <1>2, <2>2 DEF EnteredFrom, Begun, Listed
  <2>3. CASE i # at
    <3>1. i \in DOMAIN es /\ Begun(es[i].valid, now)
      BY <1>1, <2>3 DEF EnteredFrom, Listed
    <3>2. \/ Entered(es, e)[i].valid = es[i].valid
          \/ Entered(es, e)[i].valid = [start |-> es[i].valid.start, end |-> e.valid.start]
      BY <1>1, <2>3 DEF EnteredFrom
    <3> QED
      BY <1>2, <3>1, <3>2 DEF Begun
  <2> QED
    BY <2>1, <2>2, <2>3
<1>4. ASSUME NEW i \in DOMAIN Entered(es, e), NEW j \in DOMAIN Entered(es, e),
             Entered(es, e)[i].chain = Entered(es, e)[j].chain
      PROVE  i = j
  <2>1. ASSUME NEW u \in DOMAIN Entered(es, e), u # at PROVE Entered(es, e)[u].chain # e.chain
    <3>1. u \in DOMAIN es /\ Entered(es, e)[u].chain = es[u].chain
      BY <1>1, <2>1 DEF EnteredFrom
    <3>2. CASE at \notin DOMAIN es
      BY <1>1, <3>1, <3>2 DEF EnteredFrom
    <3>3. CASE at \in DOMAIN es
      BY <1>1, <2>1, <3>1, <3>3 DEF EnteredFrom, Listed
    <3> QED
      BY <3>2, <3>3
  <2>2. Entered(es, e)[at].chain = e.chain
    BY <1>1 DEF EnteredFrom
  <2>3. CASE i # at /\ j # at
    <3>1. i \in DOMAIN es /\ Entered(es, e)[i].chain = es[i].chain
      BY <1>1, <2>3 DEF EnteredFrom
    <3>2. j \in DOMAIN es /\ Entered(es, e)[j].chain = es[j].chain
      BY <1>1, <2>3 DEF EnteredFrom
    <3> QED
      BY <1>4, <3>1, <3>2 DEF Listed
  <2> QED
    BY <1>4, <2>1, <2>2, <2>3
<1>5. Entered(es, e) \in Seq(CleanEntry)
  BY <1>1 DEF EnteredFrom
<1> QED
  BY <1>3, <1>4, <1>5, ListedOfClean

-----------------------------------------------------------------------------
(* The trusted roots of earlier versions hold no chain twice, and have no  *)
(* period that begins in the future or ends before it starts.              *)
LegacySound == \A es \in Legacy : Listed(es, 0)

(* The lists of every kind hold no chain twice, with periods in order.     *)
AllListed == \A k \in Kind : Listed(root[k], now)

ListInv == TypeOK /\ AllListed

(* What a target file is set as, and what a step makes of the list of a    *)
(* kind.                                                                   *)
Item(chain, uri, status) == [chain |-> chain, uri |-> uri, valid |-> ValidFrom(status)]
DropsIn(j, c) == now' = now /\ root'[j] = Without(root[j], c)
EntersIn(j, e) == now' = now /\ root'[j] = Entered(Clean(root[j]), e)

(* A step leaves the list, drops from it, or enters into it.               *)
LEMMA StepKinds ==
  ASSUME TypeOK, [Next]_vars, NEW j \in Kind
  PROVE  \/ root'[j] = root[j]
         \/ \E c : DropsIn(j, c)
         \/ \E chain \in Chain, uri \in Uri \cup {None}, status \in {"Active", "Expired"} :
              EntersIn(j, Item(chain, uri, status))
<1>1. CASE Begin \/ Save \/ Tick \/ UNCHANGED vars
  BY <1>1 DEF Begin, Save, Tick, vars, bundle
<1>2. ASSUME NEW k \in Kind, NEW n \in Name, Delete(k, n)
      PROVE  root'[j] = root[j] \/ DropsIn(j, Head(target[n]))
  <2>1. root' = [root EXCEPT ![k] = Without(root[k], Head(target[n]))] /\ now' = now
    BY <1>2 DEF Delete
  <2> QED
    BY <2>1 DEF TypeOK, DropsIn
<1>3. ASSUME NEW k \in Kind, NEW n \in Name, NEW chain \in Chain, NEW uri \in Uri \cup {None},
             NEW status \in {"Active", "Expired"}, Set(k, n, chain, uri, status)
      PROVE  root'[j] = root[j] \/ EntersIn(j, Item(chain, uri, status))
  <2>1. root' = [root EXCEPT ![k] = Entered(Clean(root[k]), Item(chain, uri, status))] /\ now' = now
    BY <1>3 DEF Set, Item
  <2> QED
    BY <2>1 DEF TypeOK, EntersIn
<1>4. CASE \E k \in Kind, n \in Name : Delete(k, n)
  BY <1>2, <1>4
<1>5. CASE \E k \in Kind, n \in Name, chain \in Chain, uri \in Uri \cup {None},
              status \in {"Active", "Expired"} : Set(k, n, chain, uri, status)
  <2>1. PICK k \in Kind, n \in Name, chain \in Chain, uri \in Uri \cup {None},
              status \in {"Active", "Expired"} : Set(k, n, chain, uri, status)
    BY <1>5
  <2>2. root'[j] = root[j] \/ EntersIn(j, Item(chain, uri, status))
    BY <1>3, <2>1
  <2> QED
    BY <2>2
<1> QED
  BY <1>1, <1>4, <1>5 DEF Next

(* An item is an entry without PEM text.                                   *)
LEMMA SetEntry ==
  ASSUME TypeOK, NEW chain \in Chain, NEW uri \in Uri \cup {None}, NEW status
  PROVE  /\ Item(chain, uri, status) \in CleanEntry
         /\ Item(chain, uri, status).chain = chain /\ Item(chain, uri, status).uri = uri
         /\ Item(chain, uri, status).valid = ValidFrom(status)
         /\ chain \in Seq(Cert \ Corrupt) /\ chain # <<>>
<1>1. ValidFrom(status) \in Validity
  BY ValidFromIs DEF TypeOK
<1>2. chain \in Seq(Cert \ Corrupt) \ {<<>>}
  BY TrustBundleAssumption
<1> QED
  BY <1>1, <1>2 DEF CleanEntry, Item

(* Time passes: what had begun has begun.                                  *)
LEMMA ListedLater ==
  ASSUME NEW es \in Seq(Entry), NEW t \in Time, NEW u \in Time, t <= u, Listed(es, t)
  PROVE  Listed(es, u)
<1>1. ASSUME NEW i \in DOMAIN es PROVE Begun(es[i].valid, u)
  <2>1. Begun(es[i].valid, t) /\ es[i] \in Entry
    BY DEF Listed
  <2>2. es[i].valid.start \in Time \cup {None}
    BY <2>1 DEF Entry, Validity, TimeOrNone
  <2>3. es[i].valid.start # None => es[i].valid.start \in Int
    BY <2>2 DEF Time
  <2>4. t \in Int /\ u \in Int
    BY DEF Time
  <2> QED
    BY <2>1, <2>3, <2>4 DEF Begun
<1> QED
  BY <1>1 DEF Listed

(* Every step keeps the lists in order.                                    *)
LEMMA ListStep == ASSUME ListInv, [Next]_vars PROVE ListInv'
<1>1. TypeOK /\ TypeOK'
  BY TypeStep DEF ListInv
<1>2. now \in Time /\ now' \in Time /\ now <= now'
  <2>1. CASE Tick
    BY <1>1, <2>1 DEF TypeOK, Time, Tick
  <2>2. CASE Begin \/ Save \/ UNCHANGED vars
    BY <1>1, <2>2 DEF TypeOK, Time, Begin, Save, vars
  <2>3. CASE \E k \in Kind, n \in Name : Delete(k, n)
    BY <1>1, <2>3 DEF TypeOK, Time, Delete
  <2>4. CASE \E k \in Kind, n \in Name, chain \in Chain, uri \in Uri \cup {None},
                status \in {"Active", "Expired"} : Set(k, n, chain, uri, status)
    BY <1>1, <2>4 DEF TypeOK, Time, Set
  <2> QED
    BY <2>1, <2>2, <2>3, <2>4 DEF Next
<1>3. ASSUME NEW k \in Kind PROVE Listed(root'[k], now')
  <2>1. root[k] \in Seq(Entry) /\ Listed(root[k], now)
    BY <1>1 DEF ListInv, AllListed, TypeOK
  <2>2. CASE root'[k] = root[k]
    BY <1>2, <2>1, <2>2, ListedLater
  <2>3. ASSUME NEW c, DropsIn(k, c) PROVE Listed(root'[k], now')
    BY <2>1, <2>3, ListedWithout DEF DropsIn
  <2>4. ASSUME NEW chain \in Chain, NEW uri \in Uri \cup {None}, NEW status \in {"Active", "Expired"},
               EntersIn(k, Item(chain, uri, status))
        PROVE  Listed(root'[k], now')
    <3> DEFINE e == Item(chain, uri, status)
    <3>1. e \in CleanEntry /\ e.valid = ValidFrom(status)
      BY <1>1, SetEntry
    <3>2. Clean(root[k]) \in Seq(CleanEntry) /\ Listed(Clean(root[k]), now)
      BY <2>1, CleanIs, ListedClean
    <3>3. now' = now /\ root'[k] = Entered(Clean(root[k]), e)
      BY <2>4 DEF EntersIn
    <3> HIDE DEF e
    <3>4. Listed(Entered(Clean(root[k]), e), now)
      BY <1>2, <3>1, <3>2, ListedEntered
    <3> QED
      BY <3>3, <3>4
  <2> QED
    BY <1>1, <2>2, <2>3, <2>4, StepKinds
<1> QED
  BY <1>1, <1>3 DEF ListInv, AllListed

(* A new repository, or one of an earlier version, is in order.            *)
LEMMA ListInit == ASSUME Init, LegacySound PROVE ListInv
<1>1. TypeOK
  BY InitTypes
<1>2. \A k \in Kind : Listed(root[k], now)
  BY DEF Init, LegacySound
<1> QED
  BY <1>1, <1>2 DEF ListInv, AllListed

(* The types are kept by any run, whatever a repository starts with.       *)
THEOREM TrustBundleTypes == Spec => []TypeOK
<1>1. Init => TypeOK
  BY InitTypes
<1>2. TypeOK /\ [Next]_vars => TypeOK'
  BY TypeStep
<1> QED
  BY <1>1, <1>2, PTL DEF Spec

(* The lists stay in order over any number of runs.                        *)
LEMMA ListInvariant == LegacySound => (Spec => []ListInv)
<1> SUFFICES ASSUME LegacySound PROVE Spec => []ListInv
  OBVIOUS
<1>1. Init => ListInv
  BY ListInit
<1>2. ListInv /\ [Next]_vars => ListInv'
  BY ListStep
<1> QED
  BY <1>1, <1>2, PTL DEF Spec

(* No authority or log is ever listed twice, neither by an update of one   *)
(* that is listed nor by the cleaning of what earlier versions wrote.      *)
THEOREM TrustListedOnce == LegacySound => (Spec => []ListedOnce)
<1> SUFFICES ASSUME LegacySound PROVE Spec => []ListedOnce
  OBVIOUS
<1>1. ListInv => ListedOnce
  <2> SUFFICES ASSUME ListInv, NEW k \in Kind PROVE Listed(Clean(root[k]), now)
    BY DEF ListedOnce, Listed
  <2>1. root[k] \in Seq(Entry) /\ Listed(root[k], now)
    BY DEF ListInv, AllListed, TypeOK
  <2> QED
    BY <2>1, ListedClean
<1> QED
  BY <1>1, ListInvariant, PTL

(* No period of validity ends before it starts, over all rotations,        *)
(* updates and deletions.                                                  *)
THEOREM TrustPeriodsInOrder == LegacySound => (Spec => []PeriodsInOrder)
<1> SUFFICES ASSUME LegacySound PROVE Spec => []PeriodsInOrder
  OBVIOUS
<1>1. ListInv => PeriodsInOrder
  BY DEF ListInv, AllListed, Listed, Begun, PeriodsInOrder
<1> QED
  BY <1>1, ListInvariant, PTL

-----------------------------------------------------------------------------
(* Cleaning keeps an entry that holds no PEM text, in its own period.      *)
LEMMA CleanKeeps ==
  ASSUME NEW es \in Seq(Entry), NEW i \in DOMAIN es,
         es[i].chain \in Seq(Cert \ Corrupt), es[i].chain # <<>>
  PROVE  \E p \in DOMAIN Clean(es) : Clean(es)[p] = es[i]
<1>1. PICK at : CleansTo(es, at)
  BY CleanIs
<1>2. Genuine(es[i].chain) = es[i].chain
  BY GenuineStays
<1>3. PICK p \in DOMAIN Clean(es) : at[p] = i
  BY <1>1, <1>2 DEF CleansTo
<1>4. Clean(es)[p] = [es[i] EXCEPT !.chain = es[i].chain]
  BY <1>1, <1>2, <1>3 DEF CleansTo
<1>5. es[i] \in Entry
  OBVIOUS
<1> QED
  BY <1>4, <1>5 DEF Entry

(* An entry of the chain is open.                                          *)
Open(es, chain) == \E i \in DOMAIN es : es[i].chain = chain /\ es[i].valid.end = None

(* Cleaning leaves it open ...                                             *)
LEMMA OpenClean ==
  ASSUME NEW es \in Seq(Entry), NEW chain \in Chain, Open(es, chain)
  PROVE  Open(Clean(es), chain)
<1>1. PICK i \in DOMAIN es : es[i].chain = chain /\ es[i].valid.end = None
  BY DEF Open
<1>2. chain \in Seq(Cert \ Corrupt) /\ chain # <<>>
  BY TrustBundleAssumption
<1>3. PICK p \in DOMAIN Clean(es) : Clean(es)[p] = es[i]
  BY <1>1, <1>2, CleanKeeps
<1> QED
  BY <1>1, <1>3 DEF Open

(* ... and so does the deletion of another certificate.                    *)
LEMMA OpenWithout ==
  ASSUME NEW es \in Seq(Entry), NEW chain \in Chain, Open(es, chain), NEW c, c \notin Range(chain)
  PROVE  Open(Without(es, c), chain)
<1>1. PICK p \in DOMAIN Clean(es) : Clean(es)[p].chain = chain /\ Clean(es)[p].valid.end = None
  BY OpenClean DEF Open
<1>2. PICK at : DropsTo(es, c, at)
  BY WithoutIs
<1>3. PICK i \in DOMAIN Without(es, c) : at[i] = p
  BY <1>1, <1>2 DEF DropsTo
<1>4. Without(es, c)[i] = Clean(es)[p]
  BY <1>2, <1>3 DEF DropsTo
<1> QED
  BY <1>1, <1>4 DEF Open

(* What is set Active is open afterwards, and what is set Expired leaves   *)
(* open what is: an end is given to the last entry only by one with a      *)
(* start, and an Expired one has none.                                     *)
LEMMA OpenEntered ==
  ASSUME NEW es \in Seq(CleanEntry), NEW e \in CleanEntry
  PROVE  /\ e.valid.start # None /\ e.valid.end = None => Open(Entered(es, e), e.chain)
         /\ \A chain : e.valid.start = None /\ chain # e.chain /\ Open(es, chain)
                         => Open(Entered(es, e), chain)
<1>1. PICK at : EnteredFrom(es, e, at)
  BY EnteredIs
<1>2. ASSUME e.valid.start # None /\ e.valid.end = None PROVE Open(Entered(es, e), e.chain)
  BY <1>1, <1>2 DEF EnteredFrom, Open
<1>3. ASSUME NEW chain, e.valid.start = None, chain # e.chain, Open(es, chain)
      PROVE  Open(Entered(es, e), chain)
  <2>1. PICK i \in DOMAIN es : es[i].chain = chain /\ es[i].valid.end = None
    BY <1>3 DEF Open
  <2>2. i \in DOMAIN Entered(es, e) /\ i # at
    BY <1>1, <1>3, <2>1 DEF EnteredFrom
  <2>3. /\ Entered(es, e)[i].chain = chain
        /\ \/ Entered(es, e)[i].valid = es[i].valid
           \/ Entered(es, e)[i].valid = [start |-> es[i].valid.start, end |-> None]
    BY <1>1, <1>3, <2>1, <2>2 DEF EnteredFrom
  <2>4. Entered(es, e)[i].valid.end = None
    BY <2>1, <2>3
  <2> QED
    BY <2>2, <2>3, <2>4 DEF Open
<1> QED
  BY <1>2, <1>3

(* The newest chain of each kind has an open entry.                        *)
OpenInv == \A k \in Kind : newest[k] # None => Open(root[k], newest[k])

(* Every step leaves the newest open.                                      *)
LEMMA OpenStep == ASSUME TypeOK, OpenInv, [Next]_vars PROVE OpenInv'
<1>1. CASE Begin \/ Save \/ Tick \/ UNCHANGED vars
  BY <1>1 DEF Begin, Save, Tick, vars, bundle, history, OpenInv
<1>2. ASSUME NEW k \in Kind, NEW n \in Name, Delete(k, n) PROVE OpenInv'
  <2> DEFINE c == Head(target[n])
  <2>1. /\ root' = [root EXCEPT ![k] = Without(root[k], c)]
        /\ newest' = [newest EXCEPT ![k] = IF newest[k] # None /\ c \in Range(newest[k])
                                           THEN None ELSE newest[k]]
    BY <1>2 DEF Delete
  <2> HIDE DEF c
  <2>2. \A j \in Kind \ {k} : root'[j] = root[j] /\ newest'[j] = newest[j]
    BY <2>1 DEF TypeOK
  <2>3. /\ root'[k] = Without(root[k], c)
        /\ newest'[k] # None => newest'[k] = newest[k] /\ c \notin Range(newest[k])
    BY <2>1 DEF TypeOK
  <2>4. ASSUME newest'[k] # None PROVE Open(root'[k], newest'[k])
    <3>1. newest[k] \in Chain /\ root[k] \in Seq(Entry) /\ Open(root[k], newest[k])
      BY <2>3, <2>4 DEF TypeOK, OpenInv
    <3> QED
      BY <2>3, <2>4, <3>1, OpenWithout
  <2> QED
    BY <2>2, <2>4 DEF OpenInv
<1>3. ASSUME NEW k \in Kind, NEW n \in Name, NEW chain \in Chain, NEW uri \in Uri \cup {None},
             NEW status \in {"Active", "Expired"}, Set(k, n, chain, uri, status)
      PROVE  OpenInv'
  <2> DEFINE e == Item(chain, uri, status)
  <2>1. /\ root' = [root EXCEPT ![k] = Entered(Clean(root[k]), e)]
        /\ newest' = IF status = "Active" THEN [newest EXCEPT ![k] = chain]
                     ELSE IF newest[k] = chain THEN [newest EXCEPT ![k] = None] ELSE newest
    BY <1>3 DEF Set, Item
  <2>2. e \in CleanEntry /\ e.chain = chain /\ e.valid = ValidFrom(status)
    BY SetEntry
  <2>3. /\ now # None
        /\ status = "Active" => e.valid = [start |-> now, end |-> None]
        /\ status = "Expired" => e.valid = [start |-> None, end |-> now]
    BY <2>2, TrustBundleAssumption DEF ValidFrom, TypeOK
  <2> HIDE DEF e
  <2>4. \A j \in Kind \ {k} : root'[j] = root[j] /\ newest'[j] = newest[j]
    BY <2>1 DEF TypeOK
  <2>5. Clean(root[k]) \in Seq(CleanEntry) /\ root[k] \in Seq(Entry)
    BY CleanIs DEF TypeOK
  <2>6. root'[k] = Entered(Clean(root[k]), e)
    BY <2>1 DEF TypeOK
  <2>7. CASE status = "Active"
    <3>1. newest'[k] = chain /\ e.valid.start # None /\ e.valid.end = None
      BY <2>1, <2>3, <2>7 DEF TypeOK
    <3>2. Open(Entered(Clean(root[k]), e), e.chain)
      BY <2>2, <2>5, <3>1, OpenEntered
    <3> QED
      BY <2>2, <2>4, <2>6, <3>1, <3>2 DEF OpenInv
  <2>8. CASE status = "Expired"
    <3>1. e.valid.start = None /\ (newest'[k] # None => newest'[k] = newest[k] /\ newest[k] # chain)
      BY <2>1, <2>3, <2>8 DEF TypeOK
    <3>2. ASSUME newest'[k] # None PROVE Open(root'[k], newest'[k])
      <4>1. newest[k] \in Chain /\ Open(root[k], newest[k])
        BY <3>1, <3>2 DEF TypeOK, OpenInv
      <4>2. Open(Clean(root[k]), newest[k])
        BY <2>5, <4>1, OpenClean
      <4>3. Open(Entered(Clean(root[k]), e), newest[k])
        BY <2>2, <2>5, <3>1, <3>2, <4>2, OpenEntered
      <4> QED
        BY <2>6, <3>1, <3>2, <4>3
    <3> QED
      BY <2>4, <3>2 DEF OpenInv
  <2> QED
    BY <2>7, <2>8
<1>4. CASE \E k \in Kind, n \in Name : Delete(k, n)
  BY <1>2, <1>4
<1>5. CASE \E k \in Kind, n \in Name, chain \in Chain, uri \in Uri \cup {None},
              status \in {"Active", "Expired"} : Set(k, n, chain, uri, status)
  BY <1>3, <1>5
<1> QED
  BY <1>1, <1>4, <1>5 DEF Next

(* What was set Active last is open until it is deleted or set Expired,    *)
(* whatever the repository started with.                                   *)
THEOREM TrustNewestStaysOpen == Spec => []NewestStaysOpen
<1>1. Init => TypeOK /\ OpenInv
  BY InitTypes DEF Init, OpenInv
<1>2. TypeOK /\ OpenInv /\ [Next]_vars => (TypeOK /\ OpenInv)'
  BY TypeStep, OpenStep
<1>3. OpenInv => NewestStaysOpen
  BY DEF OpenInv, Open, NewestStaysOpen
<1> QED
  BY <1>1, <1>2, <1>3, PTL DEF Spec

-----------------------------------------------------------------------------
(* How the period of an entry may change: it is begun anew, or nothing is  *)
(* taken from it that lies before now.                                     *)
Kept(old, new) ==
  \/ new = [start |-> now, end |-> None]
  \/ /\ new.start = old.start
     /\ \A t \in 0 .. now - 1 : Usable(old, t) => Usable(new, t)

AllKept(es, fs) ==
  \A i \in DOMAIN es, j \in DOMAIN fs : es[i].chain = fs[j].chain => Kept(es[i].valid, fs[j].valid)

(* A deletion keeps the others as they are.                                *)
LEMMA KeptWithout ==
  ASSUME NEW es \in Seq(Entry), NEW c, NEW t, Listed(es, t) PROVE AllKept(es, Without(es, c))
<1> SUFFICES ASSUME NEW i \in DOMAIN es, NEW j \in DOMAIN Without(es, c),
                    es[i].chain = Without(es, c)[j].chain
             PROVE  es[i].valid = Without(es, c)[j].valid
  BY DEF AllKept, Kept
<1>1. Without(es, c) \in Seq(CleanEntry)
  BY WithoutIs
<1>2. Without(es, c)[j] \in CleanEntry
  BY <1>1
<1>3. PICK p \in DOMAIN Clean(es) : Clean(es)[p] = es[i]
  BY <1>2, CleanKeeps DEF CleanEntry
<1>4. PICK at : DropsTo(es, c, at)
  BY WithoutIs
<1>5. at[j] \in DOMAIN Clean(es) /\ Without(es, c)[j] = Clean(es)[at[j]]
  BY <1>4 DEF DropsTo
<1>6. Listed(Clean(es), t)
  BY ListedClean
<1>7. at[j] = p
  BY <1>3, <1>5, <1>6 DEF Listed
<1> QED
  BY <1>3, <1>5, <1>7

(* So does an entry that is set, but for its own chain and for the last    *)
(* one, which it may end now.                                              *)
LEMMA KeptEntered ==
  ASSUME NEW es \in Seq(Entry), NEW e \in CleanEntry, NEW status, now \in Time,
         e.valid = ValidFrom(status), Listed(es, now)
  PROVE  AllKept(es, Entered(Clean(es), e))
<1> DEFINE cs == Clean(es)
           fs == Entered(cs, e)
<1>1. cs \in Seq(CleanEntry) /\ Listed(cs, now)
  BY CleanIs, ListedClean
<1> HIDE DEF cs
<1>2. PICK at : EnteredFrom(cs, e, at)
  BY <1>1, EnteredIs
<1>3. /\ now \in Int /\ now # None
      /\ \/ e.valid = [start |-> now, end |-> None]
         \/ e.valid = [start |-> None, end |-> now]
  BY TrustBundleAssumption DEF Time, ValidFrom
<1> SUFFICES ASSUME NEW i \in DOMAIN es, NEW j \in DOMAIN fs, es[i].chain = fs[j].chain
             PROVE  Kept(es[i].valid, fs[j].valid)
  BY DEF AllKept, cs
<1>4. fs[j] \in CleanEntry
  <2>1. fs \in Seq(CleanEntry)
    BY <1>2 DEF EnteredFrom
  <2> QED
    BY <2>1
<1>5. PICK p \in DOMAIN cs : cs[p] = es[i]
  BY <1>4, CleanKeeps DEF CleanEntry, cs
<1>6. cs[p].chain = fs[j].chain /\ cs[p].valid \in Validity
  <2>1. cs[p] \in CleanEntry
    BY <1>1
  <2> QED
    BY <1>5, <2>1 DEF CleanEntry
<1>7. \A t \in 0 .. now - 1 : t \in Int /\ t < now
  BY <1>3
<1>8. CASE j = at
  <2>1. fs[j].chain = e.chain
    BY <1>2, <1>8 DEF EnteredFrom
  <2>2. at \in DOMAIN cs /\ cs[at].chain = e.chain
    BY <1>2, <1>6, <2>1 DEF EnteredFrom
  <2>3. at = p
    BY <1>1, <1>6, <2>1, <2>2 DEF Listed
  <2>4. CASE e.valid = [start |-> now, end |-> None]
    <3>1. fs[j].valid = e.valid
      BY <1>2, <1>3, <1>8, <2>4 DEF EnteredFrom
    <3> QED
      BY <2>4, <3>1 DEF Kept
  <2>5. CASE e.valid = [start |-> None, end |-> now]
    <3>1. fs[j].valid = [start |-> cs[p].valid.start, end |-> now]
      BY <1>2, <1>8, <2>2, <2>3, <2>5 DEF EnteredFrom
    <3> QED
      BY <1>3, <1>5, <1>7, <3>1 DEF Kept, Usable
  <2> QED
    BY <1>3, <2>4, <2>5
<1>9. CASE j # at
  <2>1. /\ j \in DOMAIN cs /\ fs[j].chain = cs[j].chain
        /\ \/ fs[j].valid = cs[j].valid
           \/ /\ cs[j].valid.end = None
              /\ fs[j].valid = [start |-> cs[j].valid.start, end |-> e.valid.start]
    BY <1>2, <1>9 DEF EnteredFrom
  <2>2. j = p
    BY <1>1, <1>6, <2>1 DEF Listed
  <2>3. CASE fs[j].valid = cs[j].valid
    BY <1>5, <2>2, <2>3 DEF Kept
  <2>4. CASE fs[j].valid = [start |-> cs[j].valid.start, end |-> e.valid.start]
    BY <1>3, <1>5, <1>7, <2>2, <2>4 DEF Kept, Usable
  <2> QED
    BY <2>1, <2>3, <2>4
<1> QED
  BY <1>8, <1>9

(* No step withdraws trust in what was signed before now by an authority   *)
(* or log that stays listed, nor does it move its start.                   *)
THEOREM TrustInThePastStays == LegacySound => (Spec => PastStaysTrusted)
<1> SUFFICES ASSUME LegacySound PROVE Spec => PastStaysTrusted
  OBVIOUS
<1>1. ASSUME ListInv, [Next]_vars, NEW k \in Kind PROVE AllKept(root[k], root'[k])
  <2>1. TypeOK /\ root[k] \in Seq(Entry) /\ Listed(root[k], now) /\ now \in Time
    BY <1>1 DEF ListInv, AllListed, TypeOK
  <2>0. TypeOK
    BY <2>1
  <2>2. CASE root'[k] = root[k]
    BY <2>1, <2>2 DEF AllKept, Kept, Listed
  <2>3. ASSUME NEW c, DropsIn(k, c) PROVE AllKept(root[k], root'[k])
    BY <2>1, <2>3, KeptWithout DEF DropsIn
  <2>4. ASSUME NEW chain \in Chain, NEW uri \in Uri \cup {None}, NEW status \in {"Active", "Expired"},
               EntersIn(k, Item(chain, uri, status))
        PROVE  AllKept(root[k], root'[k])
    <3> DEFINE e == Item(chain, uri, status)
    <3>1. e \in CleanEntry /\ e.valid = ValidFrom(status)
      BY <2>0, SetEntry
    <3>2. root'[k] = Entered(Clean(root[k]), e)
      BY <2>4 DEF EntersIn
    <3> HIDE DEF e
    <3> QED
      BY <2>1, <3>1, <3>2, KeptEntered
  <2> QED
    BY <1>1, <2>1, <2>2, <2>3, <2>4, StepKinds
<1> DEFINE Step == \A k \in Kind : \A i \in DOMAIN root[k], j \in DOMAIN root'[k] :
       LET old == root[k][i].valid
           new == root'[k][j].valid
       IN root[k][i].chain = root'[k][j].chain =>
            \/ new = [start |-> now, end |-> None]
            \/ /\ new.start = old.start
               /\ \A t \in 0 .. now - 1 : Usable(old, t) => Usable(new, t)
<1>2. ListInv /\ [Next]_vars => [Step]_vars
  <2> SUFFICES ASSUME ListInv, [Next]_vars PROVE Step
    OBVIOUS
  <2>1. \A k \in Kind : AllKept(root[k], root'[k])
    BY <1>1
  <2> HIDE DEF ListInv
  <2> QED
    BY <2>1 DEF AllKept, Kept
<1>3. PastStaysTrusted <=> [][Step]_vars
  BY DEF PastStaysTrusted
<1> HIDE DEF Step
<1> QED
  BY <1>2, <1>3, ListInvariant, PTL DEF Spec

-----------------------------------------------------------------------------
(* No two chains in use share a certificate: those of the target files,    *)
(* and those listed by what a repository starts with.                      *)
Known == Chain \cup UNION {{Genuine(es[i].chain) : i \in DOMAIN es} : es \in Legacy}
Unshared == \A x, y \in Known : Range(x) \cap Range(y) # {} => x = y

AllKnown(es) == \A i \in DOMAIN es : Genuine(es[i].chain) \in Known

(* Every list holds known chains only.                                     *)
KnownInv == \A k \in Kind : AllKnown(root[k])

(* What is taken from a list, and what is entered, is known.               *)
LEMMA KnownClean ==
  ASSUME NEW es \in Seq(Entry), AllKnown(es)
  PROVE  AllKnown(Clean(es)) /\ \A c : AllKnown(Without(es, c))
<1>1. PICK at : CleansTo(es, at)
  BY CleanIs
<1>2. ASSUME NEW i \in DOMAIN Clean(es) PROVE Genuine(Clean(es)[i].chain) \in Known
  <2>1. at[i] \in DOMAIN es /\ Clean(es)[i] = [es[at[i]] EXCEPT !.chain = Genuine(es[at[i]].chain)]
    BY <1>1 DEF CleansTo
  <2>2. Clean(es)[i] \in CleanEntry /\ es[at[i]] \in Entry
    <3>1. Clean(es) \in Seq(CleanEntry)
      BY CleanIs
    <3> QED
      BY <2>1, <3>1
  <2>3. Clean(es)[i].chain = Genuine(es[at[i]].chain)
    BY <2>1, <2>2 DEF Entry
  <2>4. Genuine(Clean(es)[i].chain) = Clean(es)[i].chain
    BY <2>2, GenuineStays DEF CleanEntry
  <2> QED
    BY <2>1, <2>3, <2>4 DEF AllKnown
<1>3. ASSUME NEW c PROVE AllKnown(Without(es, c))
  <2>1. PICK to : DropsTo(es, c, to)
    BY WithoutIs
  <2>2. \A i \in DOMAIN Without(es, c) :
          to[i] \in DOMAIN Clean(es) /\ Without(es, c)[i] = Clean(es)[to[i]]
    BY <2>1 DEF DropsTo
  <2> QED
    BY <1>2, <2>2 DEF AllKnown
<1> QED
  BY <1>2, <1>3 DEF AllKnown

(* Every step keeps the lists to known chains.                             *)
LEMMA KnownStep == ASSUME TypeOK, KnownInv, [Next]_vars PROVE KnownInv'
<1> SUFFICES ASSUME NEW k \in Kind PROVE AllKnown(root'[k])
  BY DEF KnownInv
<1>1. root[k] \in Seq(Entry) /\ AllKnown(root[k])
  BY DEF TypeOK, KnownInv
<1>2. CASE root'[k] = root[k]
  BY <1>1, <1>2
<1>3. ASSUME NEW c, DropsIn(k, c) PROVE AllKnown(root'[k])
  BY <1>1, <1>3, KnownClean DEF DropsIn
<1>4. ASSUME NEW chain \in Chain, NEW uri \in Uri \cup {None}, NEW status \in {"Active", "Expired"},
             EntersIn(k, Item(chain, uri, status))
      PROVE  AllKnown(root'[k])
  <2> DEFINE e == Item(chain, uri, status)
             cs == Clean(root[k])
  <2>1. /\ e \in CleanEntry /\ e.chain = chain
        /\ chain \in Seq(Cert \ Corrupt)
    BY SetEntry
  <2>2. root'[k] = Entered(cs, e)
    BY <1>4 DEF EntersIn
  <2>3. cs \in Seq(CleanEntry) /\ AllKnown(cs)
    BY <1>1, CleanIs, KnownClean
  <2> HIDE DEF e, cs
  <2>4. PICK at : EnteredFrom(cs, e, at)
    BY <2>1, <2>3, EnteredIs
  <2>5. ASSUME NEW i \in DOMAIN Entered(cs, e) PROVE Genuine(Entered(cs, e)[i].chain) \in Known
    <3>1. CASE i = at
      <4>1. Entered(cs, e)[i].chain = chain
        BY <2>1, <2>4, <3>1 DEF EnteredFrom
      <4>2. Genuine(chain) = chain
        BY <2>1, GenuineStays
      <4> QED
        BY <4>1, <4>2 DEF Known
    <3>2. CASE i # at
      <4>1. i \in DOMAIN cs /\ Entered(cs, e)[i].chain = cs[i].chain
        BY <2>4, <3>2 DEF EnteredFrom
      <4> QED
        BY <2>3, <4>1 DEF AllKnown
    <3> QED
      BY <3>1, <3>2
  <2> QED
    BY <2>2, <2>5 DEF AllKnown
<1> QED
  BY <1>2, <1>3, <1>4, StepKinds

(* A certificate of a target file is in one entry of a list at most.       *)
LEMMA OneHolder ==
  ASSUME Unshared, NEW es \in Seq(Entry), NEW t, Listed(es, t), AllKnown(es),
         NEW c \in Cert \ Corrupt, NEW i \in DOMAIN es, NEW j \in DOMAIN es,
         c \in Range(es[i].chain), c \in Range(es[j].chain)
  PROVE  i = j
<1>1. es[i] \in Entry /\ es[j] \in Entry
  OBVIOUS
<1>2. es[i].chain \in Seq(Cert) /\ es[j].chain \in Seq(Cert)
  BY <1>1 DEF Entry
<1>3. /\ c \in Range(Genuine(es[i].chain)) /\ c \in Range(Genuine(es[j].chain))
      /\ Genuine(es[i].chain) \in Seq(Cert \ Corrupt)
  BY <1>2, GenuineIs
<1>4. Genuine(es[i].chain) # <<>>
  BY <1>3 DEF Range
<1>5. Genuine(es[i].chain) \in Known /\ Genuine(es[j].chain) \in Known
  BY DEF AllKnown
<1>6. Genuine(es[i].chain) = Genuine(es[j].chain)
  BY <1>3, <1>5 DEF Unshared
<1> QED
  BY <1>4, <1>6 DEF Listed

(* A deletion leaves each URI to an entry but the one it refreshes, unless *)
(* cleaning took it.                                                       *)
LEMMA UrisLeft ==
  ASSUME Unshared, NEW es \in Seq(Entry), NEW t, Listed(es, t), AllKnown(es),
         NEW c \in Cert \ Corrupt, NEW u \in UrisOf(Clean(es)), u # UriFor(es, c)
  PROVE  u \in UrisOf(Without(es, c))
<1>1. PICK p \in DOMAIN Clean(es) : Clean(es)[p].uri = u
  BY DEF UrisOf
<1>2. u # None
  BY DEF UrisOf
<1>3. PICK at : CleansTo(es, at)
  BY CleanIs
<1>4. /\ at[p] \in DOMAIN es /\ es[at[p]] \in Entry
      /\ Clean(es)[p] = [es[at[p]] EXCEPT !.chain = Genuine(es[at[p]].chain)]
  BY <1>3 DEF CleansTo
<1>5. /\ Clean(es)[p].chain = Genuine(es[at[p]].chain) /\ es[at[p]].uri = u
      /\ es[at[p]].chain \in Seq(Cert)
  BY <1>1, <1>4 DEF Entry
<1>6. ASSUME c \in Range(Clean(es)[p].chain) PROVE FALSE
  <2>1. c \in Range(es[at[p]].chain)
    BY <1>5, <1>6, GenuineIs
  <2>2. PICK i \in DOMAIN es : c \in Range(es[i].chain) /\ UriFor(es, c) = es[i].uri
    BY <1>2, <1>4, <1>5, <2>1, UriForIs
  <2>3. i = at[p]
    BY <1>4, <2>1, <2>2, OneHolder
  <2> QED
    BY <1>5, <2>2, <2>3
<1>7. PICK to : DropsTo(es, c, to)
  BY WithoutIs
<1>8. PICK i \in DOMAIN Without(es, c) : to[i] = p
  BY <1>6, <1>7 DEF DropsTo
<1>9. Without(es, c)[i].uri = u
  BY <1>1, <1>7, <1>8 DEF DropsTo
<1> QED
  BY <1>2, <1>9 DEF UrisOf

(* Each service has an entry with its URL, within a run too.               *)
BackedInv ==
  \A k \in Kind : \A s \in services[k] : s.url \in {None} \cup left[k] \cup UrisOf(root[k])

SharedInv == ListInv /\ KnownInv /\ BackedInv

(* After a deletion: the URI that may be left without an entry is the one  *)
(* refreshed.                                                              *)
LEMMA BackedDelete ==
  ASSUME Unshared, SharedInv, NEW k \in Kind, NEW n \in Name, Delete(k, n),
         \A m \in Name : target[m] # None => Head(target[m]) \in Cert \ Corrupt
  PROVE  BackedInv'
<1> DEFINE c == Head(target[n])
           uri == UriFor(root[k], c)
           es == Without(root[k], c)
<1>1. /\ TypeOK /\ root[k] \in Seq(Entry) /\ Listed(root[k], now) /\ AllKnown(root[k])
      /\ services[k] \in SUBSET Service /\ Distinct(services[k])
  BY DEF SharedInv, ListInv, AllListed, KnownInv, TypeOK, Distinct
<1>2. c \in Cert \ Corrupt
  BY DEF Delete
<1>3. /\ root' = [root EXCEPT ![k] = es]
      /\ services' = IF uri # None /\ k # "Ctlog"
                     THEN [services EXCEPT ![k] = Refreshed(services[k], es, uri)] ELSE services
      /\ left' = [left EXCEPT ![k] = Lost(k, Clean(root[k]))]
  BY DEF Delete
<1>4. /\ \A i \in DOMAIN root[k] : root[k][i].uri \in Uri \cup {None}
      /\ es \in Seq(CleanEntry)
  <2>1. \A i \in DOMAIN root[k] : root[k][i] \in Entry
    BY <1>1
  <2> QED
    BY <1>1, <2>1, WithoutIs DEF Entry
<1> HIDE DEF c, uri, es
<1>5. uri \in Uri \cup {None}
  BY <1>1, <1>4, UriForIs DEF uri
<1>6. \A j \in Kind \ {k} : root'[j] = root[j] /\ services'[j] = services[j] /\ left'[j] = left[j]
  BY <1>1, <1>3 DEF TypeOK
<1>7. ASSUME NEW u \in {None} \cup left[k] \cup UrisOf(root[k]), u # uri \/ uri = None
      PROVE  u \in {None} \cup left'[k] \cup UrisOf(root'[k])
  <2>1. left'[k] = Lost(k, Clean(root[k])) /\ root'[k] = es
    BY <1>1, <1>3 DEF TypeOK
  <2>2. CASE u \in {None} \cup left[k] \/ u \notin UrisOf(Clean(root[k]))
    BY <1>7, <2>1, <2>2 DEF Lost
  <2>3. CASE u # None /\ u \in UrisOf(Clean(root[k]))
    BY <1>1, <1>2, <1>7, <2>1, <2>3, UrisLeft DEF uri, es
  <2> QED
    BY <2>2, <2>3
<1>8. ASSUME NEW s \in services'[k] PROVE s.url \in {None} \cup left'[k] \cup UrisOf(root'[k])
  <2>1. CASE uri # None /\ k # "Ctlog"
    <3>1. s \in Refreshed(services[k], es, uri)
      BY <1>1, <1>3, <1>8, <2>1 DEF TypeOK
    <3>2. \/ s \in services[k] /\ s.url # uri
          \/ s.url = uri /\ \E i \in DOMAIN es : es[i].uri = uri
      BY <1>1, <1>4, <1>5, <2>1, <3>1, RefreshedIs
    <3>3. CASE s \in services[k] /\ s.url # uri
      BY <1>7, <3>3 DEF SharedInv, BackedInv
    <3>4. CASE s.url = uri /\ \E i \in DOMAIN es : es[i].uri = uri
      <4>1. root'[k] = es
        BY <1>1, <1>3 DEF TypeOK
      <4> QED
        BY <2>1, <3>4, <4>1 DEF UrisOf
    <3> QED
      BY <3>2, <3>3, <3>4
  <2>2. CASE ~(uri # None /\ k # "Ctlog")
    <3>1. s \in services[k]
      BY <1>3, <1>8, <2>2
    <3>2. k # "Ctlog"
      BY <1>1, <3>1 DEF TypeOK
    <3> QED
      BY <1>7, <2>2, <3>1, <3>2 DEF SharedInv, BackedInv
  <2> QED
    BY <2>1, <2>2
<1> QED
  BY <1>6, <1>8 DEF SharedInv, BackedInv

(* After a set: what is offered anew has the URI of the entry.             *)
LEMMA BackedSet ==
  ASSUME SharedInv, NEW k \in Kind, NEW n \in Name, NEW chain \in Chain,
         NEW uri \in Uri \cup {None}, NEW status \in {"Active", "Expired"},
         Set(k, n, chain, uri, status)
  PROVE  BackedInv'
<1> DEFINE e == Item(chain, uri, status)
           cs == Clean(root[k])
           entered == Entered(cs, e)
           s == [url |-> uri, valid |-> entered[Min(Position(entered, chain))].valid, of |-> chain]
           followed == Following(k, cs, chain, e.valid.start)
<1>1. TypeOK /\ root[k] \in Seq(Entry) /\ services[k] \subseteq Service /\ Distinct(services[k])
  BY DEF SharedInv, ListInv, TypeOK, Distinct
<1>2. TypeOK
  BY <1>1
<1>3. e \in CleanEntry /\ e.uri = uri
  BY <1>2, SetEntry
<1>4. cs \in Seq(CleanEntry)
  BY <1>1, CleanIs
<1>5. /\ root' = [root EXCEPT ![k] = entered]
      /\ services' = IF k = "Ctlog" THEN services
                     ELSE [services EXCEPT ![k] = Offer(followed, s)]
      /\ left' = [left EXCEPT ![k] = Lost(k, entered)]
  BY DEF Set, Item
<1>6. s.url = uri /\ e.valid.start \in TimeOrNone
  BY <1>3 DEF CleanEntry, Validity
<1> HIDE DEF e, cs, entered, s
<1>7. \A o \in followed : \E p \in services[k] : p.url = o.url
  BY <1>1, <1>6, FollowingIs
<1> HIDE DEF followed
<1>8. \A j \in Kind \ {k} : root'[j] = root[j] /\ services'[j] = services[j] /\ left'[j] = left[j]
  BY <1>2, <1>5 DEF TypeOK
<1>9. root'[k] = entered /\ left'[k] = Lost(k, entered)
  BY <1>2, <1>5 DEF TypeOK
<1>10. \A o \in services[k] : o.url \in {None} \cup left'[k] \cup UrisOf(root'[k])
  BY <1>9 DEF Lost, SharedInv, BackedInv
<1>11. uri \in {None} \cup UrisOf(root'[k])
  <2>1. PICK at : EnteredFrom(cs, e, at)
    BY <1>3, <1>4, EnteredIs
  <2>2. at \in DOMAIN entered /\ entered[at].uri = uri
    BY <1>3, <2>1 DEF EnteredFrom, entered
  <2> QED
    BY <1>9, <2>2 DEF UrisOf
<1>12. \A o \in services'[k] : o \in services[k] \/ o = s \/ o \in followed
  BY <1>2, <1>5 DEF TypeOK, Offer
<1>13. \A o \in services'[k] : o.url \in {None} \cup left'[k] \cup UrisOf(root'[k])
  BY <1>6, <1>7, <1>10, <1>11, <1>12
<1> QED
  BY <1>8, <1>13 DEF SharedInv, BackedInv

(* Every step leaves each service its entry.                               *)
LEMMA SharedStep == ASSUME Unshared, SharedInv, [Next]_vars PROVE SharedInv'
<1>1. ListInv' /\ KnownInv'
  BY ListStep, KnownStep DEF SharedInv, ListInv
<1>2. TypeOK
  BY DEF SharedInv, ListInv
<1>3. CASE Begin \/ Tick \/ UNCHANGED vars
  BY <1>1, <1>3 DEF Begin, Tick, vars, bundle, history, SharedInv, BackedInv
<1>4. CASE Save
  <2>1. UNCHANGED <<root, left>> /\ \A k \in Kind : \A s \in services'[k] : \E o \in services[k] : o.url = s.url
    BY <1>2, <1>4, SaveTypes DEF Save, history
  <2>2. BackedInv'
    BY <2>1 DEF SharedInv, BackedInv
  <2> QED
    BY <1>1, <2>2 DEF SharedInv
<1>5. ASSUME NEW m \in Name, target[m] # None PROVE Head(target[m]) \in Cert \ Corrupt
  <2>1. target[m] \in Seq(Cert \ Corrupt) /\ target[m] # <<>>
    BY <1>2, <1>5, TrustBundleAssumption DEF TypeOK
  <2> QED
    BY <2>1
<1>6. CASE \E k \in Kind, n \in Name : Delete(k, n)
  BY <1>1, <1>5, <1>6, BackedDelete DEF SharedInv
<1>7. CASE \E k \in Kind, n \in Name, chain \in Chain, uri \in Uri \cup {None},
              status \in {"Active", "Expired"} : Set(k, n, chain, uri, status)
  BY <1>1, <1>7, BackedSet DEF SharedInv
<1> QED
  BY <1>3, <1>4, <1>6, <1>7 DEF Next

(* A service that clients may sign with has an entry with its URL, when no *)
(* two chains share a certificate: a deletion then concerns one entry, and *)
(* the URI it refreshes is the only one that may lose its last entry.      *)
THEOREM TrustServicesBacked == LegacySound /\ Unshared => (Spec => []ServicesBacked)
<1> SUFFICES ASSUME LegacySound, Unshared PROVE Spec => []ServicesBacked
  OBVIOUS
<1>1. Init => SharedInv
  <2> SUFFICES ASSUME Init PROVE SharedInv
    OBVIOUS
  <2>1. ListInv
    BY ListInit
  <2>2. KnownInv
    BY DEF Init, KnownInv, AllKnown, Known
  <2>3. BackedInv
    BY InitTypes DEF BackedInv
  <2> QED
    BY <2>1, <2>2, <2>3 DEF SharedInv
<1>2. SharedInv /\ [Next]_vars => SharedInv'
  BY SharedStep
<1>3. SharedInv => ServicesBacked
  BY DEF SharedInv, BackedInv, ServicesBacked
<1> QED
  BY <1>1, <1>2, <1>3, PTL DEF Spec
=============================================================================
