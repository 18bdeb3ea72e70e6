--------------------------- MODULE ListingProofs ---------------------------
(***************************************************************************)
(* What a walk through a list misses and repeats, for lists of every size, *)
(* every limit, and any number of rows inserted and removed meanwhile.     *)
(***************************************************************************)
EXTENDS Listing, FiniteSetTheorems, TLAPS

\* Of the rows in D, those gone from the list or before position n of it.
Owed(D, list, n) == {x \in D : x \notin list \/ Index(x, list) < n}

\* Of the rows in S, those at position n of the list or after it.
Ahead(S, list, n) == {x \in S \cap list : n <= Index(x, list)}

\* A request is asked for again from the same position if it fails.
BeforePage ==
  walk.pc \in {"page", "total", "reply"} =>
    /\ Cardinality(Owed(due \ seen, Listed, walk.params.offset)) <= removed
    /\ repeated + Cardinality(Ahead(seen, Listed, walk.params.offset)) <= inserted

\* Otherwise the walk goes on from where the page ends.
WithPage ==
  LET got == seen \cup walk.page
      end == walk.params.offset + walk.params.limit
  IN
  walk.pc \in {"total", "reply"} =>
    /\ Cardinality(Owed(due \ got, Listed, end)) <= removed
    /\ repeated + Cardinality(walk.page \cap seen) + Cardinality(Ahead(got, Listed, end))
         <= inserted

\* Once the total is known that ends the walk, changes can only be too late.
AtEnd ==
  /\ walk.pc = "reply" /\ walk.total <= walk.params.offset + walk.params.limit =>
       Cardinality(due \ (seen \cup walk.page)) <= removed
  /\ walk.pc = "over" => Cardinality(due \ seen) <= removed

Counts ==
  /\ repeated <= inserted
  /\ walk.pc = "idle" => seen = {} /\ repeated = 0

IInv == TypeOK /\ BeforePage /\ WithPage /\ AtEnd /\ Counts

-----------------------------------------------------------------------------
\* A set of rows is finite, and so is each of its subsets, which has no more rows.
LEMMA RowsFinite ==
  ASSUME NEW S \in SUBSET Ranks
  PROVE  /\ IsFiniteSet(S) /\ Cardinality(S) \in Nat
         /\ \A T \in SUBSET S : Cardinality(T) \in Nat /\ Cardinality(T) <= Cardinality(S)
<1>1. IsFiniteSet(S)
  BY ListingAssumption, FS_Subset
<1> QED
  BY <1>1, FS_Subset, FS_CardinalityType

\* One element makes a set larger by one at most.
LEMMA AddedRow ==
  ASSUME NEW S \in SUBSET Ranks, NEW T \in SUBSET Ranks, NEW x, T \subseteq S \cup {x}
  PROVE  Cardinality(T) <= Cardinality(S) + 1
<1>1. IsFiniteSet(S) /\ Cardinality(S) \in Nat /\ IsFiniteSet(T) /\ Cardinality(T) \in Nat
  BY RowsFinite
<1>2. /\ IsFiniteSet(S \cup {x})
      /\ Cardinality(S \cup {x}) = IF x \in S THEN Cardinality(S) ELSE Cardinality(S) + 1
  BY Zenon, <1>1, FS_AddElement
<1>3. Cardinality(T) <= Cardinality(S \cup {x})
  BY <1>2, FS_Subset
<1> QED
  BY <1>1, <1>2, <1>3

\* Two sets without a common row have as many rows as their union.
LEMMA DisjointRows ==
  ASSUME NEW S \in SUBSET Ranks, NEW T \in SUBSET Ranks, S \cap T = {}
  PROVE  Cardinality(S) + Cardinality(T) = Cardinality(S \cup T)
<1>1. /\ IsFiniteSet(S) /\ IsFiniteSet(T) /\ IsFiniteSet(S \cap T)
      /\ Cardinality(S) \in Nat /\ Cardinality(T) \in Nat
  BY RowsFinite
<1>2. Cardinality(S \cup T) = Cardinality(S) + Cardinality(T) - Cardinality(S \cap T)
  BY <1>1, FS_Union
<1>3. Cardinality(S \cap T) = 0
  BY FS_EmptySet
<1> QED
  BY <1>1, <1>2, <1>3

-----------------------------------------------------------------------------
\* Positions are numbers, below the size of the list for its own rows.
LEMMA IndexBounded ==
  ASSUME NEW list \in SUBSET Ranks, NEW x \in Ranks
  PROVE  Index(x, list) \in Nat /\ (x \in list => Index(x, list) < Cardinality(list))
<1> DEFINE B == {y \in list : y < x}
<1>1. B \in SUBSET list /\ B \in SUBSET Ranks /\ Index(x, list) = Cardinality(B)
  BY DEF Index
<1>2. Cardinality(B) \in Nat
  BY <1>1, RowsFinite
<1>3. ASSUME x \in list PROVE Cardinality(B) < Cardinality(list)
  <2>1. x \notin B
    BY ListingAssumption
  <2>2. IsFiniteSet(B) /\ IsFiniteSet(B \cup {x})
        /\ Cardinality(B \cup {x}) = IF x \in B THEN Cardinality(B) ELSE Cardinality(B) + 1
    <3>1. IsFiniteSet(B)
      BY <1>1, RowsFinite
    <3> HIDE DEF B
    <3> QED
      BY Zenon, <3>1, FS_AddElement
  <2>3. B \cup {x} \in SUBSET list
    BY <1>1, <1>3
  <2>4. Cardinality(B \cup {x}) <= Cardinality(list) /\ Cardinality(list) \in Nat
    BY <2>3, RowsFinite
  <2> HIDE DEF B
  <2> QED
    BY <1>2, <2>1, <2>2, <2>4
<1> HIDE DEF B
<1> QED
  BY <1>1, <1>2, <1>3

\* A row is at a later position than those before it.
LEMMA IndexOrdered ==
  ASSUME NEW list \in SUBSET Ranks, NEW x \in list, NEW z \in list, x < z
  PROVE  Index(x, list) < Index(z, list)
<1> DEFINE B == {y \in list : y < z}
<1>1. B \in SUBSET Ranks /\ x \in B
  OBVIOUS
<1>2. {y \in B : y < x} = {y \in list : y < x}
  <2>1. ASSUME NEW y \in list, y < x PROVE y < z
    <3>1. x \in Int /\ y \in Int /\ z \in Int
      BY ListingAssumption
    <3> QED
      BY <2>1, <3>1
  <2> QED
    BY <2>1
<1>3. Index(x, B) < Cardinality(B)
  BY <1>1, IndexBounded
<1> QED
  BY <1>2, <1>3 DEF Index

\* A larger list puts no row at an earlier position.
LEMMA IndexGrows ==
  ASSUME NEW list \in SUBSET Ranks, NEW y \in Ranks, NEW x \in Ranks
  PROVE  /\ Index(x, list) <= Index(x, list \cup {y})
         /\ Index(x, list \cup {y}) <= Index(x, list) + 1
         /\ ~(y < x) => Index(x, list \cup {y}) = Index(x, list)
<1> DEFINE B == {z \in list : z < x}
           C == {z \in list \cup {y} : z < x}
<1>1. B \in SUBSET Ranks /\ C \in SUBSET Ranks /\ B \in SUBSET C /\ C \subseteq B \cup {y}
  OBVIOUS
<1>2. Cardinality(B) <= Cardinality(C) /\ Cardinality(C) <= Cardinality(B) + 1
  <2> HIDE DEF B, C
  <2> QED
    BY <1>1, RowsFinite, AddedRow
<1>3. ~(y < x) => C = B
  OBVIOUS
<1> QED
  BY <1>2, <1>3 DEF Index

-----------------------------------------------------------------------------
\* An insertion adds nothing to what is owed: a row that comes back was owed.
LEMMA OwedInsert ==
  ASSUME NEW D \in SUBSET Ranks, NEW list \in SUBSET Ranks, NEW y \in Ranks \ list,
         NEW n \in Nat
  PROVE  Cardinality(Owed(D, list \cup {y}, n)) <= Cardinality(Owed(D, list, n))
<1>1. Owed(D, list \cup {y}, n) \in SUBSET Owed(D, list, n)
  <2> SUFFICES ASSUME NEW x \in Owed(D, list \cup {y}, n), x \in list
               PROVE  Index(x, list) < n
    BY DEF Owed
  <2>1. Index(x, list) <= Index(x, list \cup {y}) /\ Index(x, list \cup {y}) < n
    BY IndexGrows DEF Owed
  <2>2. Index(x, list) \in Nat /\ Index(x, list \cup {y}) \in Nat
    BY IndexBounded
  <2> QED
    BY <2>1, <2>2
<1>2. Owed(D, list, n) \in SUBSET Ranks
  BY DEF Owed
<1> QED
  BY <1>1, <1>2, RowsFinite

\* A removal adds one row at most: itself, or the one it lets move before n.
LEMMA OwedRemove ==
  ASSUME NEW D \in SUBSET Ranks, NEW list \in SUBSET Ranks, NEW y \in list,
         NEW n \in Nat
  PROVE  Cardinality(Owed(D, list \ {y}, n)) <= Cardinality(Owed(D, list, n)) + 1
<1> DEFINE rest == list \ {y}
<1>0. rest \in SUBSET Ranks /\ rest \cup {y} = list /\ y \in Ranks
  OBVIOUS
<1>1. ASSUME NEW x \in rest
      PROVE  /\ Index(x, list) \in Nat /\ Index(x, rest) \in Nat
             /\ Index(x, list) <= Index(x, rest) + 1
             /\ ~(y < x) => Index(x, list) = Index(x, rest)
  <2> HIDE DEF rest
  <2>1. x \in Ranks
    BY <1>0
  <2> QED
    BY <1>0, <2>1, IndexGrows, IndexBounded
<1>2. \E w : Owed(D, rest, n) \subseteq Owed(D, list, n) \cup {w}
  <2>1. CASE n <= Index(y, list)
    <3>1. ASSUME NEW x \in Owed(D, rest, n), x \in rest PROVE Index(x, list) < n
      <4>1. Index(x, rest) < n
        BY <3>1 DEF Owed
      <4>2. CASE y < x
        <5>1. Index(y, list) < Index(x, list) /\ Index(y, list) \in Nat
          BY <3>1, <4>2, IndexOrdered, IndexBounded
        <5> QED
          BY <1>1, <2>1, <3>1, <4>1, <5>1
      <4>3. CASE ~(y < x)
        BY <1>1, <3>1, <4>1, <4>3
      <4> QED
        BY <4>2, <4>3
    <3> QED
      BY <3>1 DEF Owed
  <2>2. CASE ~(n <= Index(y, list))
    <3>1. y \in D => y \in Owed(D, list, n)
      BY <2>2, IndexBounded DEF Owed
    <3>2. ASSUME NEW x \in Owed(D, rest, n) \ Owed(D, list, n)
          PROVE  x \in list /\ Index(x, list) = n
      <4>1. x \in rest /\ Index(x, rest) < n /\ ~(Index(x, list) < n)
        BY <3>1 DEF Owed
      <4> QED
        BY <1>1, <4>1
    <3>3. ASSUME NEW x \in Owed(D, rest, n) \ Owed(D, list, n),
                 NEW z \in Owed(D, rest, n) \ Owed(D, list, n)
          PROVE  x = z
      <4>1. x \in list /\ z \in list /\ Index(x, list) = n /\ Index(z, list) = n
        BY <3>2
      <4>2. ~(x < z) /\ ~(z < x)
        BY <4>1, IndexOrdered
      <4> QED
        BY <4>1, <4>2, ListingAssumption
    <3> QED
      BY <3>3
  <2> QED
    BY <2>1, <2>2
<1>3. Owed(D, rest, n) \in SUBSET Ranks /\ Owed(D, list, n) \in SUBSET Ranks
  BY DEF Owed
<1> QED
  BY <1>2, <1>3, AddedRow

\* An insertion adds one row at most: itself, or the one it moves to n.
LEMMA AheadInsert ==
  ASSUME NEW S \in SUBSET Ranks, NEW list \in SUBSET Ranks, NEW y \in Ranks \ list,
         NEW n \in Nat
  PROVE  Cardinality(Ahead(S, list \cup {y}, n)) <= Cardinality(Ahead(S, list, n)) + 1
<1> DEFINE more == list \cup {y}
<1>0. more \in SUBSET Ranks /\ list \subseteq more /\ y \in Ranks
  OBVIOUS
<1>1. ASSUME NEW x \in more
      PROVE  /\ Index(x, list) \in Nat /\ Index(x, more) \in Nat
             /\ Index(x, more) <= Index(x, list) + 1
             /\ ~(y < x) => Index(x, list) = Index(x, more)
  BY <1>0, IndexGrows, IndexBounded
<1>2. \E w : Ahead(S, more, n) \subseteq Ahead(S, list, n) \cup {w}
  <2>1. CASE n <= Index(y, more)
    <3>1. ASSUME NEW x \in Ahead(S, more, n), x # y PROVE n <= Index(x, list)
      <4>1. x \in list /\ n <= Index(x, more)
        BY <3>1 DEF Ahead
      <4>2. CASE y < x
        <5>1. Index(y, more) < Index(x, more) /\ Index(y, more) \in Nat
          BY <1>0, <4>1, <4>2, IndexOrdered, IndexBounded
        <5> QED
          BY <1>1, <2>1, <4>1, <5>1
      <4>3. CASE ~(y < x)
        BY <1>1, <4>1, <4>3
      <4> QED
        BY <4>2, <4>3
    <3> QED
      BY <3>1 DEF Ahead
  <2>2. CASE ~(n <= Index(y, more))
    <3>1. ASSUME NEW x \in Ahead(S, more, n) \ Ahead(S, list, n)
          PROVE  x \in more /\ Index(x, more) = n
      <4>1. x \in more /\ n <= Index(x, more) /\ x # y
        BY <2>2 DEF Ahead
      <4>2. ~(n <= Index(x, list))
        BY <4>1 DEF Ahead
      <4> QED
        BY <1>1, <4>1, <4>2
    <3>2. ASSUME NEW x \in Ahead(S, more, n) \ Ahead(S, list, n),
                 NEW z \in Ahead(S, more, n) \ Ahead(S, list, n)
          PROVE  x = z
      <4>1. x \in more /\ z \in more /\ Index(x, more) = n /\ Index(z, more) = n
        BY <3>1
      <4>2. ~(x < z) /\ ~(z < x)
        BY <1>0, <4>1, IndexOrdered
      <4>3. x \in Int /\ z \in Int
        BY <1>0, <4>1, ListingAssumption
      <4> QED
        BY <4>2, <4>3
    <3> QED
      BY <3>2
  <2> QED
    BY <2>1, <2>2
<1>3. Ahead(S, more, n) \in SUBSET Ranks /\ Ahead(S, list, n) \in SUBSET Ranks
  BY DEF Ahead
<1> QED
  BY <1>2, <1>3, AddedRow

\* A removal moves nothing backwards.
LEMMA AheadRemove ==
  ASSUME NEW S \in SUBSET Ranks, NEW list \in SUBSET Ranks, NEW y \in list,
         NEW n \in Nat
  PROVE  Cardinality(Ahead(S, list \ {y}, n)) <= Cardinality(Ahead(S, list, n))
<1> DEFINE rest == list \ {y}
<1>0. rest \in SUBSET Ranks /\ rest \cup {y} = list /\ y \in Ranks
  OBVIOUS
<1>1. Ahead(S, rest, n) \in SUBSET Ahead(S, list, n)
  <2> SUFFICES ASSUME NEW x \in Ahead(S, rest, n) PROVE n <= Index(x, list)
    BY DEF Ahead
  <2>1. x \in Ranks /\ n <= Index(x, rest)
    BY DEF Ahead
  <2>2. Index(x, rest) <= Index(x, list) /\ Index(x, rest) \in Nat /\ Index(x, list) \in Nat
    <3> HIDE DEF rest
    <3> QED
      BY <1>0, <2>1, IndexGrows, IndexBounded
  <2> QED
    BY <2>1, <2>2
<1>2. Ahead(S, list, n) \in SUBSET Ranks
  BY DEF Ahead
<1> QED
  BY <1>1, <1>2, RowsFinite

-----------------------------------------------------------------------------
\* The low bits of a number that fits are the number.
LEMMA Int32Fits ==
  ASSUME NEW n \in 0..MaxInt32
  PROVE  Int32(n) = n
<1> DEFINE w == 2 * (MaxInt32 + 1)
           m == n + MaxInt32 + 1
<1>1. m \in Nat /\ w \in Nat /\ w > 0 /\ m < w
  BY ListingAssumption
<1>2. m % w = m
  <2> HIDE DEF m, w
  <2> QED
    BY <1>1
<1> QED
  BY <1>1, <1>2, ListingAssumption DEF Int32

\* What reaches SQL is in bounds, and a request asked for again is the same one.
LEMMA Parsed ==
  ASSUME NEW l \in Int \cup {Null}, NEW o \in Int \cup {Null}
  PROVE  /\ ParsePagination(l, o) \in Params
         /\ l \in 1..MaxLimit => ParsePagination(l, o).limit = l
         /\ o \in Nat => ParsePagination(l, o).offset = Least(o, MaxInt32)
<1> DEFINE pl == IF l # Null /\ l > 0 THEN Least(l, MaxLimit) ELSE DefaultLimit
           po == IF o # Null /\ o >= 0 THEN Least(o, MaxInt32) ELSE 0
<1>1. pl \in 1..MaxLimit /\ pl \in 0..MaxInt32 /\ (l \in 1..MaxLimit => pl = l)
  BY ListingAssumption DEF Least
<1>2. po \in 0..MaxInt32 /\ (o \in Nat => po = Least(o, MaxInt32))
  BY ListingAssumption DEF Least
<1>3. ParsePagination(l, o) = [limit |-> Int32(pl), offset |-> Int32(po)]
  BY DEF ParsePagination
<1> HIDE DEF pl, po
<1> QED
  BY <1>1, <1>2, <1>3, Int32Fits DEF Params

\* The page that is the last by its number ends at the total or after it.
LEMMA LastPageEnds ==
  ASSUME NEW offset \in Nat, NEW limit \in Nat \ {0}, NEW total \in Nat,
         (offset \div limit) + 1 >= TotalPages(total, limit)
  PROVE  total <= offset + limit
<1> DEFINE p == offset \div limit
           q == (total + limit - 1) \div limit
<1>1. p \in Nat /\ limit * p <= offset
  OBVIOUS
<1>2. q \in Nat /\ total + limit - 1 < limit * q + limit
  OBVIOUS
<1>3. q <= p + 1
  BY <1>1, <1>2 DEF TotalPages
<1> HIDE DEF p, q
<1>4. limit * q <= limit * p + limit
  BY <1>1, <1>2, <1>3
<1> QED
  BY <1>1, <1>2, <1>4

\* Rows before an earlier position are fewer, and those after a later one.
LEMMA Positions ==
  ASSUME NEW S \in SUBSET Ranks, NEW list \in SUBSET Ranks, NEW m \in Nat, NEW n \in Nat,
         m <= n
  PROVE  /\ Cardinality(Owed(S, list, m)) <= Cardinality(Owed(S, list, n))
         /\ Cardinality(Ahead(S, list, n)) <= Cardinality(Ahead(S, list, m))
<1>1. ASSUME NEW x \in list
      PROVE  Index(x, list) \in Nat /\ Index(x, list) < Cardinality(list)
  BY IndexBounded
<1>2. Owed(S, list, m) \in SUBSET Owed(S, list, n) /\ Owed(S, list, n) \in SUBSET Ranks
  BY <1>1 DEF Owed
<1>3. Ahead(S, list, n) \in SUBSET Ahead(S, list, m) /\ Ahead(S, list, m) \in SUBSET Ranks
  BY <1>1 DEF Ahead
<1> QED
  BY <1>2, <1>3, RowsFinite

\* Nothing is ahead of the end of a list.
LEMMA PastTheEnd ==
  ASSUME NEW S \in SUBSET Ranks, NEW list \in SUBSET Ranks, NEW n \in Nat,
         Cardinality(list) <= n
  PROVE  Ahead(S, list, n) = {}
<1>1. Cardinality(list) \in Nat
  BY RowsFinite
<1>2. ASSUME NEW x \in list
      PROVE  Index(x, list) \in Nat /\ Index(x, list) < Cardinality(list)
  BY IndexBounded
<1> QED
  BY <1>1, <1>2 DEF Ahead

\* What the invariant counts are numbers.
LEMMA Counted ==
  ASSUME NEW S \in SUBSET Ranks, NEW list \in SUBSET Ranks, NEW n \in Nat
  PROVE  /\ Cardinality(S) \in Nat
         /\ Owed(S, list, n) \in SUBSET Ranks /\ Cardinality(Owed(S, list, n)) \in Nat
         /\ Ahead(S, list, n) \in SUBSET Ranks /\ Cardinality(Ahead(S, list, n)) \in Nat
  BY RowsFinite DEF Owed, Ahead

\* The parts of a walk, and its place in the list.
LEMMA WalkFacts ==
  ASSUME TypeOK
  PROVE  /\ Listed \in SUBSET Ranks /\ walk.list \in Lists /\ walk.page \in SUBSET Ranks
         /\ walk.total \in Nat
         /\ walk.pc # "idle" =>
              /\ walk.params \in Params /\ walk.params.limit \in 1..MaxLimit
              /\ walk.params.limit \in Nat \ {0} /\ walk.params.offset \in 0..MaxInt32
              /\ walk.params.offset \in Nat
              /\ walk.params.offset + walk.params.limit \in Nat
  BY ListingAssumption DEF TypeOK, Listed, Params

\* Before a walk.
LEMMA InvInit == Init => IInv
<1> SUFFICES ASSUME Init PROVE IInv
  OBVIOUS
<1>1. /\ walk.pc = "idle" /\ walk.page = {} /\ walk.params = Null /\ walk.total = 0
      /\ walk \in [list : Lists, pc : {"idle", "page", "total", "reply", "over"},
                   params : Params \cup {Null}, page : SUBSET Ranks, total : Nat]
  BY DEF Init
<1>2. TypeOK
  BY <1>1 DEF Init, TypeOK
<1>3. BeforePage /\ WithPage /\ AtEnd
  BY <1>1 DEF BeforePage, WithPage, AtEnd
<1>4. Counts
  BY DEF Init, Counts
<1> QED
  BY <1>2, <1>3, <1>4 DEF IInv

\* The walk once it asks for the page of p.
Asking(w, p) ==
  /\ w \in [list : Lists, pc : {"page"}, params : {p}, page : {{}}, total : {0}]
  /\ w.list = walk.list

\* That is where Ask brings it.
LEMMA Asked ==
  ASSUME TypeOK, NEW l, NEW o, Ask(l, o)
  PROVE  Asking(walk', ParsePagination(l, o))
  BY DEF Ask, Asking, TypeOK, Statements

\* A walk that asks for a page is typed, and owes what the rest of the invariant
\* says of its new position.
LEMMA AskingTyped ==
  ASSUME NEW p \in Params, Asking(walk', p), UNCHANGED rows
  PROVE  /\ walk' \in [list : Lists, pc : {"idle", "page", "total", "reply", "over"},
                       params : Params \cup {Null}, page : SUBSET Ranks, total : Nat]
         /\ walk'.pc = "page" /\ walk'.params = p /\ Listed' = Listed
  BY DEF Asking, Listed

\* A walk begins with nothing owed, and nothing seen.
LEMMA StartStep ==
  ASSUME IInv, NEW l \in RawNumbers \cup {Null}, NEW o \in RawNumbers \cup {Null},
         Start(l, o)
  PROVE  IInv'
<1> DEFINE p == ParsePagination(l, o)
<1>1. /\ UNCHANGED <<rows, seen, repeated, inserted, removed>>
      /\ walk.pc = "idle" /\ Asking(walk', p)
      /\ due' = {x \in Listed : Index(x, Listed) >= p.offset}
  BY Asked DEF Start, IInv
<1>2. p \in Params /\ p.offset \in Nat
  BY Parsed, ListingAssumption DEF Params
<1> HIDE DEF p
<1>3. /\ walk' \in [list : Lists, pc : {"idle", "page", "total", "reply", "over"},
                    params : Params \cup {Null}, page : SUBSET Ranks, total : Nat]
      /\ walk'.pc = "page" /\ walk'.params = p /\ Listed' = Listed
  BY <1>1, <1>2, AskingTyped
<1>4. seen = {} /\ repeated = 0 /\ repeated <= inserted /\ removed \in Nat
      /\ inserted \in Nat /\ Listed \in SUBSET Ranks
  BY <1>1, WalkFacts DEF IInv, TypeOK, Counts
<1>5. TypeOK'
  BY <1>1, <1>2, <1>3, <1>4 DEF IInv, TypeOK
<1>6. Owed(due', Listed, p.offset) = {} /\ Ahead({}, Listed, p.offset) = {}
  <2>1. ASSUME NEW x \in Listed PROVE Index(x, Listed) \in Nat
    BY <1>4, IndexBounded
  <2> QED
    BY <1>1, <1>2, <2>1 DEF Owed, Ahead
<1>7. BeforePage'
  <2>1. due' \ seen' = due' /\ seen' = {} /\ Cardinality({}) = 0
    BY <1>1, <1>4, FS_EmptySet
  <2>2. /\ Cardinality(Owed(due' \ seen', Listed, p.offset)) <= removed
        /\ repeated + Cardinality(Ahead(seen', Listed, p.offset)) <= inserted
    BY <1>4, <1>6, <2>1
  <2> QED
    BY <1>1, <1>3, <2>2 DEF BeforePage
<1> QED
  BY <1>1, <1>3, <1>4, <1>5, <1>7 DEF IInv, WithPage, AtEnd, Counts

\* A page that did not arrive is asked for again.
LEMMA FailStep ==
  ASSUME IInv, Fail
  PROVE  IInv'
<1> DEFINE p == ParsePagination(walk.params.limit, walk.params.offset)
<1>1. /\ UNCHANGED <<rows, due, seen, repeated, inserted, removed>>
      /\ walk.pc \in {"page", "total", "reply"} /\ Asking(walk', p)
  BY Asked DEF Fail, Walking, IInv
<1>2. p \in Params /\ p.offset = walk.params.offset
  <2>1. walk.params.limit \in Int /\ walk.params.offset \in 0..MaxInt32
        /\ walk.params.offset \in Int /\ walk.params.offset \in Nat
    BY <1>1, WalkFacts DEF IInv
  <2>2. p \in Params /\ p.offset = Least(walk.params.offset, MaxInt32)
    BY <2>1, Parsed
  <2> QED
    BY <2>1, <2>2, ListingAssumption DEF Least
<1> HIDE DEF p
<1>3. /\ walk' \in [list : Lists, pc : {"idle", "page", "total", "reply", "over"},
                    params : Params \cup {Null}, page : SUBSET Ranks, total : Nat]
      /\ walk'.pc = "page" /\ walk'.params = p /\ Listed' = Listed
  BY <1>1, <1>2, AskingTyped
<1>4. TypeOK'
  BY <1>1, <1>2, <1>3 DEF IInv, TypeOK
<1>5. BeforePage'
  BY <1>1, <1>2, <1>3 DEF IInv, BeforePage
<1> QED
  BY <1>1, <1>3, <1>4, <1>5 DEF IInv, WithPage, AtEnd, Counts

\* The first statement: what is in the window is got, the rest is owed.
LEMMA PageStep ==
  ASSUME IInv, walk.pc = "page", NEW total \in Nat,
         Statement(Window(Listed, walk.params), total)
  PROVE  IInv'
<1> DEFINE page == Window(Listed, walk.params)
           m == walk.params.offset
           n == walk.params.offset + walk.params.limit
<1>1. /\ UNCHANGED <<rows, due, seen, repeated, inserted, removed>>
      /\ walk' = [walk EXCEPT !.page = page, !.pc = "total"]
  BY DEF Statement, Statements
<1>2. /\ m \in Nat /\ n \in Nat /\ m <= n /\ Listed \in SUBSET Ranks
      /\ due \in SUBSET Ranks /\ seen \in SUBSET Ranks
      /\ repeated \in Nat /\ inserted \in Nat /\ removed \in Nat
  BY WalkFacts DEF IInv, TypeOK
<1>3. page \in SUBSET Ranks /\ page \subseteq Listed
  BY <1>2 DEF Window
<1>4. /\ walk' \in [list : Lists, pc : {"idle", "page", "total", "reply", "over"},
                    params : Params \cup {Null}, page : SUBSET Ranks, total : Nat]
      /\ walk'.pc = "total" /\ walk'.params = walk.params /\ walk'.page = page
      /\ walk'.list = walk.list /\ Listed' = Listed
  BY <1>1, <1>3 DEF IInv, TypeOK, Listed
<1>5. \A x \in Listed : Index(x, Listed) \in Nat /\ (x \in page <=>
                           m <= Index(x, Listed) /\ Index(x, Listed) < n)
  BY <1>2, IndexBounded DEF Window
<1> HIDE DEF page, m, n
<1>6. Cardinality(Owed(due \ (seen \cup page), Listed, n)) <= removed
  <2>1. Owed(due \ (seen \cup page), Listed, n) \in SUBSET Owed(due \ seen, Listed, m)
    BY <1>2, <1>5 DEF Owed
  <2>2. Cardinality(Owed(due \ seen, Listed, m)) <= removed
    BY DEF IInv, BeforePage, m
  <2>3. /\ Cardinality(Owed(due \ seen, Listed, m)) \in Nat
        /\ Cardinality(Owed(due \ (seen \cup page), Listed, n)) \in Nat
        /\ Cardinality(Owed(due \ (seen \cup page), Listed, n))
             <= Cardinality(Owed(due \ seen, Listed, m))
    <3>1. Owed(due \ seen, Listed, m) \in SUBSET Ranks
      BY <1>2, Counted
    <3> QED
      BY <2>1, <3>1, RowsFinite
  <2> QED
    BY <1>2, <2>2, <2>3
<1>7. repeated + Cardinality(page \cap seen) + Cardinality(Ahead(seen \cup page, Listed, n))
        <= inserted
  <2> DEFINE A == page \cap seen
             B == Ahead(seen \cup page, Listed, n)
             C == Ahead(seen, Listed, m)
  <2>1. A \in SUBSET Ranks /\ B \in SUBSET Ranks /\ C \in SUBSET Ranks
    BY <1>2, <1>3, Counted
  <2>2. A \cap B = {} /\ A \cup B \in SUBSET C
    BY <1>2, <1>3, <1>5 DEF Ahead
  <2>3. repeated + Cardinality(C) <= inserted
    BY DEF IInv, BeforePage, m
  <2> HIDE DEF A, B, C
  <2>4. Cardinality(A) + Cardinality(B) = Cardinality(A \cup B)
    BY <2>1, <2>2, DisjointRows
  <2>5. Cardinality(A \cup B) <= Cardinality(C) /\ Cardinality(C) \in Nat
        /\ Cardinality(A) \in Nat /\ Cardinality(B) \in Nat
    BY <2>1, <2>2, RowsFinite
  <2>6. repeated + Cardinality(A) + Cardinality(B) <= inserted
    BY <1>2, <2>3, <2>4, <2>5
  <2> QED
    BY <2>6 DEF A, B
<1>8. WithPage'
  BY <1>1, <1>4, <1>6, <1>7 DEF WithPage, n
<1>9. TypeOK' /\ BeforePage'
  BY <1>1, <1>4 DEF IInv, TypeOK, BeforePage
<1> QED
  BY <1>1, <1>4, <1>8, <1>9 DEF IInv, AtEnd, Counts

\* The second statement: a total within the page's end leaves nothing out.
LEMMA TotalStep ==
  ASSUME IInv, walk.pc = "total", NEW page,
         Statement(page, Cardinality(Listed))
  PROVE  IInv'
<1> DEFINE got == seen \cup walk.page
           n == walk.params.offset + walk.params.limit
<1>1. /\ UNCHANGED <<rows, due, seen, repeated, inserted, removed>>
      /\ walk' = [walk EXCEPT !.total = Cardinality(Listed), !.pc = "reply"]
  BY DEF Statement, Statements
<1>2. /\ n \in Nat /\ Listed \in SUBSET Ranks /\ Cardinality(Listed) \in Nat
      /\ due \in SUBSET Ranks /\ seen \in SUBSET Ranks /\ removed \in Nat
  BY WalkFacts, RowsFinite DEF IInv, TypeOK
<1>3. /\ walk' \in [list : Lists, pc : {"idle", "page", "total", "reply", "over"},
                    params : Params \cup {Null}, page : SUBSET Ranks, total : Nat]
      /\ walk'.pc = "reply" /\ walk'.params = walk.params /\ walk'.page = walk.page
      /\ walk'.total = Cardinality(Listed) /\ walk'.list = walk.list /\ Listed' = Listed
  BY <1>1, <1>2 DEF IInv, TypeOK, Listed
<1> HIDE DEF got, n
<1>4. ASSUME Cardinality(Listed) <= n PROVE Cardinality(due \ got) <= removed
  <2>1. \A x \in Listed : Index(x, Listed) \in Nat /\ Index(x, Listed) < n
    BY <1>2, <1>4, IndexBounded
  <2>2. Owed(due \ got, Listed, n) = due \ got
    BY <2>1 DEF Owed
  <2> QED
    BY <2>2 DEF IInv, WithPage, got, n
<1>5. AtEnd'
  BY <1>1, <1>3, <1>4 DEF AtEnd, got, n
<1>6. TypeOK' /\ BeforePage' /\ WithPage'
  BY <1>1, <1>3 DEF IInv, TypeOK, BeforePage, WithPage
<1> QED
  BY <1>1, <1>3, <1>5, <1>6 DEF IInv, Counts

\* Either list operation is its two statements, over the list the walk is about.
LEMMA ListStep ==
  ASSUME IInv, ListByUser \/ ListByProject
  PROVE  IInv'
<1>1. Statement(Window(Listed, walk.params), Cardinality(Listed))
  BY DEF ListByUser, ListByProject, ListProjectsByUser, ListSandboxesByProject,
         CountProjectsByUser, CountSandboxesByProject, Listed
<1>2. walk.pc = "page" \/ walk.pc = "total"
  BY <1>1 DEF Statement
<1>3. Cardinality(Listed) \in Nat
  BY WalkFacts, RowsFinite DEF IInv
<1> QED
  BY <1>1, <1>2, <1>3, PageStep, TotalStep

\* The answer arrives: what was owed past the page is owed at the next position,
\* or, on the last page, for good.
LEMMA ReplyStep ==
  ASSUME IInv, Reply
  PROVE  IInv'
<1> DEFINE got == seen \cup walk.page
           n == walk.params.offset + walk.params.limit
           again == walk.page \cap seen
<1>1. /\ UNCHANGED <<rows, due, inserted, removed>> /\ walk.pc = "reply"
      /\ seen' = got /\ repeated' = repeated + Cardinality(again)
  BY DEF Reply
<1>2. /\ n \in Nat /\ Listed \in SUBSET Ranks /\ walk.page \in SUBSET Ranks
      /\ got \in SUBSET Ranks /\ again \in SUBSET Ranks /\ due \in SUBSET Ranks
      /\ repeated \in Nat /\ inserted \in Nat /\ removed \in Nat
      /\ walk.params.limit \in 1..MaxLimit /\ walk.params.limit \in Nat \ {0}
      /\ walk.params.offset \in Nat /\ walk.total \in Nat
  BY <1>1, WalkFacts DEF IInv, TypeOK
<1>3. /\ Cardinality(again) \in Nat
      /\ Cardinality(Owed(due \ got, Listed, n)) <= removed
      /\ repeated + Cardinality(again) + Cardinality(Ahead(got, Listed, n)) <= inserted
  BY <1>1, <1>2, RowsFinite DEF IInv, WithPage
<1> HIDE DEF got, again
<1>4. Cardinality(Ahead(got, Listed, n)) \in Nat
      /\ Cardinality(Owed(due \ got, Listed, n)) \in Nat
  BY <1>2, Counted
<1>5. repeated' \in Nat /\ repeated' <= inserted
  BY <1>1, <1>2, <1>3, <1>4
<1>6. CASE LastPage
  <2>1. walk' = [walk EXCEPT !.pc = "over"]
    BY <1>6 DEF Reply
  <2>2. /\ walk' \in [list : Lists, pc : {"idle", "page", "total", "reply", "over"},
                      params : Params \cup {Null}, page : SUBSET Ranks, total : Nat]
        /\ walk'.pc = "over" /\ walk'.params = walk.params
    BY <2>1 DEF IInv, TypeOK
  <2>3. walk.total <= n
    BY <1>2, <1>6, LastPageEnds DEF LastPage
  <2>4. Cardinality(due \ got) <= removed
    BY <1>1, <2>3 DEF IInv, AtEnd, got
  <2>5. TypeOK'
    BY <1>1, <1>2, <1>5, <2>2 DEF IInv, TypeOK
  <2> QED
    BY <1>1, <1>5, <2>2, <2>4, <2>5 DEF IInv, BeforePage, WithPage, AtEnd, Counts
<1>7. CASE ~LastPage
  <2> DEFINE p == ParsePagination(walk.params.limit, n)
  <2>1. Asking(walk', p)
    BY <1>7, Asked DEF Reply, IInv, n
  <2>2. p \in Params /\ p.offset = Least(n, MaxInt32) /\ p.offset \in Nat
    <3>1. walk.params.limit \in Int /\ n \in Int
      BY <1>2
    <3> QED
      BY <1>2, <3>1, Parsed DEF Params
  <2> HIDE DEF p
  <2>3. /\ walk' \in [list : Lists, pc : {"idle", "page", "total", "reply", "over"},
                      params : Params \cup {Null}, page : SUBSET Ranks, total : Nat]
        /\ walk'.pc = "page" /\ walk'.params = p /\ Listed' = Listed
    BY <1>1, <2>1, <2>2, AskingTyped
  <2>4. p.offset <= n /\ (p.offset = n \/ p.offset = MaxInt32)
    BY <1>2, <2>2, ListingAssumption DEF Least
  <2>5. Cardinality(Owed(due \ got, Listed, p.offset)) <= removed
    <3>1. Cardinality(Owed(due \ got, Listed, p.offset))
            <= Cardinality(Owed(due \ got, Listed, n))
      BY <1>2, <2>2, <2>4, Positions
    <3>2. Cardinality(Owed(due \ got, Listed, p.offset)) \in Nat
      BY <1>2, <2>2, Counted
    <3> QED
      BY <1>2, <1>3, <1>4, <3>1, <3>2
  <2>6. repeated' + Cardinality(Ahead(got, Listed, p.offset)) <= inserted
    <3>1. CASE p.offset = n
      BY <1>1, <1>3, <3>1
    <3>2. CASE p.offset = MaxInt32
      <4>1. Cardinality(Listed) \in Nat /\ Cardinality(Listed) <= MaxInt32
        <5>1. Cardinality(Listed) <= Cardinality(Ranks) /\ Cardinality(Ranks) \in Nat
              /\ Cardinality(Listed) \in Nat
          BY <1>2, RowsFinite
        <5> QED
          BY <5>1, ListingAssumption
      <4>2. Ahead(got, Listed, p.offset) = {}
        BY <1>2, <2>2, <3>2, <4>1, PastTheEnd
      <4>3. Cardinality({}) = 0
        BY FS_EmptySet
      <4> QED
        BY <1>5, <4>2, <4>3
    <3> QED
      BY <2>4, <3>1, <3>2
  <2>7. TypeOK'
    BY <1>1, <1>2, <1>5, <2>2, <2>3 DEF IInv, TypeOK
  <2>8. BeforePage'
    BY <1>1, <2>3, <2>5, <2>6 DEF BeforePage
  <2> QED
    BY <1>1, <1>5, <2>3, <2>7, <2>8 DEF IInv, WithPage, AtEnd, Counts
<1> QED
  BY <1>6, <1>7

-----------------------------------------------------------------------------
\* A row appears: nothing more is owed, and at most one more will be repeated.
LEMMA InsertStep ==
  ASSUME IInv, NEW y \in Ranks, Insert(y)
  PROVE  IInv'
<1> DEFINE m == walk.params.offset
           n == walk.params.offset + walk.params.limit
           got == seen \cup walk.page
           again == walk.page \cap seen
<1>1. /\ UNCHANGED <<walk, due, seen, repeated, removed>>
      /\ walk.pc \in {"page", "total", "reply"} /\ y \in Ranks \ Listed
      /\ rows' = [rows EXCEPT ![walk.list] = Listed \cup {y}]
      /\ inserted' = inserted + 1
  BY DEF Insert, Walking, Listed
<1>2. /\ m \in Nat /\ n \in Nat /\ Listed \in SUBSET Ranks /\ walk.list \in Lists
      /\ due \in SUBSET Ranks /\ seen \in SUBSET Ranks /\ got \in SUBSET Ranks
      /\ again \in SUBSET Ranks /\ Listed \cup {y} \in SUBSET Ranks
      /\ repeated \in Nat /\ inserted \in Nat /\ removed \in Nat
  BY <1>1, WalkFacts DEF IInv, TypeOK
<1>3. Listed' = Listed \cup {y}
  BY <1>1, <1>2 DEF IInv, TypeOK, Listed
<1>4. TypeOK' /\ AtEnd' /\ Counts'
  BY <1>1, <1>2 DEF IInv, TypeOK, AtEnd, Counts
<1> HIDE DEF m, n, got, again
<1>5. ASSUME NEW D \in SUBSET Ranks, NEW k \in Nat, Cardinality(Owed(D, Listed, k)) <= removed
      PROVE  Cardinality(Owed(D, Listed \cup {y}, k)) <= removed
  <2>1. /\ Cardinality(Owed(D, Listed, k)) \in Nat
        /\ Cardinality(Owed(D, Listed \cup {y}, k)) \in Nat
    BY <1>2, Counted
  <2>2. Cardinality(Owed(D, Listed \cup {y}, k)) <= Cardinality(Owed(D, Listed, k))
    BY <1>1, <1>2, OwedInsert
  <2> QED
    BY <1>2, <1>5, <2>1, <2>2
<1>6. ASSUME NEW S \in SUBSET Ranks, NEW k \in Nat, NEW c \in Nat,
             c + Cardinality(Ahead(S, Listed, k)) <= inserted
      PROVE  c + Cardinality(Ahead(S, Listed \cup {y}, k)) <= inserted + 1
  <2>1. /\ Cardinality(Ahead(S, Listed, k)) \in Nat
        /\ Cardinality(Ahead(S, Listed \cup {y}, k)) \in Nat
    BY <1>2, Counted
  <2>2. Cardinality(Ahead(S, Listed \cup {y}, k)) <= Cardinality(Ahead(S, Listed, k)) + 1
    BY <1>1, <1>2, AheadInsert
  <2> QED
    BY <1>2, <1>6, <2>1, <2>2
<1>7. BeforePage'
  <2>1. /\ Cardinality(Owed(due \ seen, Listed, m)) <= removed
        /\ repeated + Cardinality(Ahead(seen, Listed, m)) <= inserted
    BY <1>1 DEF IInv, BeforePage, m
  <2>2. /\ Cardinality(Owed(due \ seen, Listed \cup {y}, m)) <= removed
        /\ repeated + Cardinality(Ahead(seen, Listed \cup {y}, m)) <= inserted + 1
    BY <1>2, <1>5, <1>6, <2>1
  <2> QED
    BY <1>1, <1>3, <2>2 DEF BeforePage, m
<1>8. WithPage'
  <2>1. CASE walk.pc \in {"total", "reply"}
    <3>1. /\ Cardinality(Owed(due \ got, Listed, n)) <= removed
          /\ repeated + Cardinality(again) + Cardinality(Ahead(got, Listed, n)) <= inserted
      BY <2>1 DEF IInv, WithPage, got, n, again
    <3>2. repeated + Cardinality(again) \in Nat
      BY <1>2, RowsFinite
    <3>3. /\ Cardinality(Owed(due \ got, Listed \cup {y}, n)) <= removed
          /\ repeated + Cardinality(again) + Cardinality(Ahead(got, Listed \cup {y}, n))
               <= inserted + 1
      BY <1>2, <1>5, <1>6, <3>1, <3>2
    <3> QED
      BY <1>1, <1>3, <3>3 DEF WithPage, got, n, again
  <2>2. CASE walk.pc = "page"
    BY <1>1, <2>2 DEF WithPage
  <2> QED
    BY <1>1, <2>1, <2>2
<1> QED
  BY <1>4, <1>7, <1>8 DEF IInv

\* A row disappears: at most one more is owed, and nothing more will be repeated.
LEMMA RemoveStep ==
  ASSUME IInv, NEW y \in Ranks, Remove(y)
  PROVE  IInv'
<1> DEFINE m == walk.params.offset
           n == walk.params.offset + walk.params.limit
           got == seen \cup walk.page
           again == walk.page \cap seen
<1>1. /\ UNCHANGED <<walk, due, seen, repeated, inserted>>
      /\ walk.pc \in {"page", "total", "reply"} /\ y \in Listed
      /\ rows' = [rows EXCEPT ![walk.list] = Listed \ {y}]
      /\ removed' = removed + 1
  BY DEF Remove, Walking, Listed
<1>2. /\ m \in Nat /\ n \in Nat /\ Listed \in SUBSET Ranks /\ walk.list \in Lists
      /\ due \in SUBSET Ranks /\ seen \in SUBSET Ranks /\ got \in SUBSET Ranks
      /\ again \in SUBSET Ranks /\ Listed \ {y} \in SUBSET Ranks
      /\ repeated \in Nat /\ inserted \in Nat /\ removed \in Nat
  BY <1>1, WalkFacts DEF IInv, TypeOK
<1>3. Listed' = Listed \ {y}
  BY <1>1, <1>2 DEF IInv, TypeOK, Listed
<1>4. TypeOK' /\ Counts'
  BY <1>1, <1>2 DEF IInv, TypeOK, Counts
<1> HIDE DEF m, n, got, again
<1>5. AtEnd'
  <2>1. Cardinality(due \ got) \in Nat
    BY <1>2, RowsFinite
  <2> QED
    BY <1>1, <1>2, <2>1 DEF IInv, AtEnd, got
<1>6. ASSUME NEW D \in SUBSET Ranks, NEW k \in Nat, Cardinality(Owed(D, Listed, k)) <= removed
      PROVE  Cardinality(Owed(D, Listed \ {y}, k)) <= removed + 1
  <2>1. /\ Cardinality(Owed(D, Listed, k)) \in Nat
        /\ Cardinality(Owed(D, Listed \ {y}, k)) \in Nat
    BY <1>2, Counted
  <2>2. Cardinality(Owed(D, Listed \ {y}, k)) <= Cardinality(Owed(D, Listed, k)) + 1
    BY <1>1, <1>2, OwedRemove
  <2> QED
    BY <1>2, <1>6, <2>1, <2>2
<1>7. ASSUME NEW S \in SUBSET Ranks, NEW k \in Nat, NEW c \in Nat,
             c + Cardinality(Ahead(S, Listed, k)) <= inserted
      PROVE  c + Cardinality(Ahead(S, Listed \ {y}, k)) <= inserted
  <2>1. /\ Cardinality(Ahead(S, Listed, k)) \in Nat
        /\ Cardinality(Ahead(S, Listed \ {y}, k)) \in Nat
    BY <1>2, Counted
  <2>2. Cardinality(Ahead(S, Listed \ {y}, k)) <= Cardinality(Ahead(S, Listed, k))
    BY <1>1, <1>2, AheadRemove
  <2> QED
    BY <1>2, <1>7, <2>1, <2>2
<1>8. BeforePage'
  <2>1. /\ Cardinality(Owed(due \ seen, Listed, m)) <= removed
        /\ repeated + Cardinality(Ahead(seen, Listed, m)) <= inserted
    BY <1>1 DEF IInv, BeforePage, m
  <2>2. /\ Cardinality(Owed(due \ seen, Listed \ {y}, m)) <= removed + 1
        /\ repeated + Cardinality(Ahead(seen, Listed \ {y}, m)) <= inserted
    BY <1>2, <1>6, <1>7, <2>1
  <2> QED
    BY <1>1, <1>3, <2>2 DEF BeforePage, m
<1>9. WithPage'
  <2>1. CASE walk.pc \in {"total", "reply"}
    <3>1. /\ Cardinality(Owed(due \ got, Listed, n)) <= removed
          /\ repeated + Cardinality(again) + Cardinality(Ahead(got, Listed, n)) <= inserted
      BY <2>1 DEF IInv, WithPage, got, n, again
    <3>2. repeated + Cardinality(again) \in Nat
      BY <1>2, RowsFinite
    <3>3. /\ Cardinality(Owed(due \ got, Listed \ {y}, n)) <= removed + 1
          /\ repeated + Cardinality(again) + Cardinality(Ahead(got, Listed \ {y}, n))
               <= inserted
      BY <1>2, <1>6, <1>7, <3>1, <3>2
    <3> QED
      BY <1>1, <1>3, <3>3 DEF WithPage, got, n, again
  <2>2. CASE walk.pc = "page"
    BY <1>1, <2>2 DEF WithPage
  <2> QED
    BY <1>1, <2>1, <2>2
<1> QED
  BY <1>4, <1>5, <1>8, <1>9 DEF IInv

\* Every step of the walk, or of the list, keeps the invariant.
LEMMA InvStep == IInv /\ [Next]_vars => IInv'
<1> SUFFICES ASSUME IInv, [Next]_vars PROVE IInv'
  OBVIOUS
<1>1. CASE UNCHANGED vars
  BY <1>1 DEF vars, Listed, IInv, TypeOK, BeforePage, WithPage, AtEnd, Counts
<1>2. ASSUME NEW l \in RawNumbers \cup {Null}, NEW o \in RawNumbers \cup {Null}, Start(l, o)
      PROVE  IInv'
  BY <1>2, StartStep
<1>3. CASE ListByUser \/ ListByProject
  BY <1>3, ListStep
<1>4. CASE Fail
  BY <1>4, FailStep
<1>5. CASE Reply
  BY <1>5, ReplyStep
<1>6. ASSUME NEW x \in Ranks, Insert(x) PROVE IInv'
  BY <1>6, InsertStep
<1>7. ASSUME NEW x \in Ranks, Remove(x) PROVE IInv'
  BY <1>7, RemoveStep
<1> QED
  BY <1>1, <1>2, <1>3, <1>4, <1>5, <1>6, <1>7 DEF Next, Over

\* What is owed and what will be repeated is bounded in every state.
THEOREM Invariance == Spec => []IInv
<1>1. Init => IInv
  BY InvInit
<1>2. IInv /\ [Next]_vars => IInv'
  BY InvStep
<1> QED
  BY <1>1, <1>2, PTL DEF Spec

-----------------------------------------------------------------------------
\* Every request of a walk reaches SQL with a limit and an offset in bounds.
THEOREM ListingTyped == Spec => []TypeOK
  BY Invariance, PTL DEF IInv

\* A walk misses at most one row per row removed meanwhile, however long the
\* list, whatever is inserted, and however often a page is asked for again.
THEOREM WalkMissesLittle == Spec => []MissedAtMostRemoved
<1>1. IInv => MissedAtMostRemoved
  <2> SUFFICES ASSUME IInv, walk.pc = "over" PROVE Cardinality(Missed) <= removed
    BY DEF MissedAtMostRemoved
  <2>1. /\ due \ seen \in SUBSET Ranks /\ Missed \in SUBSET (due \ seen)
        /\ removed \in Nat /\ Cardinality(due \ seen) <= removed
    BY DEF IInv, TypeOK, AtEnd, Missed
  <2>2. Cardinality(Missed) \in Nat /\ Cardinality(due \ seen) \in Nat
        /\ Cardinality(Missed) <= Cardinality(due \ seen)
    BY <2>1, RowsFinite
  <2> QED
    BY <2>1, <2>2
<1> QED
  BY <1>1, Invariance, PTL

\* A walk repeats at most one row per row inserted meanwhile.
THEOREM WalkRepeatsLittle == Spec => []RepeatedAtMostInserted
<1>1. IInv => RepeatedAtMostInserted
  BY DEF IInv, Counts, RepeatedAtMostInserted
<1> QED
  BY <1>1, Invariance, PTL
=============================================================================
