----------------------------- MODULE TaskProofs -----------------------------
(***************************************************************************)
(* Proofs about tasks: first the columns they are on (Boards), for any     *)
(* boards, columns, tasks and concurrent requests; then the time entries   *)
(* that count for them (TimeTracking), for any users, entries, lengths and *)
(* requests.                                                               *)
(***************************************************************************)
EXTENDS Boards, TimeTracking, SequenceTheorems, FiniteSetTheorems, TLAPS

(* A request names a row of the kind it is about, and a column still to be *)
(* inserted has an id that no column has or had, and no other request.     *)
Named ==
  \A r \in Requests :
    /\ op[r] \in {"createColumn", "deleteColumn", "moveColumn"} => item[r] \in Columns
    /\ op[r] \in {"createTask", "moveTask", "archive", "restore", "deleteTask"} => item[r] \in Tasks
    /\ op[r] \in {"moveTask", "archive", "restore", "deleteTask"} => item[r] \in tasks
    /\ op[r] = "createColumn" => item[r] \notin columns \union retired
    /\ op[r] \in {"deleteColumn", "moveColumn"} => item[r] \in columns \union retired
    /\ pc[r] \in {"siblings"} => op[r] \in {"moveColumn", "moveTask"}
    /\ pc[r] = "idle" => op[r] = "none"

Drafts ==
  \A q, r \in Requests :
    op[q] = "createColumn" /\ op[r] = "createColumn" /\ item[q] = item[r] => q = r

(* A place some row has or may get: on a column, off every board, or where *)
(* a column was.                                                           *)
Sound(p) ==
  /\ p.column # None => p = OnColumn(p.column)
  /\ p.column = None /\ p.board # None =>
       \E c \in retired : p = [OnColumn(c) EXCEPT !.column = None]

SoundPlaces ==
  /\ \A t \in Tasks : Sound(place[t]) /\ place[t].column \in columns \union {None}
  /\ \A r \in Requests : Sound(copy[r])

(* The columns there were at first are there or were deleted.              *)
FirstStay == first \subseteq columns \union retired

(* A transaction that still has all the columns of its board before it     *)
(* numbers each of them once.                                              *)
Complete ==
  \A r \in Requests :
    op[r] = "moveColumn" /\ pc[r] = "write" /\ columns = first /\ retired = {} =>
      /\ IsInjective(order[r])
      /\ ToSet(order[r]) = OfBoard(ColumnBoard[item[r]])

(* The move of a task numbers tasks only.                                  *)
TaskOrders ==
  \A r \in Requests : op[r] = "moveTask" /\ pc[r] = "write" => ToSet(order[r]) \subseteq Tasks

(* The inductive invariant.                                                *)
IInv == /\ TypeOK /\ Named /\ Drafts /\ SoundPlaces /\ FirstStay /\ Complete /\ TaskOrders
        /\ OneColumnPerStatus /\ MovesKeepNumbers

-----------------------------------------------------------------------------
(* Sequences.                                                              *)

(* The sequence l over T is s with e inserted at the place k.              *)
InsertsAt(l, T, s, k, e) ==
  /\ l \in Seq(T)
  /\ Len(l) = Len(s) + 1
  /\ \A i \in 1 .. Len(s) + 1 : l[i] = IF i < k THEN s[i] ELSE IF i = k THEN e ELSE s[i - 1]

(* Inserting an element shifts those behind it.                            *)
LEMMA InsertAtFacts ==
  ASSUME NEW T, NEW s \in Seq(T), NEW e \in T, NEW k \in 1 .. Len(s) + 1
  PROVE  InsertsAt(InsertAt(s, k, e), T, s, k, e)
<1> DEFINE a == SubSeq(s, 1, k - 1)
           b == SubSeq(s, k, Len(s))
<1>0. Len(s) \in Nat /\ k \in Nat /\ k >= 1 /\ k <= Len(s) + 1
  BY LenProperties
<1>e. \A i \in 1 .. Len(s) : s[i] \in T
  BY ElementOfSeq
<1>1. /\ a \in Seq(T) /\ Len(a) = k - 1
      /\ \A i \in 1 .. k - 1 : a[i] = s[i]
  <2>1. \A i \in 1 .. k - 1 : s[i] \in T
    BY <1>0, <1>e
  <2>2. /\ a \in Seq(T) /\ Len(a) = IF 1 <= k - 1 THEN (k - 1) - 1 + 1 ELSE 0
        /\ \A i \in 1 .. (k - 1) - 1 + 1 : a[i] = s[1 + i - 1]
    BY <1>0, <2>1, SubSeqProperties
  <2> HIDE DEF a
  <2> QED
    BY <1>0, <2>2
<1>2. /\ b \in Seq(T) /\ Len(b) = Len(s) - k + 1
      /\ \A i \in 1 .. Len(s) - k + 1 : b[i] = s[k + i - 1]
  <2>1. \A i \in k .. Len(s) : s[i] \in T
    BY <1>0, <1>e
  <2>2. /\ b \in Seq(T) /\ Len(b) = IF k <= Len(s) THEN Len(s) - k + 1 ELSE 0
        /\ \A i \in 1 .. Len(s) - k + 1 : b[i] = s[k + i - 1]
    BY <1>0, <2>1, SubSeqProperties
  <2> HIDE DEF b
  <2> QED
    BY <1>0, <2>2
<1>3. <<e>> \in Seq(T) /\ Len(<<e>>) = 1 /\ <<e>>[1] = e
  OBVIOUS
<1> DEFINE c == a \o <<e>>
<1>4. /\ c \in Seq(T) /\ Len(c) = k
      /\ \A i \in 1 .. k : c[i] = IF i < k THEN s[i] ELSE e
  <2>1. /\ c \in Seq(T) /\ Len(c) = Len(a) + Len(<<e>>)
        /\ \A i \in 1 .. Len(a) + Len(<<e>>) :
             c[i] = IF i <= Len(a) THEN a[i] ELSE <<e>>[i - Len(a)]
    BY <1>1, <1>3, ConcatProperties
  <2> HIDE DEF a, c
  <2>2. Len(a) = k - 1 /\ k \in Nat /\ Len(<<e>>) = 1
    BY <1>0, <1>1, <1>3
  <2>3. c \in Seq(T) /\ Len(c) = k
    BY <2>1, <2>2
  <2>4. ASSUME NEW i \in 1 .. k, i < k PROVE c[i] = s[i]
    BY <1>1, <2>1, <2>2, <2>4
  <2>5. c[k] = e
    <3>1. k \in 1 .. Len(a) + Len(<<e>>) /\ ~(k <= Len(a)) /\ k - Len(a) = 1
      BY <1>0, <2>2
    <3> QED
      BY <1>3, <2>1, <3>1
  <2> QED
    BY <1>0, <2>3, <2>4, <2>5
<1>5. InsertAt(s, k, e) = c \o b
  BY DEF InsertAt
<1>6. /\ c \o b \in Seq(T) /\ Len(c \o b) = Len(c) + Len(b)
      /\ \A i \in 1 .. Len(c) + Len(b) :
           (c \o b)[i] = IF i <= Len(c) THEN c[i] ELSE b[i - Len(c)]
  BY <1>2, <1>4, ConcatProperties
<1> HIDE DEF a, b, c
<1> QED
  BY <1>0, <1>2, <1>4, <1>5, <1>6 DEF InsertsAt

(* A listing of a finite set names each of its elements once.              *)
LEMMA SetToSeqsFacts ==
  ASSUME NEW S, IsFiniteSet(S), NEW s \in SetToSeqs(S)
  PROVE  s \in Seq(S) /\ Len(s) = Cardinality(S) /\ IsInjective(s) /\ ToSet(s) = S
<1> DEFINE D == 1 .. Cardinality(S)
<1>1. Cardinality(S) \in Nat
  BY FS_CardinalityType
<1>2. s \in [D -> S] /\ \A i, j \in D : i # j => s[i] # s[j]
  BY DEF SetToSeqs
<1>3. s \in Seq(S) /\ Len(s) = Cardinality(S)
  BY <1>1, <1>2
<1>4. IsInjective(s)
  BY <1>2 DEF IsInjective
<1>5. s \in Injection(D, S)
  BY <1>2, <1>4 DEF Injection
<1>6. IsFiniteSet(D) /\ Cardinality(D) = Cardinality(S)
  BY <1>1, FS_Interval
<1>7. s \in Surjection(D, S)
  BY <1>5, <1>6, FS_Injection
<1>8. \A x \in S : \E i \in D : s[i] = x
  BY <1>7 DEF Surjection
<1>9. ToSet(s) = S
  BY <1>2, <1>8 DEF ToSet
<1> QED
  BY <1>3, <1>4, <1>9

(* A listing of a set with one more row inserted lists the larger set.     *)
LEMMA ListingWithFacts ==
  ASSUME NEW S, IsFiniteSet(S), NEW s \in SetToSeqs(S), NEW x, x \notin S,
         NEW T, S \union {x} \subseteq T, NEW k \in 1 .. Len(s) + 1
  PROVE  /\ InsertAt(s, k, x) \in Seq(T)
         /\ IsInjective(InsertAt(s, k, x))
         /\ ToSet(InsertAt(s, k, x)) = S \union {x}
<1> DEFINE l == InsertAt(s, k, x)
<1>1. s \in Seq(S) /\ IsInjective(s) /\ ToSet(s) = S
  BY SetToSeqsFacts
<1>2. Len(s) \in Nat /\ DOMAIN s = 1 .. Len(s) /\ \A i \in 1 .. Len(s) : s[i] \in S
  BY <1>1, LenProperties, ElementOfSeq
<1>3. s \in Seq(T) /\ x \in T
  BY <1>1, SeqMonotonic
<1>4. /\ l \in Seq(T)
      /\ Len(l) = Len(s) + 1
      /\ \A i \in 1 .. Len(s) + 1 : l[i] = IF i < k THEN s[i] ELSE IF i = k THEN x ELSE s[i - 1]
  <2>1. InsertsAt(l, T, s, k, x)
    BY <1>3, InsertAtFacts
  <2> QED
    BY <2>1 DEF InsertsAt
<1>5. DOMAIN l = 1 .. Len(s) + 1
  BY <1>2, <1>4, LenProperties
<1> HIDE DEF l
<1>6. k \in 1 .. Len(s) + 1 /\ k \in Int /\ Len(s) \in Int
  BY <1>2
<1>7. IsInjective(l)
  <2> SUFFICES ASSUME NEW i \in DOMAIN l, NEW j \in DOMAIN l, l[i] = l[j] PROVE i = j
    BY DEF IsInjective
  <2>1. \A m \in 1 .. Len(s) + 1 : /\ m < k => m \in 1 .. Len(s) /\ l[m] = s[m]
                                   /\ m = k => l[m] = x
                                   /\ m > k => m - 1 \in 1 .. Len(s) /\ l[m] = s[m - 1]
    BY <1>6, <1>4
  <2>2. \A m, n \in 1 .. Len(s) : s[m] = s[n] => m = n
    BY <1>1, <1>2 DEF IsInjective
  <2>3. \A m \in 1 .. Len(s) : s[m] # x
    BY <1>2
  <2> QED
    BY <1>6, <1>5, <2>1, <2>2, <2>3
<1>8. ToSet(l) = S \union {x}
  <2>1. ToSet(l) \subseteq S \union {x}
    BY <1>6, <1>2, <1>4, <1>5 DEF ToSet
  <2>2. x \in ToSet(l)
    <3>1. k \in DOMAIN l /\ l[k] = x
      BY <1>6, <1>4, <1>5
    <3> QED
      BY <3>1 DEF ToSet
  <2>3. ASSUME NEW y \in S PROVE y \in ToSet(l)
    <3>1. PICK i \in 1 .. Len(s) : s[i] = y
      BY <1>1, <1>2 DEF ToSet
    <3>2. CASE i < k
      <4>1. i \in 1 .. Len(s) + 1 /\ l[i] = s[i]
        BY <1>6, <1>4, <3>2
      <4> QED
        BY <1>5, <3>1, <4>1 DEF ToSet
    <3>3. CASE i >= k
      <4>1. i + 1 \in 1 .. Len(s) + 1 /\ l[i + 1] = s[i]
        BY <1>6, <1>4, <3>3
      <4> QED
        BY <1>5, <3>1, <4>1 DEF ToSet
    <3> QED
      BY <1>6, <3>2, <3>3
  <2> QED
    BY <2>1, <2>2, <2>3
<1> QED
  BY <1>4, <1>7, <1>8 DEF l

(* Rows numbered as a complete listing says have the positions 0, 1, ...   *)
LEMMA NumberingIsGapless ==
  ASSUME NEW S, IsFiniteSet(S), NEW s \in Seq(S), IsInjective(s), ToSet(s) = S,
         S \subseteq DOMAIN pos, pos' = Renumbered(s)
  PROVE  Numbered(S)'
<1> DEFINE D == 1 .. Len(s)
<1>1. Len(s) \in Nat /\ s \in [D -> S] /\ DOMAIN s = D
  BY LenProperties
<1>2. s \in Bijection(D, S)
  BY <1>1 DEF Bijection, Injection, Surjection, ToSet
<1>3. IsFiniteSet(D) /\ Cardinality(D) = Len(s)
  BY <1>1, FS_Interval
<1>4. Cardinality(S) = Len(s)
  BY <1>2, <1>3, FS_Bijection DEF ExistsBijection
<1>5. \A i \in D : pos'[s[i]] = i - 1
  <2> SUFFICES ASSUME NEW i \in D PROVE pos'[s[i]] = i - 1
    OBVIOUS
  <2>1. (CHOOSE j \in DOMAIN s : s[j] = s[i]) = i
    BY <1>1 DEF IsInjective
  <2>2. s[i] \in ToSet(s)
    BY <1>1 DEF ToSet
  <2> QED
    BY <2>1, <2>2 DEF Renumbered
<1>6. \A x \in S : \E i \in D : s[i] = x
  BY <1>1 DEF ToSet
<1>7. {pos'[x] : x \in S} = 0 .. Len(s) - 1
  <2>1. \A x \in S : pos'[x] \in 0 .. Len(s) - 1
    BY <1>1, <1>5, <1>6
  <2>2. \A n \in 0 .. Len(s) - 1 : \E x \in S : pos'[x] = n
    <3> SUFFICES ASSUME NEW n \in 0 .. Len(s) - 1 PROVE \E x \in S : pos'[x] = n
      OBVIOUS
    <3>1. n + 1 \in D /\ n + 1 - 1 = n
      BY <1>1
    <3>2. s[n + 1] \in S
      BY <1>1, <3>1
    <3> QED
      BY <1>5, <3>1, <3>2
  <2> QED
    BY <2>1, <2>2
<1> QED
  BY <1>4, <1>7 DEF Numbered

(* Numbering gives positions to the rows listed and leaves the others.     *)
LEMMA RenumberedFacts ==
  ASSUME TypeOK, NEW s \in Seq(Columns \union Tasks)
  PROVE  /\ Renumbered(s) \in [Columns \union Tasks -> Nat]
         /\ \A x \in Columns \union Tasks : x \notin ToSet(s) => Renumbered(s)[x] = pos[x]
<1>1. DOMAIN pos = Columns \union Tasks /\ \A x \in Columns \union Tasks : pos[x] \in Nat
  BY DEF TypeOK
<1>2. Len(s) \in Nat /\ DOMAIN s = 1 .. Len(s)
  BY LenProperties
<1>3. \A x \in ToSet(s) : (CHOOSE i \in DOMAIN s : s[i] = x) \in 1 .. Len(s)
  BY <1>2 DEF ToSet
<1>4. \A x \in ToSet(s) : (CHOOSE i \in DOMAIN s : s[i] = x) - 1 \in Nat
  BY <1>2, <1>3
<1> QED
  BY <1>1, <1>4 DEF Renumbered

-----------------------------------------------------------------------------
(* Types.                                                                  *)

RowTypes ==
  /\ columns \subseteq Columns /\ first \subseteq Columns /\ retired \subseteq Columns \ columns
  /\ deleted \subseteq tasks /\ hidden \subseteq tasks /\ tasks \subseteq Tasks
  /\ place \in [Tasks -> Places]
  /\ pos \in [Columns \union Tasks -> Nat]

RequestTypes ==
  /\ pc \in [Requests -> Points]
  /\ op \in [Requests -> Operations]
  /\ item \in [Requests -> Columns \union Tasks \union {None}]
  /\ dest \in [Requests -> Columns \union Statuses \union {Stay}]
  /\ copy \in [Requests -> Places]
  /\ count \in [Requests -> Nat]
  /\ order \in [Requests -> Seq(Columns \union Tasks)]

(* The two halves of the type invariant.                                   *)
LEMMA Halves == TypeOK <=> RowTypes /\ RequestTypes
  BY DEF TypeOK, RowTypes, RequestTypes

(* The places that targets name are places.                                *)
LEMMA TargetFacts ==
  /\ Nowhere \in Places /\ Sound(Nowhere)
  /\ \A s \in Statuses : Backlog(s) \in Places /\ Sound(Backlog(s))
  /\ \A c \in Columns : OnColumn(c) \in Places /\ Sound(OnColumn(c))
<1>1. \A s \in Statuses : Backlog(s) \in Places /\ Sound(Backlog(s))
  BY DEF Backlog, Places, Sound
<1>2. (CHOOSE s \in Statuses : TRUE) \in Statuses
  BY BoardsAssumption
<1>3. \A c \in Columns : OnColumn(c) \in Places
  BY BoardsAssumption DEF OnColumn, Places
<1>4. \A c \in Columns : OnColumn(c).column = c /\ c # None
  BY BoardsAssumption DEF OnColumn
<1>5. \A c \in Columns : Sound(OnColumn(c))
  BY <1>4 DEF Sound
<1> QED
  BY <1>1, <1>2, <1>3, <1>5 DEF Nowhere

(* Sets of rows are finite, so that counting them gives a number.          *)
LEMMA Finite ==
  ASSUME TypeOK
  PROVE  /\ \A b : IsFiniteSet(OfBoard(b))
         /\ \A p : IsFiniteSet(At(p))
<1>1. \A b : OfBoard(b) \in SUBSET Columns
  BY DEF OfBoard, TypeOK
<1>2. \A p : At(p) \in SUBSET Tasks
  BY DEF At, Listed, TypeOK
<1> QED
  BY <1>1, <1>2, BoardsAssumption, FS_Subset

-----------------------------------------------------------------------------
(* The inductive invariant.                                                *)

(* The first states satisfy the invariant.                                 *)
LEMMA InitIInv == Init => IInv
<1> SUFFICES ASSUME Init PROVE IInv
  OBVIOUS
<1>1. RowTypes
  <2>1. columns \subseteq Columns /\ tasks \subseteq Tasks
    BY DEF Init
  <2>2. place \in [Tasks -> Places]
    BY <2>1, TargetFacts DEF Init
  <2>3. IsFiniteSet(columns \union tasks)
    BY <2>1, BoardsAssumption, FS_Subset, FS_Union
  <2>4. Cardinality(columns \union tasks) \in Nat
    BY <2>3, FS_CardinalityType
  <2>5. 0 .. Cardinality(columns \union tasks) \subseteq Nat
    BY <2>4
  <2>6. pos \in [Columns \union Tasks -> Nat]
    BY <2>5 DEF Init
  <2> QED
    BY <2>1, <2>2, <2>6 DEF Init, RowTypes
<1>2. RequestTypes
  BY TargetFacts DEF Init, RequestTypes, Points, Operations
<1>3. TypeOK
  BY <1>1, <1>2, Halves
<1>4. Named /\ Drafts /\ FirstStay /\ Complete /\ TaskOrders
  BY DEF Init, Named, Drafts, FirstStay, Complete, TaskOrders
<1>5. SoundPlaces
  <2>1. \A r \in Requests : Sound(copy[r])
    BY TargetFacts DEF Init
  <2>2. ASSUME NEW t \in Tasks PROVE Sound(place[t]) /\ place[t].column \in columns \union {None}
    <3>1. place[t] \in {OnColumn(c) : c \in columns} \union {Backlog(x) : x \in Statuses}
      BY DEF Init
    <3>2. columns \subseteq Columns
      BY DEF Init
    <3>3. \A c \in columns : OnColumn(c).column = c
      BY DEF OnColumn
    <3>4. \A x \in Statuses : Backlog(x).column = None
      BY DEF Backlog
    <3> QED
      BY <3>1, <3>2, <3>3, <3>4, TargetFacts
  <2> QED
    BY <2>1, <2>2 DEF SoundPlaces
<1>6. OneColumnPerStatus
  BY DEF Init, OneColumnPerStatus
<1>7. MovesKeepNumbers
  BY DEF Init, MovesKeepNumbers
<1> QED
  BY <1>3, <1>4, <1>5, <1>6, <1>7 DEF IInv

(* Steps that change no row and leave r on its way.                        *)
LEMMA ReadsKeepIInv ==
  ASSUME IInv, NEW r \in Requests, UNCHANGED rows,
         RequestTypes', Named', Drafts', Sound(copy[r])' , 
         \A q \in Requests \ {r} : /\ op'[q] = op[q] /\ pc'[q] = pc[q] /\ item'[q] = item[q]
                                   /\ copy'[q] = copy[q] /\ order'[q] = order[q],
         op'[r] = "moveColumn" /\ pc'[r] = "write" =>
           IsInjective(order'[r]) /\ ToSet(order'[r]) = OfBoard(ColumnBoard[item'[r]]),
         ~(op'[r] = "moveTask" /\ pc'[r] = "write")
  PROVE  IInv'
<1> USE DEF IInv, rows
<1>1. TypeOK'
  <2>1. RowTypes'
    BY Halves DEF RowTypes
  <2> QED
    BY <2>1 DEF TypeOK, RowTypes, RequestTypes
<1>2. SoundPlaces'
  <2>1. \A q \in Requests \ {r} : Sound(copy[q])'
    BY DEF SoundPlaces, Sound
  <2>2. \A t \in Tasks : (Sound(place[t]) /\ place[t].column \in columns \union {None})'
    BY DEF SoundPlaces, Sound
  <2> QED
    BY <2>1, <2>2 DEF SoundPlaces
<1>3. FirstStay' /\ OneColumnPerStatus' /\ MovesKeepNumbers'
  BY DEF FirstStay, OneColumnPerStatus, MovesKeepNumbers, Numbered, OfBoard
<1>4. Complete' /\ TaskOrders'
  BY DEF Complete, OfBoard, TaskOrders
<1> QED
  BY <1>1, <1>2, <1>3, <1>4

(* What is left of a request that is over.                                 *)
LEMMA AnswerFacts ==
  ASSUME TypeOK, NEW r \in Requests, NEW o \in {"granted", "refused", "lost"}, Answer(r, o)
  PROVE  /\ RequestTypes'
         /\ op'[r] = "none" /\ pc'[r] = o /\ copy'[r] = Nowhere
         /\ \A q \in Requests \ {r} : /\ op'[q] = op[q] /\ pc'[q] = pc[q] /\ item'[q] = item[q]
                                      /\ copy'[q] = copy[q] /\ order'[q] = order[q]
<1>1. order' \in [Requests -> Seq(Columns \union Tasks)]
  BY DEF TypeOK, Answer
<1>2. RequestTypes'
  BY <1>1, TargetFacts DEF Answer, Goto, TypeOK, RequestTypes, Points, Operations
<1> QED
  BY <1>2 DEF Answer, Goto, TypeOK

(* An end without a change.                                                *)
LEMMA EndKeepsIInv ==
  ASSUME IInv, NEW r \in Requests, NEW o \in {"granted", "refused", "lost"},
         Answer(r, o), UNCHANGED rows
  PROVE  IInv'
<1>1. /\ RequestTypes'
      /\ op'[r] = "none" /\ pc'[r] = o /\ copy'[r] = Nowhere
      /\ \A q \in Requests \ {r} : /\ op'[q] = op[q] /\ pc'[q] = pc[q] /\ item'[q] = item[q]
                                   /\ copy'[q] = copy[q] /\ order'[q] = order[q]
  BY AnswerFacts DEF IInv
<1>2. Named' /\ Drafts'
  BY <1>1 DEF IInv, Named, Drafts, rows
<1>3. Sound(copy[r])'
  BY <1>1, TargetFacts DEF Sound, Nowhere, Backlog
<1> QED
  BY <1>1, <1>2, <1>3, ReadsKeepIInv

(* A request to create a column begins.                                    *)
LEMMA CreateColumnReadKeepsIInv ==
  ASSUME IInv, NEW r \in Requests, NEW c \in Columns, CreateColumnRead(r, c)
  PROVE  IInv'
<1> USE DEF Begin, Goto
<1>0. /\ op \in [Requests -> Operations] /\ pc \in [Requests -> Points]
      /\ item \in [Requests -> Columns \union Tasks \union {None}]
      /\ dest \in [Requests -> Columns \union Statuses \union {Stay}]
      /\ copy \in [Requests -> Places] /\ count \in [Requests -> Nat]
      /\ order \in [Requests -> Seq(Columns \union Tasks)]
  BY DEF IInv, TypeOK
<1>1. Cardinality(OfBoard(ColumnBoard[c])) \in Nat
  BY Finite, FS_CardinalityType DEF IInv
<1>2. RequestTypes'
  BY <1>0, <1>1 DEF CreateColumnRead, RequestTypes, Points, Operations
<1>3. Named'
  BY <1>0 DEF CreateColumnRead, Fresh, IInv, Named, rows
<1>4. Drafts'
  BY <1>0 DEF CreateColumnRead, Fresh, IInv, Drafts
<1>5. Sound(copy[r])'
  BY DEF CreateColumnRead, IInv, SoundPlaces, Sound, rows
<1> QED
  BY <1>0, <1>2, <1>3, <1>4, <1>5, ReadsKeepIInv DEF CreateColumnRead

(* A request to move or delete a column begins.                            *)
LEMMA FindColumnKeepsIInv ==
  ASSUME IInv, NEW r \in Requests, NEW c \in Columns, NEW o \in Operations, FindColumn(r, c, o)
  PROVE  IInv'
<1> USE DEF Begin, Goto
<1>0. /\ op \in [Requests -> Operations] /\ pc \in [Requests -> Points]
      /\ item \in [Requests -> Columns \union Tasks \union {None}]
      /\ dest \in [Requests -> Columns \union Statuses \union {Stay}]
      /\ copy \in [Requests -> Places] /\ count \in [Requests -> Nat]
      /\ order \in [Requests -> Seq(Columns \union Tasks)]
  BY DEF IInv, TypeOK
<1>2. RequestTypes'
  BY <1>0 DEF FindColumn, RequestTypes, Points, Operations
<1>3. Named'
  BY <1>0 DEF FindColumn, IInv, Named, rows
<1>4. Drafts'
  BY <1>0 DEF FindColumn, IInv, Drafts
<1>5. Sound(copy[r])'
  BY DEF FindColumn, IInv, SoundPlaces, Sound, rows
<1>6. ~(op'[r] = "moveColumn" /\ pc'[r] = "write")
  BY <1>0 DEF FindColumn
<1> QED
  BY <1>0, <1>2, <1>3, <1>4, <1>5, <1>6, ReadsKeepIInv DEF FindColumn

(* A request to create a task begins.                                      *)
LEMMA ResolvePlacementKeepsIInv ==
  ASSUME IInv, NEW r \in Requests, NEW t \in Tasks, NEW d \in Columns \union Statuses, ResolvePlacement(r, t, d)
  PROVE  IInv'
<1> USE DEF Begin, Goto
<1>0. /\ op \in [Requests -> Operations] /\ pc \in [Requests -> Points]
      /\ item \in [Requests -> Columns \union Tasks \union {None}]
      /\ dest \in [Requests -> Columns \union Statuses \union {Stay}]
      /\ copy \in [Requests -> Places] /\ count \in [Requests -> Nat]
      /\ order \in [Requests -> Seq(Columns \union Tasks)]
  BY DEF IInv, TypeOK
<1>1. d \in Columns \union Statuses
  BY DEF ResolvePlacement, IInv, TypeOK
<1>2. Target(copy[r], d) \in Places /\ Sound(Target(copy[r], d))
  BY <1>1, TargetFacts, BoardsAssumption DEF Target
<1>3. copy' = [copy EXCEPT ![r] = Target(copy[r], d)]
  BY DEF ResolvePlacement
<1>4. RequestTypes'
  BY <1>0, <1>2, <1>3 DEF ResolvePlacement, RequestTypes, Points, Operations
<1>5. Named'
  BY <1>0 DEF ResolvePlacement, IInv, Named, rows
<1>6. Drafts'
  BY <1>0 DEF ResolvePlacement, IInv, Drafts
<1>7. Sound(copy[r])'
  BY <1>0, <1>2, <1>3 DEF ResolvePlacement, Sound, rows
<1> QED
  BY <1>0, <1>3, <1>4, <1>5, <1>6, <1>7, ReadsKeepIInv DEF ResolvePlacement

(* A request about a task begins.                                          *)
LEMMA FindTaskKeepsIInv ==
  ASSUME IInv, NEW r \in Requests, NEW t \in Tasks, NEW o \in Operations,
         NEW d \in Columns \union Statuses \union {Stay}, FindTask(r, t, o, d)
  PROVE  IInv'
<1> USE DEF Begin, Goto
<1>0. /\ op \in [Requests -> Operations] /\ pc \in [Requests -> Points]
      /\ item \in [Requests -> Columns \union Tasks \union {None}]
      /\ dest \in [Requests -> Columns \union Statuses \union {Stay}]
      /\ copy \in [Requests -> Places] /\ count \in [Requests -> Nat]
      /\ order \in [Requests -> Seq(Columns \union Tasks)]
  BY DEF IInv, TypeOK
<1>2. RequestTypes'
  BY <1>0 DEF FindTask, RequestTypes, Points, Operations
<1>3. Named'
  BY <1>0 DEF FindTask, IInv, Named, rows
<1>4. Drafts'
  BY <1>0 DEF FindTask, IInv, Drafts
<1>5. Sound(copy[r])'
  BY DEF FindTask, IInv, SoundPlaces, Sound, rows
<1> QED
  BY <1>0, <1>2, <1>3, <1>4, <1>5, ReadsKeepIInv DEF FindTask

(* The order a move is going to write names each sibling and the row once. *)
LEMMA OrderFacts ==
  ASSUME IInv, NEW r \in Requests, OrderSiblings(r)
  PROVE  /\ order'[r] \in Seq(Columns \union Tasks)
         /\ op[r] = "moveColumn" /\ item[r] \in columns =>
              IsInjective(order'[r]) /\ ToSet(order'[r]) = OfBoard(ColumnBoard[item[r]])
         /\ op[r] = "moveTask" => ToSet(order'[r]) \subseteq Tasks
<1>0. op[r] \in {"moveColumn", "moveTask"} /\ item[r] \in Columns \union Tasks
  BY DEF OrderSiblings, IInv, Named
<1>1. PICK s \in Sorted(Siblings(r)) : \E k \in 1 .. Len(s) + 1 :
        order' = [order EXCEPT ![r] = InsertAt(s, k, item[r])]
  BY DEF OrderSiblings
<1>2. PICK k \in 1 .. Len(s) + 1 : order' = [order EXCEPT ![r] = InsertAt(s, k, item[r])]
  BY <1>1
<1> DEFINE S == Siblings(r)
<1>3. IsFiniteSet(S) /\ S \subseteq Columns \union Tasks /\ item[r] \notin S
  <2>1. S \subseteq OfBoard(ColumnBoard[item[r]]) \/ S \subseteq At(copy[r])
    BY DEF Siblings
  <2>2. IsFiniteSet(OfBoard(ColumnBoard[item[r]])) /\ IsFiniteSet(At(copy[r]))
    BY Finite DEF IInv
  <2>3. IsFiniteSet(S)
    BY <2>1, <2>2, FS_Subset
  <2>4. OfBoard(ColumnBoard[item[r]]) \subseteq Columns /\ At(copy[r]) \subseteq Tasks
    BY DEF OfBoard, At, Listed, IInv, TypeOK
  <2>5. item[r] \notin S
    BY DEF Siblings
  <2> QED
    BY <2>1, <2>3, <2>4, <2>5
<1>4. s \in SetToSeqs(S)
  BY <1>1 DEF Sorted
<1>5. S \union {item[r]} \subseteq Columns \union Tasks
  BY <1>0, <1>3
<1>6. r \in DOMAIN order
  BY DEF IInv, TypeOK
<1>7. order'[r] = InsertAt(s, k, item[r])
  BY <1>2, <1>6
<1> HIDE DEF S
<1>8. /\ InsertAt(s, k, item[r]) \in Seq(Columns \union Tasks)
      /\ IsInjective(InsertAt(s, k, item[r]))
      /\ ToSet(InsertAt(s, k, item[r])) = S \union {item[r]}
  BY <1>2, <1>3, <1>4, <1>5, ListingWithFacts
<1>9. op[r] = "moveColumn" /\ item[r] \in columns =>
        S \union {item[r]} = OfBoard(ColumnBoard[item[r]])
  BY DEF S, Siblings, OfBoard
<1>10. op[r] = "moveTask" => S \union {item[r]} \subseteq Tasks
  BY DEF S, Siblings, At, Listed, IInv, TypeOK, Named
<1> QED
  BY <1>7, <1>8, <1>9, <1>10

(* The reads of a request under way.                                       *)
LEMMA LookupsKeepIInv ==
  ASSUME IInv, NEW r \in Requests,
         OrderSiblings(r) \/ CountTasks(r) \/ ReadTask(r) \/ ReadColumn(r)
  PROVE  IInv'
<1> USE DEF Goto, Doing
<1>0. /\ op \in [Requests -> Operations] /\ pc \in [Requests -> Points]
      /\ item \in [Requests -> Columns \union Tasks \union {None}]
      /\ dest \in [Requests -> Columns \union Statuses \union {Stay}]
      /\ copy \in [Requests -> Places] /\ count \in [Requests -> Nat]
      /\ order \in [Requests -> Seq(Columns \union Tasks)]
  BY DEF IInv, TypeOK
<1>1. CASE OrderSiblings(r)
  <2>1. \A q \in Requests : order'[q] = IF q = r THEN order'[r] ELSE order[q]
    BY <1>0, <1>1 DEF OrderSiblings
  <2>2. order' \in [Requests -> Seq(Columns \union Tasks)]
    BY <1>0, <1>1, <2>1, OrderFacts DEF OrderSiblings
  <2>3. TypeOK'
    BY <1>1, <2>2 DEF OrderSiblings, rows, IInv, TypeOK, Points
  <2>4. Named' /\ Drafts'
    BY <1>0, <1>1 DEF OrderSiblings, rows, IInv, Named, Drafts
  <2>5. SoundPlaces' /\ FirstStay' /\ OneColumnPerStatus' /\ MovesKeepNumbers'
    <3>1. UNCHANGED <<columns, retired, first, place, pos, copy>>
      BY <1>1 DEF OrderSiblings, rows
    <3>2. SoundPlaces'
      BY <3>1 DEF IInv, SoundPlaces, Sound
    <3>3. FirstStay' /\ OneColumnPerStatus'
      BY <3>1 DEF IInv, FirstStay, OneColumnPerStatus
    <3>4. MovesKeepNumbers'
      BY <3>1 DEF IInv, MovesKeepNumbers, Numbered, OfBoard
    <3> QED
      BY <3>2, <3>3, <3>4
  <2>6. Complete'
    <3> SUFFICES ASSUME NEW q \in Requests, op[q] = "moveColumn", pc'[q] = "write",
                        columns = first, retired = {}
                 PROVE  /\ IsInjective(order'[q])
                        /\ ToSet(order'[q]) = OfBoard(ColumnBoard[item[q]])
      BY <1>1 DEF OrderSiblings, rows, Complete, OfBoard
    <3>1. CASE q # r
      BY <1>0, <1>1, <2>1, <3>1 DEF OrderSiblings, IInv, Complete
    <3>2. CASE q = r /\ item[r] \in columns
      BY <1>1, <3>2, OrderFacts
    <3>3. CASE q = r /\ item[r] \notin columns
      BY <3>3 DEF IInv, Named
    <3> QED
      BY <3>1, <3>2, <3>3
  <2>7. TaskOrders'
    BY <1>0, <1>1, <2>1, OrderFacts DEF OrderSiblings, IInv, TaskOrders
  <2> QED
    BY <2>3, <2>4, <2>5, <2>6, <2>7 DEF IInv
<1>2. CASE CountTasks(r)
  <2>1. Cardinality(At(copy[r])) \in Nat
    BY Finite, FS_CardinalityType DEF IInv
  <2>2. RequestTypes'
    BY <1>0, <1>2, <2>1 DEF CountTasks, RequestTypes, Points
  <2>3. Named' /\ Drafts'
    BY <1>0, <1>2 DEF CountTasks, rows, IInv, Named, Drafts
  <2>4. Sound(copy[r])'
    BY <1>2 DEF CountTasks, IInv, SoundPlaces, Sound, rows
  <2> QED
    BY <1>0, <1>2, <2>2, <2>3, <2>4, ReadsKeepIInv DEF CountTasks
<1>3. CASE ReadTask(r)
  <2>1. item[r] \in Tasks /\ place[item[r]] \in Places /\ Sound(place[item[r]])
    BY <1>3 DEF ReadTask, IInv, Named, TypeOK, SoundPlaces
  <2>2. Target(place[item[r]], dest[r]) \in Places /\ Sound(Target(place[item[r]], dest[r]))
    BY <1>0, <2>1, TargetFacts, BoardsAssumption DEF Target
  <2>3. copy' = [copy EXCEPT ![r] = Target(place[item[r]], dest[r])]
    BY <1>3 DEF ReadTask
  <2>4. RequestTypes'
    BY <1>0, <1>3, <2>2, <2>3 DEF ReadTask, RequestTypes, Points
  <2>5. Named' /\ Drafts'
    BY <1>0, <1>3 DEF ReadTask, rows, IInv, Named, Drafts
  <2>6. Sound(copy[r])'
    BY <1>0, <1>3, <2>2, <2>3 DEF ReadTask, Sound, rows
  <2> QED
    BY <1>0, <1>3, <2>3, <2>4, <2>5, <2>6, ReadsKeepIInv DEF ReadTask
<1>4. CASE ReadColumn(r)
  <2>1. CASE Goto(r, "siblings") /\ UNCHANGED request
    <3>1. RequestTypes'
      BY <1>0, <2>1 DEF request, RequestTypes, Points
    <3>2. Named' /\ Drafts'
      BY <1>0, <1>4, <2>1 DEF ReadColumn, request, rows, IInv, Named, Drafts
    <3>3. Sound(copy[r])'
      BY <1>4, <2>1 DEF ReadColumn, request, IInv, SoundPlaces, Sound, rows
    <3> QED
      BY <1>0, <1>4, <2>1, <3>1, <3>2, <3>3, ReadsKeepIInv DEF ReadColumn, request
  <2>2. CASE Answer(r, "granted")
    BY <1>4, <2>2, EndKeepsIInv DEF ReadColumn
  <2> QED
    BY <1>4, <2>1, <2>2 DEF ReadColumn
<1> QED
  BY <1>1, <1>2, <1>3, <1>4

(* A column appears.                                                       *)
LEMMA CreateColumnKeepsIInv ==
  ASSUME IInv, NEW r \in Requests, CreateColumn(r)
  PROVE  IInv'
<1>1. CASE IndexRefuses(item[r])
  BY <1>1, EndKeepsIInv DEF CreateColumn, Refuse
<1>2. CASE ~IndexRefuses(item[r])
  <2> DEFINE c == item[r]
  <2>0. /\ columns' = columns \union {c} /\ pos' = [pos EXCEPT ![c] = count[r]]
        /\ Answer(r, "granted")
        /\ UNCHANGED <<retired, first, tasks, hidden, deleted, place>>
        /\ ~Taken(c)
    BY <1>2 DEF CreateColumn, IndexRefuses
  <2>1. /\ RequestTypes'
        /\ op'[r] = "none" /\ pc'[r] = "granted" /\ copy'[r] = Nowhere
        /\ \A q \in Requests \ {r} : /\ op'[q] = op[q] /\ pc'[q] = pc[q] /\ item'[q] = item[q]
                                     /\ copy'[q] = copy[q] /\ order'[q] = order[q]
    BY <2>0, AnswerFacts DEF IInv
  <2>2. c \in Columns /\ c \notin columns \union retired /\ op[r] = "createColumn"
    BY DEF CreateColumn, Doing, IInv, Named
  <2>3. TypeOK'
    <3>1. RowTypes'
      BY <2>0, <2>2 DEF IInv, TypeOK, RowTypes
    <3> QED
      BY <2>1, <3>1 DEF RowTypes, RequestTypes, TypeOK
  <2>4. Named'
    BY <2>0, <2>1, <2>2 DEF IInv, Named, Drafts
  <2>5. Drafts'
    BY <2>1 DEF IInv, Drafts
  <2>6. SoundPlaces'
    <3>1. Sound(Nowhere)'
      BY TargetFacts DEF Sound, Nowhere, Backlog
    <3> QED
      BY <2>0, <2>1, <3>1 DEF IInv, SoundPlaces, Sound
  <2>7. FirstStay'
    BY <2>0 DEF IInv, FirstStay
  <2>8. ~(columns' = first' /\ retired' = {})
    BY <2>0, <2>2 DEF IInv, FirstStay
  <2>9. Complete' /\ MovesKeepNumbers' /\ TaskOrders'
    BY <2>1, <2>8 DEF Complete, MovesKeepNumbers, IInv, TaskOrders
  <2>10. OneColumnPerStatus'
    BY <2>0, <2>2 DEF IInv, OneColumnPerStatus, Taken, OfBoard
  <2> QED
    BY <2>3, <2>4, <2>5, <2>6, <2>7, <2>9, <2>10 DEF IInv
<1> QED
  BY <1>1, <1>2

(* A column goes, and the tasks in it lose it.                             *)
LEMMA DeleteColumnKeepsIInv ==
  ASSUME IInv, NEW r \in Requests, DeleteColumn(r)
  PROVE  IInv'
<1>1. CASE item[r] \notin columns
  BY <1>1, EndKeepsIInv DEF DeleteColumn, Refuse
<1>2. CASE item[r] \in columns
  <2> DEFINE c == item[r]
  <2>0. /\ columns' = columns \ {c} /\ retired' = retired \union {c}
        /\ place' = WithoutColumn(c) /\ Answer(r, "granted")
        /\ UNCHANGED <<first, tasks, hidden, deleted, pos>>
    BY <1>2 DEF DeleteColumn
  <2>1. /\ RequestTypes'
        /\ op'[r] = "none" /\ pc'[r] = "granted" /\ copy'[r] = Nowhere
        /\ \A q \in Requests \ {r} : /\ op'[q] = op[q] /\ pc'[q] = pc[q] /\ item'[q] = item[q]
                                     /\ copy'[q] = copy[q] /\ order'[q] = order[q]
    BY <2>0, AnswerFacts DEF IInv
  <2>2. c \in Columns /\ c # None
    BY <1>2, BoardsAssumption DEF IInv, TypeOK
  <2>3. \A t \in Tasks :
          place'[t] = IF place[t].column = c THEN [place[t] EXCEPT !.column = None] ELSE place[t]
    BY <2>0 DEF WithoutColumn
  <2>4. place' \in [Tasks -> Places]
    <3>1. \A t \in Tasks : [place[t] EXCEPT !.column = None] \in Places
      BY DEF IInv, TypeOK, Places
    <3>2. \A t \in Tasks : place[t] \in Places
      BY DEF IInv, TypeOK
    <3> QED
      BY <2>0, <3>1, <3>2 DEF WithoutColumn
  <2>5. TypeOK'
    <3>1. RowTypes'
      BY <1>2, <2>0, <2>4 DEF IInv, TypeOK, RowTypes
    <3> QED
      BY <2>1, <3>1 DEF RowTypes, RequestTypes, TypeOK
  <2>6. Named'
    BY <1>2, <2>0, <2>1 DEF IInv, Named
  <2>7. Drafts'
    BY <2>1 DEF IInv, Drafts
  <2>8. SoundPlaces'
    <3>1. \A p : Sound(p) => Sound(p)'
      BY <2>0 DEF Sound
    <3>2. ASSUME NEW t \in Tasks PROVE (Sound(place[t]) /\ place[t].column \in columns \union {None})'
      <4>0. place[t] \in Places /\ Sound(place[t]) /\ place[t].column \in columns \union {None}
        BY DEF IInv, TypeOK, SoundPlaces
      <4>1. CASE place[t].column # c
        <5>1. place'[t] = place[t]
          BY <2>3, <4>1
        <5>2. place[t].column \in columns' \union {None}
          BY <2>0, <4>0, <4>1
        <5>3. Sound(place[t])'
          BY <2>0, <4>0, <5>1 DEF Sound
        <5> QED
          BY <5>1, <5>2, <5>3
      <4>2. CASE place[t].column = c
        <5>1. place'[t] = [place[t] EXCEPT !.column = None] /\ place[t] = OnColumn(c)
          BY <2>2, <2>3, <4>0, <4>2 DEF Sound
        <5>2. place'[t].column = None
          BY <4>0, <5>1 DEF Places
        <5>3. Sound(place[t])'
          BY <2>0, <5>1, <5>2 DEF Sound
        <5> QED
          BY <5>2, <5>3
      <4> QED
        BY <4>1, <4>2
    <3>3. ASSUME NEW q \in Requests PROVE Sound(copy[q])'
      <4>1. CASE q = r
        BY <2>1, <4>1, TargetFacts DEF Sound, Nowhere, Backlog
      <4>2. CASE q # r
        BY <2>0, <2>1, <4>2 DEF IInv, SoundPlaces, Sound
      <4> QED
        BY <4>1, <4>2
    <3> QED
      BY <3>2, <3>3 DEF SoundPlaces
  <2>9. FirstStay'
    BY <2>0 DEF IInv, FirstStay
  <2>10. Complete' /\ MovesKeepNumbers' /\ TaskOrders'
    BY <2>0, <2>1 DEF Complete, MovesKeepNumbers, IInv, TaskOrders
  <2>11. OneColumnPerStatus'
    BY <2>0 DEF IInv, OneColumnPerStatus
  <2> QED
    BY <2>5, <2>6, <2>7, <2>8, <2>9, <2>10, <2>11 DEF IInv
<1> QED
  BY <1>1, <1>2

(* The columns of a board get new positions.                               *)
LEMMA MoveColumnKeepsIInv ==
  ASSUME IInv, NEW r \in Requests, MoveColumn(r)
  PROVE  IInv'
<1>1. CASE ~(ToSet(order[r]) \subseteq columns)
  BY <1>1, EndKeepsIInv DEF MoveColumn, Refuse
<1>2. CASE ToSet(order[r]) \subseteq columns
  <2>0. /\ pos' = Renumbered(order[r]) /\ Answer(r, "granted")
        /\ UNCHANGED <<columns, retired, first, tasks, hidden, deleted, place>>
    BY <1>2 DEF MoveColumn
  <2>1. /\ RequestTypes'
        /\ op'[r] = "none" /\ pc'[r] = "granted" /\ copy'[r] = Nowhere
        /\ \A q \in Requests \ {r} : /\ op'[q] = op[q] /\ pc'[q] = pc[q] /\ item'[q] = item[q]
                                     /\ copy'[q] = copy[q] /\ order'[q] = order[q]
    BY <2>0, AnswerFacts DEF IInv
  <2>2. order[r] \in Seq(Columns \union Tasks)
    BY DEF IInv, TypeOK
  <2>3. /\ pos' \in [Columns \union Tasks -> Nat]
        /\ \A x \in Columns \union Tasks : x \notin ToSet(order[r]) => pos'[x] = pos[x]
    BY <2>0, <2>2, RenumberedFacts DEF IInv
  <2>4. TypeOK'
    <3>1. RowTypes'
      BY <2>0, <2>3 DEF IInv, TypeOK, RowTypes
    <3> QED
      BY <2>1, <3>1 DEF RowTypes, RequestTypes, TypeOK
  <2>5. Named' /\ Drafts'
    BY <2>0, <2>1 DEF IInv, Named, Drafts
  <2>6. SoundPlaces'
    <3>1. Sound(Nowhere)'
      BY TargetFacts DEF Sound, Nowhere, Backlog
    <3> QED
      BY <2>0, <2>1, <3>1 DEF IInv, SoundPlaces, Sound
  <2>7. FirstStay' /\ OneColumnPerStatus' /\ Complete' /\ TaskOrders'
    BY <2>0, <2>1 DEF IInv, FirstStay, OneColumnPerStatus, Complete, OfBoard, TaskOrders
  <2>8. MovesKeepNumbers'
    <3> SUFFICES ASSUME columns = first, retired = {}, NEW b \in Boards PROVE Numbered(OfBoard(b))'
      BY <2>0 DEF MovesKeepNumbers
    <3> DEFINE S == OfBoard(b)
    <3>1. IsInjective(order[r]) /\ ToSet(order[r]) = OfBoard(ColumnBoard[item[r]])
      BY DEF MoveColumn, Doing, IInv, Complete
    <3>2. OfBoard(b)' = S /\ S \subseteq Columns
      BY <2>0 DEF OfBoard, IInv, TypeOK
    <3>3. CASE b = ColumnBoard[item[r]]
      <4>1. ToSet(order[r]) = S /\ IsFiniteSet(S)
        BY <3>1, <3>3, Finite DEF IInv
      <4>2. order[r] \in Seq(S)
        <5>1. order[r] \in [1 .. Len(order[r]) -> Columns \union Tasks] /\ Len(order[r]) \in Nat
          BY <2>2, LenProperties
        <5>2. \A i \in 1 .. Len(order[r]) : order[r][i] \in S
          BY <4>1, <5>1 DEF ToSet
        <5> HIDE DEF S
        <5> QED
          BY <5>1, <5>2
      <4>3. S \subseteq DOMAIN pos
        BY <3>2 DEF IInv, TypeOK
      <4> HIDE DEF S
      <4>4. {pos'[x] : x \in S} = 0 .. Cardinality(S) - 1
        BY <2>0, <3>1, <4>1, <4>2, <4>3, NumberingIsGapless DEF Numbered
      <4> QED
        BY <3>2, <4>4 DEF Numbered
    <3>4. CASE b # ColumnBoard[item[r]]
      <4>1. \A x \in S : x \notin ToSet(order[r])
        BY <3>1, <3>4 DEF OfBoard
      <4>2. \A x \in S : pos'[x] = pos[x]
        BY <2>3, <3>2, <4>1
      <4>3. {pos[x] : x \in S} = 0 .. Cardinality(S) - 1
        BY DEF IInv, MovesKeepNumbers, Numbered
      <4> HIDE DEF S
      <4>4. {pos'[x] : x \in S} = 0 .. Cardinality(S) - 1
        BY <4>2, <4>3
      <4> QED
        BY <3>2, <4>4 DEF Numbered
    <3> QED
      BY <3>3, <3>4
  <2> QED
    BY <2>4, <2>5, <2>6, <2>7, <2>8 DEF IInv
<1> QED
  BY <1>1, <1>2

(* A task appears, or goes to another place.                               *)
LEMMA PlacingKeepsIInv ==
  ASSUME IInv, NEW r \in Requests, CreateTask(r) \/ MoveTask(r)
  PROVE  IInv'
<1> DEFINE t == item[r]
<1>1. CASE ~Refers(copy[r])
  BY <1>1, EndKeepsIInv DEF CreateTask, MoveTask, Refuse
<1>2. CASE Refers(copy[r])
  <2>0. /\ place' = [place EXCEPT ![t] = copy[r]] /\ Answer(r, "granted")
        /\ UNCHANGED <<columns, retired, first, hidden, deleted>>
        /\ tasks' \in {tasks, tasks \union {t}}
    BY <1>2 DEF CreateTask, MoveTask
  <2>1. /\ RequestTypes'
        /\ op'[r] = "none" /\ pc'[r] = "granted" /\ copy'[r] = Nowhere
        /\ \A q \in Requests \ {r} : /\ op'[q] = op[q] /\ pc'[q] = pc[q] /\ item'[q] = item[q]
                                     /\ copy'[q] = copy[q] /\ order'[q] = order[q]
    BY <2>0, AnswerFacts DEF IInv
  <2>2. t \in Tasks
    BY DEF CreateTask, MoveTask, Doing, IInv, Named
  <2>3. pos' \in [Columns \union Tasks -> Nat]
    <3>1. CASE CreateTask(r)
      BY <1>2, <2>2, <3>1 DEF CreateTask, IInv, TypeOK
    <3>2. CASE MoveTask(r)
      BY <1>2, <3>2, RenumberedFacts DEF MoveTask, IInv, TypeOK
    <3> QED
      BY <3>1, <3>2
  <2>4. TypeOK'
    <3>1. RowTypes'
      BY <2>0, <2>2, <2>3 DEF IInv, TypeOK, RowTypes
    <3> QED
      BY <2>1, <3>1 DEF RowTypes, RequestTypes, TypeOK
  <2>5. Named' /\ Drafts'
    BY <2>0, <2>1 DEF IInv, Named, Drafts
  <2>6. SoundPlaces'
    <3>1. Sound(Nowhere)'
      BY TargetFacts DEF Sound, Nowhere, Backlog
    <3>2. \A q \in Requests : Sound(copy[q])'
      BY <2>0, <2>1, <3>1 DEF IInv, SoundPlaces, Sound
    <3>3. ASSUME NEW u \in Tasks PROVE (Sound(place[u]) /\ place[u].column \in columns \union {None})'
      <4>1. place'[u] = IF u = t THEN copy[r] ELSE place[u]
        BY <2>0, <2>2 DEF IInv, TypeOK
      <4>2. Sound(copy[r]) /\ copy[r].column \in columns \union {None}
        BY <1>2 DEF IInv, SoundPlaces, Refers
      <4> QED
        BY <2>0, <4>1, <4>2 DEF IInv, SoundPlaces, Sound
    <3> QED
      BY <3>2, <3>3 DEF SoundPlaces
  <2>7. FirstStay' /\ OneColumnPerStatus' /\ Complete' /\ TaskOrders'
    BY <2>0, <2>1 DEF IInv, FirstStay, OneColumnPerStatus, Complete, OfBoard, TaskOrders
  <2>8. MovesKeepNumbers'
    <3>1. ASSUME NEW c \in Columns PROVE pos'[c] = pos[c]
      <4>1. CASE CreateTask(r)
        BY <1>2, <2>2, <4>1, BoardsAssumption DEF CreateTask, IInv, TypeOK
      <4>2. CASE MoveTask(r)
        <5>1. ToSet(order[r]) \subseteq Tasks
          BY <4>2 DEF MoveTask, Doing, IInv, TaskOrders
        <5> QED
          BY <1>2, <4>2, <5>1, RenumberedFacts, BoardsAssumption DEF MoveTask, IInv, TypeOK
      <4> QED
        BY <4>1, <4>2
    <3> SUFFICES ASSUME columns = first, retired = {}, NEW b \in Boards PROVE Numbered(OfBoard(b))'
      BY <2>0 DEF MovesKeepNumbers
    <3> DEFINE S == OfBoard(b)
    <3>2. OfBoard(b)' = S /\ S \subseteq Columns
      BY <2>0 DEF OfBoard, IInv, TypeOK
    <3>3. {pos[x] : x \in S} = 0 .. Cardinality(S) - 1
      BY DEF IInv, MovesKeepNumbers, Numbered
    <3> HIDE DEF S
    <3>4. {pos'[x] : x \in S} = 0 .. Cardinality(S) - 1
      BY <3>1, <3>2, <3>3
    <3> QED
      BY <3>2, <3>4 DEF Numbered
  <2> QED
    BY <2>4, <2>5, <2>6, <2>7, <2>8 DEF IInv
<1> QED
  BY <1>1, <1>2

(* A task is archived, restored or deleted.                                *)
LEMMA ChangeTaskKeepsIInv ==
  ASSUME IInv, NEW r \in Requests, ChangeTask(r)
  PROVE  IInv'
<1>0. /\ Answer(r, "granted") /\ item[r] \in tasks
      /\ UNCHANGED <<columns, retired, first, tasks, place, pos>>
  BY DEF ChangeTask, IInv, Named
<1>1. /\ RequestTypes'
      /\ op'[r] = "none" /\ pc'[r] = "granted" /\ copy'[r] = Nowhere
      /\ \A q \in Requests \ {r} : /\ op'[q] = op[q] /\ pc'[q] = pc[q] /\ item'[q] = item[q]
                                   /\ copy'[q] = copy[q] /\ order'[q] = order[q]
  BY <1>0, AnswerFacts DEF IInv
<1>2. hidden' \subseteq tasks /\ deleted' \subseteq tasks
  BY <1>0 DEF ChangeTask, IInv, TypeOK
<1>3. TypeOK'
  <2>1. RowTypes'
    BY <1>0, <1>2 DEF IInv, TypeOK, RowTypes
  <2> QED
    BY <1>1, <2>1 DEF RowTypes, RequestTypes, TypeOK
<1>4. Named' /\ Drafts'
  BY <1>0, <1>1 DEF IInv, Named, Drafts
<1>5. SoundPlaces'
  <2>1. Sound(Nowhere)'
    BY TargetFacts DEF Sound, Nowhere, Backlog
  <2> QED
    BY <1>0, <1>1, <2>1 DEF IInv, SoundPlaces, Sound
<1>6. FirstStay' /\ OneColumnPerStatus' /\ Complete' /\ MovesKeepNumbers' /\ TaskOrders'
  BY <1>0, <1>1 DEF IInv, FirstStay, OneColumnPerStatus, Complete, OfBoard, MovesKeepNumbers, Numbered,
                    TaskOrders
<1> QED
  BY <1>3, <1>4, <1>5, <1>6 DEF IInv

(* Every step keeps the invariant.                                         *)
LEMMA NextKeepsIInv ==
  ASSUME IInv, [Next]_vars
  PROVE  IInv'
<1>1. CASE UNCHANGED vars
  <2> USE <1>1 DEF vars, IInv
  <2>1. TypeOK'
    BY DEF TypeOK
  <2>2. Named' /\ Drafts' /\ FirstStay' /\ TaskOrders' /\ OneColumnPerStatus'
    BY DEF Named, Drafts, FirstStay, TaskOrders, OneColumnPerStatus
  <2>3. SoundPlaces'
    BY DEF SoundPlaces, Sound
  <2>4. Complete' /\ MovesKeepNumbers'
    BY DEF Complete, MovesKeepNumbers, Numbered, OfBoard
  <2> QED
    BY <2>1, <2>2, <2>3, <2>4
<1>2. ASSUME NEW r \in Requests, NEW c \in Columns, NEW o \in Operations, FindColumn(r, c, o)
      PROVE  IInv'
  BY <1>2, FindColumnKeepsIInv
<1>3. ASSUME NEW r \in Requests, NEW c \in Columns, CreateColumnRead(r, c)
      PROVE  IInv'
  BY <1>3, CreateColumnReadKeepsIInv
<1>4. ASSUME NEW r \in Requests, NEW t \in Tasks, NEW d \in Columns \union Statuses,
             ResolvePlacement(r, t, d)
      PROVE  IInv'
  BY <1>4, ResolvePlacementKeepsIInv
<1>5. ASSUME NEW r \in Requests, NEW t \in Tasks, NEW o \in Operations,
             NEW d \in Columns \union Statuses \union {Stay}, FindTask(r, t, o, d)
      PROVE  IInv'
  BY <1>5, FindTaskKeepsIInv
<1>6. ASSUME NEW r \in Requests, Advance(r)
      PROVE  IInv'
  BY <1>6, CreateColumnKeepsIInv, DeleteColumnKeepsIInv, MoveColumnKeepsIInv, LookupsKeepIInv,
     PlacingKeepsIInv, ChangeTaskKeepsIInv DEF Advance
<1>7. ASSUME NEW r \in Requests, Fail(r)
      PROVE  IInv'
  BY <1>7, EndKeepsIInv DEF Fail
<1> QED
  BY <1>1, <1>2, <1>3, <1>4, <1>5, <1>6, <1>7 DEF Next

(* The invariant holds in every state: types, places of tasks, the columns *)
(* of a board and their numbering, and what requests under way have read.  *)
THEOREM Invariance == Spec => []IInv
<1>1. IInv /\ [Next]_vars => IInv'
  BY NextKeepsIInv
<1> QED
  BY <1>1, InitIInv, PTL DEF Spec

(* However creations, moves and the deletion of columns race, a task is on *)
(* a column that exists, with its board and status, or lost it with it.    *)
THEOREM Placement == Spec => []Placed
<1>1. IInv => Placed
  BY DEF IInv, TypeOK, SoundPlaces, Sound, Placed
<1> QED
  BY <1>1, Invariance, PTL

(* No two columns of a board show one status.                              *)
THEOREM OneColumn == Spec => []OneColumnPerStatus
<1>1. IInv => OneColumnPerStatus
  BY DEF IInv
<1> QED
  BY <1>1, Invariance, PTL

(* Concurrent moves of the columns of a board that keeps them all leave    *)
(* them numbered without gaps or ties.                                     *)
THEOREM Numbering == Spec => []MovesKeepNumbers
<1>1. IInv => MovesKeepNumbers
  BY DEF IInv
<1> QED
  BY <1>1, Invariance, PTL

(* Boards, columns, tasks and requests stay within their types.            *)
THEOREM Typing == Spec => []TypeOK
<1>1. IInv => TypeOK
  BY DEF IInv
<1> QED
  BY <1>1, Invariance, PTL

-----------------------------------------------------------------------------
(* Sums over finite sets. The library's induction theorems are stated for  *)
(* an operator; the well-foundedness of inclusion they rest on is not, and *)
(* yields a smallest counterexample.                                       *)

(* Among finite sets there is one with none of the others inside.          *)
LEMMA SmallestSet ==
  ASSUME NEW T, T # {}, \A X \in T : IsFiniteSet(X)
  PROVE  \E X \in T : \A Y \in T : Y \subseteq X => Y = X
<1> DEFINE S == UNION T
           R == StrictSubsetOrdering(S)
<1>1. T \subseteq FiniteSubsetsOf(S)
  BY DEF FiniteSubsetsOf
<1>2. IsWellFoundedOn(R, FiniteSubsetsOf(S))
  BY FS_StrictSubsetOrderingWellFounded
<1> HIDE DEF R
<1>3. PICK X \in T : \A Y \in T : ~ (<<Y, X>> \in R)
  BY <1>1, <1>2, WFMin
<1>4. ASSUME NEW Y \in T, Y \subseteq X PROVE Y = X
  <2> SUFFICES ASSUME Y # X PROVE <<Y, X>> \in R
    BY <1>3
  <2> QED
    BY <1>4 DEF R, StrictSubsetOrdering
<1> QED
  BY <1>4

(* g adds up f over the subsets of S, one chosen element after another, as *)
(* MapThenSumSet does.                                                     *)
Chosen(s) == CHOOSE x \in s : TRUE
Adds(g, f, S) ==
  g = [s \in SUBSET S |-> IF s = {} THEN 0 ELSE f[Chosen(s)] + g[s \ {Chosen(s)}]]
Total(f, S) == (CHOOSE g : Adds(g, f, S))[S]

(* Taking an element out leaves a smaller set.                             *)
LEMMA WithoutChosen ==
  ASSUME NEW S, S # {}
  PROVE  /\ Chosen(S) \in S
         /\ S \ {Chosen(S)} \subseteq S /\ S \ {Chosen(S)} # S
  BY DEF Chosen

(* What g has for a subset, from what it has for the one without the      *)
(* chosen element.                                                         *)
LEMMA AddsAt ==
  ASSUME NEW f, NEW g, NEW S, Adds(g, f, S), NEW X, X \subseteq S
  PROVE  g[X] = IF X = {} THEN 0 ELSE f[Chosen(X)] + g[X \ {Chosen(X)}]
<1>1. X \in SUBSET S
  OBVIOUS
<1> QED
  BY <1>1, Zenon DEF Adds

(* What is added up for a finite set does not depend on the sets around it.*)
LEMMA AddsOnce ==
  ASSUME NEW f, NEW g, NEW h, NEW S, NEW T, Adds(g, f, S), Adds(h, f, T),
         NEW U, U \subseteq S, U \subseteq T, IsFiniteSet(U)
  PROVE  g[U] = h[U]
<1> DEFINE Bad == {X \in SUBSET U : g[X] # h[X]}
<1> SUFFICES ASSUME Bad # {} PROVE FALSE
  OBVIOUS
<1>1. \A X \in Bad : IsFiniteSet(X)
  BY FS_Subset
<1>2. PICK X \in Bad : \A Y \in Bad : Y \subseteq X => Y = X
  <2> HIDE DEF Bad
  <2> QED
    BY <1>1, SmallestSet
<1>3. X \subseteq S /\ X \subseteq T /\ X \subseteq U /\ g[X] # h[X]
  OBVIOUS
<1>4. /\ g[X] = IF X = {} THEN 0 ELSE f[Chosen(X)] + g[X \ {Chosen(X)}]
      /\ h[X] = IF X = {} THEN 0 ELSE f[Chosen(X)] + h[X \ {Chosen(X)}]
  BY <1>3, AddsAt
<1>5. X # {}
  BY <1>3, <1>4
<1>6. g[X \ {Chosen(X)}] = h[X \ {Chosen(X)}]
  BY <1>2, <1>3, <1>5, WithoutChosen
<1> QED
  BY <1>3, <1>4, <1>6

(* Every finite set can be added up.                                       *)
LEMMA AddsExists ==
  ASSUME NEW f, NEW S, IsFiniteSet(S)
  PROVE  \E g : Adds(g, f, S)
<1> DEFINE Bad == {X \in SUBSET S : ~ \E g : Adds(g, f, X)}
<1> SUFFICES ASSUME Bad # {} PROVE FALSE
  OBVIOUS
<1>1. \A X \in Bad : IsFiniteSet(X)
  BY FS_Subset
<1>2. PICK X \in Bad : \A Y \in Bad : Y \subseteq X => Y = X
  <2> HIDE DEF Bad
  <2> QED
    BY <1>1, SmallestSet
<1>3. X \subseteq S /\ ~ \E g : Adds(g, f, X)
  OBVIOUS
<1> DEFINE H(s) == CHOOSE g : Adds(g, f, s)
           Less(s) == IF s = {} THEN 0 ELSE f[Chosen(s)] + Total(f, s \ {Chosen(s)})
           G == [s \in SUBSET X |-> Less(s)]
<1>4. ASSUME NEW s \in SUBSET X, s # X
      PROVE  Adds(H(s), f, s)
  <2>1. \E g : Adds(g, f, s)
    BY <1>2, <1>3, <1>4
  <2> QED
    BY <2>1, Zenon
<1>5. ASSUME NEW s \in SUBSET X, s # X
      PROVE  Total(f, s) = Less(s)
  <2>1. Adds(H(s), f, s)
    BY <1>4, <1>5
  <2>2. H(s)[s] = IF s = {} THEN 0 ELSE f[Chosen(s)] + H(s)[s \ {Chosen(s)}]
    BY <2>1, AddsAt
  <2>3. CASE s = {}
    BY <2>2, <2>3 DEF Total
  <2>4. CASE s # {}
    <3> DEFINE t == s \ {Chosen(s)}
    <3>1. t \subseteq s /\ t \subseteq X /\ t # X /\ IsFiniteSet(t)
      <4>1. t \subseteq s /\ t # s
        BY <2>4, WithoutChosen
      <4>2. t \subseteq S
        BY <4>1, <1>3
      <4> QED
        BY <1>5, <4>1, <4>2, FS_Subset
    <3>2. Adds(H(t), f, t)
      BY <3>1, <1>4
    <3>3. H(s)[t] = H(t)[t]
      BY <2>1, <3>1, <3>2, AddsOnce
    <3> QED
      BY <2>2, <2>4, <3>3 DEF Total
  <2> QED
    BY <2>3, <2>4
<1>6. ASSUME NEW s \in SUBSET X
      PROVE  Less(s) = IF s = {} THEN 0 ELSE f[Chosen(s)] + G[s \ {Chosen(s)}]
  <2>1. CASE s = {}
    BY <2>1
  <2>2. CASE s # {}
    <3> DEFINE t == s \ {Chosen(s)}
    <3>1. t \in SUBSET X /\ t # X
      BY <2>2, WithoutChosen
    <3>2. G[t] = Total(f, t)
      BY <3>1, <1>5
    <3> QED
      BY <2>2, <3>2
  <2> QED
    BY <2>1, <2>2
<1> HIDE DEF Less
<1>7. G = [s \in SUBSET X |-> IF s = {} THEN 0 ELSE f[Chosen(s)] + G[s \ {Chosen(s)}]]
  BY <1>6
<1> HIDE DEF G
<1>8. Adds(G, f, X)
  BY <1>7 DEF Adds
<1> QED
  BY <1>3, <1>8

(* A total is that of the set without an element, and the element.         *)
LEMMA TotalStep ==
  ASSUME NEW f, NEW S, IsFiniteSet(S)
  PROVE  Total(f, S) = IF S = {} THEN 0 ELSE f[Chosen(S)] + Total(f, S \ {Chosen(S)})
<1> DEFINE H(s) == CHOOSE g : Adds(g, f, s)
           t == S \ {Chosen(S)}
<1>1. ASSUME NEW s, IsFiniteSet(s) PROVE Adds(H(s), f, s)
  <2>1. \E g : Adds(g, f, s)
    BY <1>1, AddsExists
  <2> QED
    BY <2>1, Zenon
<1>2. IsFiniteSet(t) /\ t \subseteq S
  BY FS_RemoveElement
<1>3. H(S)[S] = IF S = {} THEN 0 ELSE f[Chosen(S)] + H(S)[t]
  BY <1>1, AddsAt
<1>4. Adds(H(S), f, S) /\ Adds(H(t), f, t)
  BY <1>1, <1>2
<1>5. H(S)[t] = H(t)[t]
  BY <1>2, <1>4, AddsOnce
<1> QED
  BY <1>3, <1>5 DEF Total

(* Integers add up to an integer.                                          *)
LEMMA TotalInt ==
  ASSUME NEW D, NEW f \in [D -> Int], NEW S, S \subseteq D, IsFiniteSet(S)
  PROVE  Total(f, S) \in Int
<1> DEFINE Bad == {X \in SUBSET S : Total(f, X) \notin Int}
<1> SUFFICES ASSUME Bad # {} PROVE FALSE
  OBVIOUS
<1>1. \A X \in Bad : IsFiniteSet(X)
  BY FS_Subset
<1>2. PICK X \in Bad : \A Y \in Bad : Y \subseteq X => Y = X
  <2> HIDE DEF Bad
  <2> QED
    BY <1>1, SmallestSet
<1>3. Total(f, X) = IF X = {} THEN 0 ELSE f[Chosen(X)] + Total(f, X \ {Chosen(X)})
  BY <1>1, TotalStep
<1>4. X # {}
  BY <1>3
<1>5. Total(f, X \ {Chosen(X)}) \in Int /\ f[Chosen(X)] \in Int
  BY <1>2, <1>4, WithoutChosen
<1> QED
  BY <1>3, <1>4, <1>5

(* Whichever element comes last, it adds what f has for it.                *)
LEMMA TotalWith ==
  ASSUME NEW D, NEW f \in [D -> Int], NEW S, S \subseteq D, IsFiniteSet(S),
         NEW e \in D, e \notin S
  PROVE  Total(f, S \union {e}) = Total(f, S) + f[e]
<1> DEFINE Off(X) == \E y \in D : y \notin X /\ Total(f, X \union {y}) # Total(f, X) + f[y]
           Bad == {X \in SUBSET S : Off(X)}
<1> SUFFICES ASSUME Bad # {} PROVE FALSE
  OBVIOUS
<1>1. \A X \in Bad : IsFiniteSet(X)
  BY FS_Subset
<1>2. PICK X \in Bad : \A Y \in Bad : Y \subseteq X => Y = X
  <2> HIDE DEF Bad
  <2> QED
    BY <1>1, SmallestSet
<1>3. PICK y \in D : y \notin X /\ Total(f, X \union {y}) # Total(f, X) + f[y]
  OBVIOUS
<1> DEFINE XX == X \union {y}
           x == Chosen(XX)
           V == X \ {x}
<1>4. IsFiniteSet(X) /\ X \subseteq D /\ X \subseteq S
  BY <1>1
<1>5. IsFiniteSet(XX) /\ XX # {} /\ x \in XX
  BY <1>4, FS_AddElement, WithoutChosen
<1>6. Total(f, XX) = f[x] + Total(f, XX \ {x})
  BY <1>5, TotalStep
<1> HIDE DEF x
<1>7. CASE x = y
  <2>1. XX \ {x} = X
    BY <1>3, <1>7
  <2>2. Total(f, X) \in Int /\ f[y] \in Int
    BY <1>4, TotalInt
  <2>3. Total(f, X \union {y}) = f[y] + Total(f, X)
    BY <1>6, <1>7, <2>1
  <2> QED
    BY <1>3, <2>2, <2>3
<1>8. CASE x # y
  <2>1. x \in X /\ x \in D
    BY <1>4, <1>5, <1>8
  <2>2. V \in SUBSET S /\ V \subseteq X /\ V # X /\ IsFiniteSet(V) /\ V \subseteq D
    BY <1>4, <2>1, FS_RemoveElement
  <2>3. ~Off(V)
    BY <1>2, <2>2
  <2>4. Total(f, V \union {y}) = Total(f, V) + f[y] /\ Total(f, V \union {x}) = Total(f, V) + f[x]
    BY <1>3, <2>1, <2>3
  <2>5. V \union {y} = XX \ {x} /\ V \union {x} = X
    BY <1>3, <1>8, <2>1
  <2>6. Total(f, V) \in Int /\ f[x] \in Int /\ f[y] \in Int
    BY <2>1, <2>2, TotalInt
  <2> QED
    BY <1>3, <1>6, <2>4, <2>5, <2>6
<1> QED
  BY <1>7, <1>8

(* Only what f has for the elements of the set matters.                    *)
LEMMA TotalSame ==
  ASSUME NEW f, NEW g, NEW S, IsFiniteSet(S), \A x \in S : f[x] = g[x]
  PROVE  Total(f, S) = Total(g, S)
<1> DEFINE Bad == {X \in SUBSET S : Total(f, X) # Total(g, X)}
<1> SUFFICES ASSUME Bad # {} PROVE FALSE
  OBVIOUS
<1>1. \A X \in Bad : IsFiniteSet(X)
  BY FS_Subset
<1>2. PICK X \in Bad : \A Y \in Bad : Y \subseteq X => Y = X
  <2> HIDE DEF Bad
  <2> QED
    BY <1>1, SmallestSet
<1>3. /\ Total(f, X) = IF X = {} THEN 0 ELSE f[Chosen(X)] + Total(f, X \ {Chosen(X)})
      /\ Total(g, X) = IF X = {} THEN 0 ELSE g[Chosen(X)] + Total(g, X \ {Chosen(X)})
  BY <1>1, TotalStep
<1>4. X # {}
  BY <1>3
<1>5. /\ Total(f, X \ {Chosen(X)}) = Total(g, X \ {Chosen(X)})
      /\ f[Chosen(X)] = g[Chosen(X)]
  BY <1>2, <1>4, WithoutChosen
<1> QED
  BY <1>3, <1>4, <1>5

(* Taking an element out takes away what f has for it.                     *)
LEMMA TotalWithout ==
  ASSUME NEW D, NEW f \in [D -> Int], NEW S, S \subseteq D, IsFiniteSet(S), NEW e \in D
  PROVE  /\ Total(f, S \ {e}) \in Int
         /\ Total(f, S) = Total(f, S \ {e}) + (IF e \in S THEN f[e] ELSE 0)
<1>1. IsFiniteSet(S \ {e}) /\ S \ {e} \subseteq D /\ e \notin S \ {e}
  BY FS_RemoveElement
<1>2. Total(f, S \ {e}) \in Int
  BY <1>1, TotalInt
<1>3. CASE e \in S
  <2>1. (S \ {e}) \union {e} = S
    BY <1>3
  <2>2. Total(f, (S \ {e}) \union {e}) = Total(f, S \ {e}) + f[e]
    BY <1>1, TotalWith
  <2> QED
    BY <1>2, <1>3, <2>1, <2>2
<1>4. CASE e \notin S
  <2>1. S \ {e} = S
    BY <1>4
  <2>2. Total(f, S) = Total(f, S \ {e})
    BY <2>1
  <2> QED
    BY <1>2, <1>4, <2>2
<1> QED
  BY <1>2, <1>3, <1>4

-----------------------------------------------------------------------------
(* The time entries of tasks.                                              *)

(* A request that works on an entry has one.                               *)
Writing == {"counting", "written"}
Items ==
  \A r \in Requests :
    stage[r] \in {"insert", "lock", "locked"} \union Writing => entry[r] \in Entries

(* The row a request inserts is its own and not there before the commit.   *)
Inserting(r) == stage[r] = "insert" \/ (stage[r] \in Writing /\ wish[r] = "log")
Inserts ==
  /\ \A r \in Requests : Inserting(r) => phase[entry[r]] = "absent"
  /\ \A q, r \in Requests : Inserting(q) /\ Inserting(r) /\ entry[q] = entry[r] => q = r

(* What a request read under its lock is still so when it commits.         *)
Holding(r) == stage[r] = "locked" \/ (stage[r] \in Writing /\ wish[r] # "log")
Locks ==
  \A r \in Requests : Holding(r) =>
    /\ lock[entry[r]] = r
    /\ phase[entry[r]] # "absent"
    /\ found[r] = Copied(entry[r])

(* A draft completes or deletes the entry, and adds to the total what its  *)
(* length will count for, less what the entry counted for so far.          *)
Lengthens(e, p, d, n) ==
  /\ p \in {"done", "deleted"} /\ d \in Durations \union {0}
  /\ n = (IF p = "done" THEN d ELSE 0) - (IF phase[e] = "done" THEN seconds[e] ELSE 0)
Lengthening ==
  \A r \in Requests : stage[r] \in Writing =>
    Lengthens(entry[r], draft[r].phase, draft[r].seconds, draft[r].delta)

(* An entry somebody looks for in order to change it has been inserted.    *)
Looks == \A r \in Requests : stage[r] = "lock" => phase[entry[r]] # "absent"

(* Only a transaction has rows locked, and that of a task only one that    *)
(* has nothing to wait for any more.                                       *)
Holders ==
  /\ \A e \in Entries : lock[e] # None => stage[lock[e]] \in {"locked"} \union Writing
  /\ \A t \in Tasks : lock[t] # None => stage[lock[t]] = "written"

TimeInv ==
  /\ TimeTypeOK /\ OneRunningTimer /\ CountedOnce
  /\ Items /\ Inserts /\ Locks /\ Lengthening /\ Looks /\ Holders

(* The empty tables satisfy the invariant.                                 *)
LEMMA InitTimeInv == TimeInit => TimeInv
<1> SUFFICES ASSUME TimeInit PROVE TimeInv
  OBVIOUS
<1>1. TimeTypeOK
  BY DEF TimeInit, TimeTypeOK, Phases, Stages, TimeOperations, Rows, TimeDrafts
<1>2. OneRunningTimer /\ CountedOnce
  BY DEF TimeInit, OneRunningTimer, CountedOnce
<1>3. Items /\ Inserts /\ Locks /\ Lengthening /\ Looks /\ Holders
  BY DEF TimeInit, Items, Inserts, Inserting, Locks, Holding, Lengthening, Looks, Holders, Writing
<1> QED
  BY <1>1, <1>2, <1>3 DEF TimeInv

(* A request goes on, and every other stays where it was.                  *)
LEMMA Reaching ==
  ASSUME TimeTypeOK, NEW r \in Requests, NEW goal \in Stages, Reach(r, goal)
  PROVE  /\ stage' \in [Requests -> Stages]
         /\ \A q \in Requests : stage'[q] = IF q = r THEN goal ELSE stage[q]
BY DEF Reach, TimeTypeOK

(* A transaction that ends lets go of what it had locked, of nothing else. *)
LEMMA Releasing ==
  ASSUME TimeTypeOK, NEW r \in Requests, Release(r)
  PROVE  /\ lock' \in [Entries \union Tasks -> Requests \union {None}]
         /\ \A x \in Entries \union Tasks : lock'[x] = IF lock[x] = r THEN None ELSE lock[x]
BY DEF Release, TimeTypeOK

(* A request ends without a change of any row.                             *)
LEMMA EndsQuietly ==
  ASSUME TimeInv, NEW r \in Requests, NEW goal \in {"refused", "lost"}, Reach(r, goal), Release(r),
         UNCHANGED <<phase, seconds, sums, wishes, copies>>
  PROVE  TimeInv'
<1> USE DEF TimeInv, sums, wishes, copies
<1>1. /\ stage' \in [Requests -> Stages]
      /\ \A q \in Requests : stage'[q] = IF q = r THEN goal ELSE stage[q]
  BY Reaching DEF Stages
<1>2. /\ lock' \in [Entries \union Tasks -> Requests \union {None}]
      /\ \A x \in Entries \union Tasks : lock'[x] = IF lock[x] = r THEN None ELSE lock[x]
  BY Releasing
<1>3. TimeTypeOK'
  BY <1>1, <1>2 DEF TimeTypeOK
<1>4. OneRunningTimer' /\ CountedOnce'
  BY DEF OneRunningTimer, CountedOnce
<1>5. Items' /\ Inserts' /\ Lengthening' /\ Looks'
  BY <1>1 DEF Items, Inserts, Inserting, Lengthening, Lengthens, Looks, Writing
<1>6. Locks'
  <2> SUFFICES ASSUME NEW q \in Requests, Holding(q)'
               PROVE  lock'[entry[q]] = q /\ phase[entry[q]] # "absent" /\ found[q] = Copied(entry[q])
    BY DEF Locks, Copied
  <2>1. q # r /\ Holding(q)
    BY <1>1 DEF Holding, Writing
  <2>2. entry[q] \in Entries
    BY <2>1 DEF Holding, Items
  <2> QED
    BY <1>2, <2>1, <2>2 DEF Locks
<1>7. Holders'
  BY <1>1, <1>2 DEF Holders, TimeTypeOK, Writing
<1> QED
  BY <1>3, <1>4, <1>5, <1>6, <1>7

(* A transaction is rolled back.                                           *)
LEMMA FailKeepsTimeInv ==
  ASSUME TimeInv, NEW r \in Requests, RollBack(r) PROVE TimeInv'
BY EndsQuietly DEF RollBack

(* A transaction that changes nothing.                                     *)
LEMMA RefuseKeepsTimeInv ==
  ASSUME TimeInv, NEW r \in Requests, TurnDown(r), UNCHANGED <<phase, seconds, sums, wishes, found>>
  PROVE  TimeInv'
BY EndsQuietly DEF TurnDown, copies

(* The reads before a transaction.                                         *)
LEMMA ReadsKeepTimeInv ==
  ASSUME TimeInv, NEW r \in Requests, NEW e \in Entries,
         StartRead(r, e) \/ StopRead(r, e) \/ UpdateRead(r, e) \/ RemoveRead(r, e)
  PROVE  TimeInv'
<1> USE DEF TimeInv, sums
<1>1. /\ UNCHANGED <<phase, seconds, sums, lock, found, draft>> /\ stage[r] = "idle"
      /\ \/ \E goal \in {"insert", "refused"} :
              Reach(r, goal) /\ FreshEntry(e)
         \/ Reach(r, "lock") /\ phase[e] # "absent"
      /\ \E o \in TimeOperations : wish' = [wish EXCEPT ![r] = o]
      /\ entry' = [entry EXCEPT ![r] = e]
  BY DEF StartRead, StopRead, UpdateRead, RemoveRead, Look, Comes, TimeOperations, copies
<1>2. PICK goal \in {"insert", "refused", "lock"} :
        /\ \A q \in Requests : stage'[q] = IF q = r THEN goal ELSE stage[q]
        /\ stage' \in [Requests -> Stages]
        /\ goal \in {"insert", "refused"} => FreshEntry(e)
        /\ goal = "lock" => phase[e] # "absent"
  BY <1>1, Reaching DEF Stages
<1>3. /\ entry' \in [Requests -> Entries \union {None}] /\ wish' \in [Requests -> TimeOperations]
      /\ \A q \in Requests : entry'[q] = IF q = r THEN e ELSE entry[q]
      /\ \A q \in Requests : q # r => wish'[q] = wish[q]
  BY <1>1 DEF TimeTypeOK
<1>4. TimeTypeOK'
  BY <1>1, <1>2, <1>3 DEF TimeTypeOK
<1>5. OneRunningTimer' /\ CountedOnce'
  BY <1>1 DEF OneRunningTimer, CountedOnce
<1>6. Items' /\ Lengthening' /\ Looks'
  BY <1>1, <1>2, <1>3 DEF Items, Lengthening, Lengthens, Looks, Writing
<1>7. Locks'
  <2>1. \A q \in Requests : Holding(q)' => q # r /\ Holding(q)
    BY <1>2, <1>3 DEF Holding, Writing
  <2> QED
    BY <1>1, <1>3, <2>1 DEF Locks, Copied
<1>8. Inserts'
  BY <1>1, <1>2, <1>3 DEF Inserts, Inserting, FreshEntry, Writing
<1>9. Holders'
  BY <1>1, <1>2 DEF Holders, TimeTypeOK, Writing
<1> QED
  BY <1>4, <1>5, <1>6, <1>7, <1>8, <1>9

(* What a transaction writes is its own until it commits.                  *)
LEMMA WriteKeepsTimeInv ==
  ASSUME TimeInv, NEW r \in Requests, NEW p, NEW d, NEW n \in Int, stage[r] = "locked",
         Write(r, p, d, n), Lengthens(entry[r], p, d, n), wish[r] # "log",
         UNCHANGED <<phase, seconds, sums, lock, wishes, found>>
  PROVE  TimeInv'
<1> USE DEF TimeInv, sums, wishes
<1>1. PICK goal \in Writing :
        /\ stage' \in [Requests -> Stages]
        /\ \A q \in Requests : stage'[q] = IF q = r THEN goal ELSE stage[q]
  <2>1. \E goal \in {"written", "counting"} : Reach(r, goal)
    BY DEF Write
  <2> QED
    BY <2>1, Reaching DEF Stages, Writing
<1>2. /\ draft' \in [Requests -> TimeDrafts]
      /\ \A q \in Requests :
           draft'[q] = IF q = r THEN [phase |-> p, seconds |-> d, delta |-> n] ELSE draft[q]
  BY DEF Write, TimeTypeOK, TimeDrafts, Lengthens, Phases
<1>3. TimeTypeOK'
  BY <1>1, <1>2 DEF TimeTypeOK
<1>4. OneRunningTimer' /\ CountedOnce'
  BY DEF OneRunningTimer, CountedOnce
<1>5. Items' /\ Inserts' /\ Looks'
  BY <1>1 DEF Items, Inserts, Inserting, Looks, Writing
<1>6. Locks'
  BY <1>1 DEF Locks, Holding, Copied, Writing
<1>7. Lengthening'
  BY <1>1, <1>2 DEF Lengthening, Lengthens, Writing
<1>8. Holders'
  <2>1. \A t \in Tasks : lock[t] # r
    BY TimeAssumption DEF Holders
  <2> QED
    BY <1>1, <2>1 DEF Holders, TimeTypeOK
<1> QED
  BY <1>3, <1>4, <1>5, <1>6, <1>7, <1>8

(* A completed entry is logged.                                            *)
LEMMA LogKeepsTimeInv ==
  ASSUME TimeInv, NEW r \in Requests, NEW e \in Entries, NEW d \in Durations,
         LogTime(r, e, d)
  PROVE  TimeInv'
<1> USE DEF TimeInv, sums
<1>1. /\ stage[r] = "idle" /\ FreshEntry(e) /\ d \in Int /\ Write(r, "done", d, d)
      /\ UNCHANGED <<phase, seconds, tracked, counted, lock, found>>
  BY TimeAssumption DEF LogTime, Comes
<1>2. PICK goal \in Writing :
        /\ stage' \in [Requests -> Stages]
        /\ \A q \in Requests : stage'[q] = IF q = r THEN goal ELSE stage[q]
  <2>1. \E goal \in {"written", "counting"} : Reach(r, goal)
    BY <1>1 DEF Write
  <2> QED
    BY <2>1, Reaching DEF Stages, Writing
<1>3. /\ draft' \in [Requests -> TimeDrafts]
      /\ \A q \in Requests :
           draft'[q] = IF q = r THEN [phase |-> "done", seconds |-> d, delta |-> d] ELSE draft[q]
  BY <1>1 DEF Write, TimeTypeOK, TimeDrafts, Phases
<1>4. /\ entry' \in [Requests -> Entries \union {None}] /\ wish' \in [Requests -> TimeOperations]
      /\ \A q \in Requests : entry'[q] = IF q = r THEN e ELSE entry[q]
      /\ \A q \in Requests : wish'[q] = IF q = r THEN "log" ELSE wish[q]
  BY DEF LogTime, TimeTypeOK, TimeOperations
<1>5. TimeTypeOK'
  BY <1>1, <1>2, <1>3, <1>4 DEF TimeTypeOK
<1>6. OneRunningTimer' /\ CountedOnce'
  BY <1>1 DEF OneRunningTimer, CountedOnce
<1>7. Items' /\ Looks'
  BY <1>1, <1>2, <1>4 DEF Items, Looks, Writing
<1>8. Inserts'
  <2>1. \A q \in Requests : Inserting(q)' => q = r \/ (Inserting(q) /\ entry'[q] = entry[q])
    BY <1>2, <1>4 DEF Inserting, Writing
  <2>2. \A q \in Requests : entry[q] # e
    BY <1>1 DEF FreshEntry
  <2> QED
    BY <1>1, <1>4, <2>1, <2>2 DEF Inserts, FreshEntry
<1>9. Locks'
  <2>1. \A q \in Requests : Holding(q)' => q # r /\ Holding(q)
    BY <1>2, <1>4 DEF Holding, Writing
  <2> QED
    BY <1>1, <1>4, <2>1 DEF Locks, Copied
<1>10. Lengthening'
  <2>1. Lengthens(e, "done", d, d)'
    BY <1>1 DEF Lengthens, FreshEntry
  <2> QED
    BY <1>1, <1>2, <1>3, <1>4, <2>1 DEF Lengthening, Lengthens, Writing
<1>11. Holders'
  BY <1>1, <1>2 DEF Holders, TimeTypeOK, Writing
<1> QED
  BY <1>5, <1>6, <1>7, <1>8, <1>9, <1>10, <1>11

(* A timer starts, or the index refuses it.                                *)
LEMMA StartKeepsTimeInv ==
  ASSUME TimeInv, NEW r \in Requests, StartTimer(r)
  PROVE  TimeInv'
<1> USE DEF TimeInv
<1>1. /\ stage[r] = "insert" /\ entry[r] \in Entries /\ phase[entry[r]] = "absent"
      /\ UNCHANGED <<seconds, tracked, counted, lock, wish, entry, found, draft>>
  BY DEF StartTimer, Items, Inserts, Inserting, sums, wishes, copies
<1>2. PICK goal \in {"refused", "granted"} : Reach(r, goal)
  BY DEF StartTimer
<1>3. /\ stage' \in [Requests -> Stages]
      /\ \A q \in Requests : stage'[q] = IF q = r THEN goal ELSE stage[q]
  BY <1>2, Reaching DEF Stages
<1>4. Holders'
  BY <1>1, <1>3 DEF Holders, TimeTypeOK, Writing
<1>5. CASE UNCHANGED phase
  <2>1. TimeTypeOK' /\ OneRunningTimer' /\ CountedOnce'
    BY <1>1, <1>3, <1>5 DEF TimeTypeOK, OneRunningTimer, CountedOnce
  <2>2. Items' /\ Inserts' /\ Looks'
    BY <1>1, <1>3, <1>5 DEF Items, Inserts, Inserting, Looks, Writing
  <2>3. Locks' /\ Lengthening'
    BY <1>1, <1>3, <1>5 DEF Locks, Holding, Copied, Lengthening, Lengthens, Writing
  <2> QED
    BY <1>4, <2>1, <2>2, <2>3
<1>6. CASE /\ Running(EntryUser[entry[r]]) = {}
           /\ phase' = [phase EXCEPT ![entry[r]] = "running"]
  <2>1. /\ phase' \in [Entries -> Phases]
        /\ \A f \in Entries : phase'[f] = IF f = entry[r] THEN "running" ELSE phase[f]
    BY <1>1, <1>6 DEF TimeTypeOK, Phases
  <2>2. \A f \in Entries : phase[f] = "running" => EntryUser[f] # EntryUser[entry[r]]
    BY <1>6 DEF Running
  <2>3. TimeTypeOK' /\ CountedOnce'
    BY <1>1, <1>3, <2>1 DEF TimeTypeOK, CountedOnce
  <2>4. OneRunningTimer'
    BY <2>1, <2>2 DEF OneRunningTimer
  <2>5. \A q \in Requests : Holding(q) \/ stage[q] = "lock" => entry[q] \in Entries /\ entry[q] # entry[r]
    BY <1>1 DEF Holding, Locks, Looks, Items
  <2>6. \A q \in Requests : q # r /\ Inserting(q) => entry[q] \in Entries /\ entry[q] # entry[r]
    BY <1>1 DEF Inserts, Inserting, Items
  <2>7. \A q \in Requests : /\ Inserting(q)' => q # r /\ Inserting(q)
                            /\ Holding(q)' => q # r /\ Holding(q)
    BY <1>1, <1>3 DEF Inserting, Holding, Writing
  <2>8. Items' /\ Inserts' /\ Looks'
    BY <1>1, <1>3, <2>1, <2>5, <2>6, <2>7 DEF Items, Inserts, Looks, Writing
  <2>9. Locks'
    BY <1>1, <2>1, <2>5, <2>7 DEF Locks, Copied
  <2>10. Lengthening'
    <3>1. \A q \in Requests : stage'[q] \in Writing =>
            stage[q] \in Writing /\ entry[q] \in Entries /\ entry[q] # entry[r]
      BY <1>1, <1>3, <2>5, <2>6 DEF Holding, Inserting, Writing
    <3> QED
      BY <1>1, <2>1, <3>1 DEF Lengthening, Lengthens
  <2> QED
    BY <1>4, <2>3, <2>4, <2>8, <2>9, <2>10
<1> QED
  BY <1>5, <1>6 DEF StartTimer, TimerIndexRefuses

(* A row is locked and read.                                               *)
LEMMA LockKeepsTimeInv ==
  ASSUME TimeInv, NEW r \in Requests, LockEntry(r)
  PROVE  TimeInv'
<1> USE DEF TimeInv
<1>1. /\ stage[r] = "lock" /\ entry[r] \in Entries /\ lock[entry[r]] = None /\ phase[entry[r]] # "absent"
      /\ UNCHANGED <<phase, seconds, tracked, counted, wish, entry, draft>>
  BY DEF LockEntry, Free, Items, Looks, sums, wishes
<1>2. CASE Reach(r, "refused") /\ UNCHANGED <<lock, found>>
  <2>1. /\ stage' \in [Requests -> Stages]
        /\ \A q \in Requests : stage'[q] = IF q = r THEN "refused" ELSE stage[q]
    BY <1>2, Reaching DEF Stages
  <2>2. TimeTypeOK' /\ OneRunningTimer' /\ CountedOnce'
    BY <1>1, <1>2, <2>1 DEF TimeTypeOK, OneRunningTimer, CountedOnce
  <2>3. Items' /\ Inserts' /\ Looks'
    BY <1>1, <2>1 DEF Items, Inserts, Inserting, Looks, Writing
  <2>4. Locks' /\ Lengthening'
    BY <1>1, <1>2, <2>1 DEF Locks, Holding, Copied, Lengthening, Lengthens, Writing
  <2>5. Holders'
    BY <1>1, <1>2, <2>1 DEF Holders, TimeTypeOK, Writing
  <2> QED
    BY <2>2, <2>3, <2>4, <2>5
<1>3. CASE /\ Reach(r, "locked")
           /\ lock' = [lock EXCEPT ![entry[r]] = r]
           /\ found' = [found EXCEPT ![r] = Copied(entry[r])]
  <2>1. /\ stage' \in [Requests -> Stages]
        /\ \A q \in Requests : stage'[q] = IF q = r THEN "locked" ELSE stage[q]
    BY <1>3, Reaching DEF Stages
  <2>2. /\ lock' \in [Entries \union Tasks -> Requests \union {None}]
        /\ found' \in [Requests -> Rows]
        /\ \A x \in Entries \union Tasks : lock'[x] = IF x = entry[r] THEN r ELSE lock[x]
        /\ \A q \in Requests : found'[q] = IF q = r THEN Copied(entry[r]) ELSE found[q]
    BY <1>1, <1>3 DEF TimeTypeOK, Rows, Copied
  <2>3. TimeTypeOK' /\ OneRunningTimer' /\ CountedOnce'
    BY <1>1, <2>1, <2>2 DEF TimeTypeOK, OneRunningTimer, CountedOnce
  <2>4. Items' /\ Inserts' /\ Looks'
    BY <1>1, <2>1 DEF Items, Inserts, Inserting, Looks, Writing
  <2>5. Lengthening'
    BY <1>1, <2>1 DEF Lengthening, Lengthens, Writing
  <2>6. Locks'
    <3> SUFFICES ASSUME NEW q \in Requests, Holding(q)'
                 PROVE  /\ lock'[entry[q]] = q /\ phase[entry[q]] # "absent"
                        /\ found'[q] = Copied(entry[q])
      BY <1>1 DEF Locks, Copied
    <3>1. CASE q = r
      BY <3>1, <1>1, <2>2
    <3>2. CASE q # r
      <4>1. Holding(q) /\ entry[q] \in Entries /\ lock[entry[q]] = q
        BY <1>1, <3>2, <2>1 DEF Holding, Locks, Items, Writing
      <4>2. entry[q] # entry[r]
        BY TimeAssumption, <4>1, <1>1
      <4> QED
        BY <3>2, <4>1, <4>2, <2>2 DEF Locks
    <3> QED
      BY <3>1, <3>2
  <2>7. Holders'
    <3>1. \A t \in Tasks : t # entry[r]
      BY <1>1, TimeAssumption
    <3>2. \A x \in Entries \union Tasks : lock[x] # r
      BY <1>1, TimeAssumption DEF Holders, Writing
    <3> QED
      BY <1>1, <2>1, <2>2, <3>1, <3>2 DEF Holders, TimeTypeOK
  <2> QED
    BY <2>3, <2>4, <2>5, <2>6, <2>7
<1> QED
  BY <1>2, <1>3 DEF LockEntry

(* The row of the task is locked by its increment.                         *)
LEMMA CountKeepsTimeInv ==
  ASSUME TimeInv, NEW r \in Requests, Count(r)
  PROVE  TimeInv'
<1> USE DEF TimeInv
<1> DEFINE t == EntryTask[entry[r]]
<1>1. /\ stage[r] = "counting" /\ entry[r] \in Entries /\ t \in Tasks /\ t \notin Entries
      /\ UNCHANGED <<phase, seconds, tracked, counted, wish, entry, found, draft>>
  BY TimeAssumption DEF Count, Items, Writing, sums, wishes, copies
<1>2. /\ stage' \in [Requests -> Stages]
      /\ \A q \in Requests : stage'[q] = IF q = r THEN "written" ELSE stage[q]
  BY Reaching DEF Count, Stages
<1>3. /\ lock' \in [Entries \union Tasks -> Requests \union {None}]
      /\ \A x \in Entries \union Tasks : lock'[x] = IF x = t THEN r ELSE lock[x]
  BY <1>1 DEF Count, TimeTypeOK
<1>4. TimeTypeOK' /\ OneRunningTimer' /\ CountedOnce'
  BY <1>1, <1>2, <1>3 DEF TimeTypeOK, OneRunningTimer, CountedOnce
<1>5. Items' /\ Inserts' /\ Lengthening' /\ Looks'
  BY <1>1, <1>2 DEF Items, Inserts, Inserting, Lengthening, Lengthens, Looks, Writing
<1>6. Locks'
  <2>1. \A q \in Requests : Holding(q)' => Holding(q) /\ entry[q] \in Entries
    BY <1>1, <1>2 DEF Holding, Items, Writing
  <2> QED
    BY <1>1, <1>3, <2>1 DEF Locks, Copied
<1>7. Holders'
  BY <1>1, <1>2, <1>3 DEF Holders, TimeTypeOK, Writing
<1> QED
  BY <1>4, <1>5, <1>6, <1>7

(* Adding to the total of an entry's task leaves other entries alone.      *)
LEMMA AddSecondsTypes ==
  ASSUME TimeTypeOK, NEW e \in Entries, NEW n \in Int, AddSeconds(e, n)
  PROVE  /\ tracked' \in [Tasks -> Int] /\ counted' \in [Entries -> Int]
         /\ \A f \in Entries : counted'[f] = IF f = e THEN counted[e] + n ELSE counted[f]
<1>1. EntryTask[e] \in Tasks
  BY TimeAssumption
<1>2. tracked[EntryTask[e]] + n \in Int /\ counted[e] + n \in Int
  BY <1>1 DEF TimeTypeOK
<1> QED
  BY <1>1, <1>2 DEF TimeTypeOK, AddSeconds

(* A request that has written an entry has it, and what it adds.           *)
LEMMA DraftTypes ==
  ASSUME TimeInv, NEW r \in Requests, stage[r] = "written"
  PROVE  /\ entry[r] \in Entries /\ draft[r].phase \in {"done", "deleted"}
         /\ draft[r].seconds \in Durations \union {0} /\ draft[r].delta \in Int
         /\ Lengthens(entry[r], draft[r].phase, draft[r].seconds, draft[r].delta)
<1>1. entry[r] \in Entries
  BY DEF TimeInv, Items, Writing
<1>2. Lengthens(entry[r], draft[r].phase, draft[r].seconds, draft[r].delta)
  BY DEF TimeInv, Lengthening, Writing
<1>3. draft[r] \in TimeDrafts
  BY DEF TimeInv, TimeTypeOK
<1> QED
  BY <1>1, <1>2, <1>3 DEF Lengthens, TimeDrafts

(* A commit counts the difference it makes.                                *)
LEMMA CommitKeepsTimeInv ==
  ASSUME TimeInv, NEW r \in Requests, Commit(r)
  PROVE  TimeInv'
<1> USE DEF TimeInv
<1> DEFINE e == entry[r]
           p == draft[r].phase
           d == draft[r].seconds
           n == draft[r].delta
<1>1. /\ stage[r] = "written" /\ e \in Entries /\ p \in {"done", "deleted"}
      /\ d \in Durations \union {0} /\ n \in Int /\ Lengthens(e, p, d, n)
  BY DraftTypes DEF Commit
<1>2. seconds[e] \in Int /\ d \in Int
  <2>1. Durations \union {0} \subseteq Int
    BY TimeAssumption
  <2> QED
    BY <1>1, <2>1 DEF TimeTypeOK
<1>3. n = (IF p = "done" THEN d ELSE 0) - counted[e]
  BY <1>1 DEF CountedOnce, Lengthens
<1>4. /\ tracked' \in [Tasks -> Int] /\ counted' \in [Entries -> Int]
      /\ \A f \in Entries : counted'[f] = IF f = e THEN (IF p = "done" THEN d ELSE 0) ELSE counted[f]
  <2>1. /\ tracked' \in [Tasks -> Int] /\ counted' \in [Entries -> Int]
        /\ \A f \in Entries : counted'[f] = IF f = e THEN counted[e] + n ELSE counted[f]
    BY <1>1, AddSecondsTypes DEF Commit
  <2>2. counted[e] \in Int
    BY <1>1 DEF TimeTypeOK
  <2>3. counted[e] + n = IF p = "done" THEN d ELSE 0
    BY <1>2, <1>3, <2>2
  <2> QED
    BY <2>1, <2>3
<1>5. /\ phase' \in [Entries -> Phases] /\ seconds' \in [Entries -> Durations \union {0}]
      /\ \A f \in Entries : phase'[f] = IF f = e THEN p ELSE phase[f]
      /\ \A f \in Entries : seconds'[f] = IF f = e THEN d ELSE seconds[f]
      /\ UNCHANGED <<wish, entry, found, draft>>
  BY <1>1 DEF Commit, TimeTypeOK, Phases, wishes, copies
<1>6. /\ stage' \in [Requests -> Stages]
      /\ \A q \in Requests : stage'[q] = IF q = r THEN "granted" ELSE stage[q]
  BY Reaching DEF Commit, Stages
<1>7. /\ lock' \in [Entries \union Tasks -> Requests \union {None}]
      /\ \A x \in Entries \union Tasks : lock'[x] = IF lock[x] = r THEN None ELSE lock[x]
  BY Releasing DEF Commit
<1>8. TimeTypeOK'
  BY <1>4, <1>5, <1>6, <1>7 DEF TimeTypeOK
<1>9. OneRunningTimer' /\ CountedOnce'
  <2>1. \A f \in Entries : phase'[f] = "running" => phase[f] = "running"
    BY <1>1, <1>5
  <2> QED
    BY <1>1, <1>4, <1>5, <2>1 DEF OneRunningTimer, CountedOnce
<1> HIDE DEF e, p, d, n
<1>10. \A q \in Requests :
         /\ Inserting(q)' => q # r /\ Inserting(q)
         /\ Holding(q)' => q # r /\ Holding(q)
         /\ Inserting(q) \/ Holding(q) \/ stage[q] = "lock" => entry[q] \in Entries
  BY <1>5, <1>6 DEF Inserting, Holding, Items, Writing
<1>11. Inserting(r) \/ Holding(r)
  BY <1>1 DEF Inserting, Holding, Writing
<1>12. \A q \in Requests : q # r /\ (Inserting(q) \/ Holding(q)) => entry[q] # e
  BY <1>11 DEF e, Inserts, Locks
<1>13. \A q \in Requests : stage[q] = "lock" => phase'[entry[q]] # "absent"
  BY <1>1, <1>5, <1>10 DEF Looks
<1>14. Items' /\ Inserts' /\ Looks'
  BY <1>5, <1>6, <1>10, <1>12, <1>13 DEF Items, Inserts, Looks, Writing
<1>15. Locks'
  BY <1>5, <1>7, <1>10, <1>12 DEF Locks, Copied
<1>16. Lengthening'
  <2>1. \A q \in Requests : stage'[q] \in Writing =>
          stage[q] \in Writing /\ entry[q] \in Entries /\ entry[q] # e
    BY <1>6, <1>10, <1>12 DEF Holding, Inserting, Writing
  <2> QED
    BY <1>5, <2>1 DEF Lengthening, Lengthens
<1>17. Holders'
  BY <1>6, <1>7 DEF Holders, TimeTypeOK, Writing
<1> QED
  BY <1>8, <1>9, <1>14, <1>15, <1>16, <1>17

(* Under its lock, a stop, an edit or a removal writes what it read, with  *)
(* the change it makes.                                                    *)
LEMMA HoldersWrite ==
  ASSUME TimeInv, NEW r \in Requests, NEW p \in {"done", "deleted"}, NEW d \in Durations \union {0},
         NEW n, stage[r] = "locked", wish[r] # "log", Write(r, p, d, n),
         n = (IF p = "done" THEN d ELSE 0) - (IF found[r].phase = "done" THEN found[r].seconds ELSE 0),
         UNCHANGED <<phase, seconds, sums, lock, wishes, found>>
  PROVE  TimeInv'
<1>1. found[r].phase = phase[entry[r]] /\ found[r].seconds = seconds[entry[r]]
  <2>1. found[r] = Copied(entry[r])
    BY DEF TimeInv, Locks, Holding
  <2> QED
    BY <2>1 DEF Copied
<1>2. Lengthens(entry[r], p, d, n)
  BY <1>1 DEF Lengthens
<1>3. d \in Int /\ found[r].seconds \in Int
  <2>1. Durations \union {0} \subseteq Int
    BY TimeAssumption
  <2> QED
    BY <2>1 DEF TimeInv, TimeTypeOK, Rows
<1>4. n \in Int
  BY <1>3
<1> QED
  BY <1>2, <1>4, WriteKeepsTimeInv

(* Every step keeps the invariant.                                         *)
LEMMA StepKeepsTimeInv == TimeInv /\ [TimeNext]_timeVars => TimeInv'
<1> SUFFICES ASSUME TimeInv, [TimeNext]_timeVars PROVE TimeInv'
  OBVIOUS
<1>1. ASSUME NEW r \in Requests, NEW e \in Entries,
             StartRead(r, e) \/ StopRead(r, e) \/ UpdateRead(r, e) \/ RemoveRead(r, e)
      PROVE  TimeInv'
  BY <1>1, ReadsKeepTimeInv
<1>2. ASSUME NEW r \in Requests, NEW e \in Entries, NEW d \in Durations, LogTime(r, e, d)
      PROVE  TimeInv'
  BY <1>2, LogKeepsTimeInv
<1>3. ASSUME NEW r \in Requests,
             StartTimer(r) \/ LockEntry(r) \/ Count(r) \/ Commit(r) \/ RollBack(r)
      PROVE  TimeInv'
  BY <1>3, StartKeepsTimeInv, LockKeepsTimeInv, CountKeepsTimeInv, CommitKeepsTimeInv, FailKeepsTimeInv
<1>4. ASSUME NEW r \in Requests, NEW d \in Durations, StopTimer(r, d) PROVE TimeInv'
  <2>1. d - 0 = d
    BY TimeAssumption
  <2>2. CASE found[r].phase = "running"
    BY <1>4, <2>1, <2>2, HoldersWrite DEF StopTimer
  <2>3. CASE found[r].phase # "running"
    BY <1>4, <2>3, RefuseKeepsTimeInv DEF StopTimer
  <2> QED
    BY <2>2, <2>3
<1>5. ASSUME NEW r \in Requests, NEW d \in Durations, UpdateEntry(r, d) PROVE TimeInv'
  <2>1. found[r].seconds \in Durations \union {0}
    BY DEF TimeInv, TimeTypeOK, Rows
  <2>2. CASE found[r].phase = "done"
    <3>1. PICK n \in {d, found[r].seconds} : Write(r, "done", n, n - found[r].seconds)
      BY <1>5, <2>2 DEF UpdateEntry
    <3> QED
      BY <1>5, <2>1, <2>2, <3>1, HoldersWrite DEF UpdateEntry
  <2>3. CASE found[r].phase # "done"
    BY <1>5, <2>3, RefuseKeepsTimeInv DEF UpdateEntry
  <2> QED
    BY <2>2, <2>3
<1>6. ASSUME NEW r \in Requests, RemoveEntry(r) PROVE TimeInv'
  <2>1. /\ 0 \in Durations \union {0} /\ stage[r] = "locked" /\ wish[r] # "log"
        /\ UNCHANGED <<phase, seconds, sums, lock, wishes, found>>
    BY <1>6 DEF RemoveEntry
  <2>2. CASE found[r].phase = "done"
    BY <1>6, <2>1, <2>2, HoldersWrite DEF RemoveEntry
  <2>3. CASE found[r].phase # "done"
    <3>1. Write(r, "deleted", 0, 0) /\ 0 = 0 - 0
      BY <1>6, <2>3 DEF RemoveEntry
    <3> QED
      BY <2>1, <2>3, <3>1, HoldersWrite
  <2> QED
    BY <2>2, <2>3
<1>7. CASE UNCHANGED timeVars
  <2> USE <1>7 DEF timeVars, TimeInv
  <2>1. TimeTypeOK' /\ OneRunningTimer' /\ CountedOnce'
    BY DEF TimeTypeOK, OneRunningTimer, CountedOnce
  <2>2. Items' /\ Inserts' /\ Looks' /\ Holders'
    BY DEF Items, Inserts, Inserting, Looks, Holders
  <2>3. Locks' /\ Lengthening'
    BY DEF Locks, Holding, Copied, Lengthening, Lengthens
  <2> QED
    BY <2>1, <2>2, <2>3
<1> QED
  BY <1>1, <1>2, <1>3, <1>4, <1>5, <1>6, <1>7 DEF TimeNext, Proceed

(* The inductive invariant of time entries and the requests on them.       *)
THEOREM TimeInvariance == TimeSpec => []TimeInv
  BY InitTimeInv, StepKeepsTimeInv, PTL DEF TimeSpec

(* Who holds the row of a task has all the rows it needs, and who holds an *)
(* entry can only be waiting for a task: stops, edits and removals that    *)
(* wait for one another never form a circle (lockEntry comes first in each *)
(* transaction of task-time.repository.ts, the increment last).            *)
NoCircle ==
  \A x \in Entries \union Tasks : lock[x] # None =>
    /\ x \in Tasks => stage[lock[x]] = "written"
    /\ x \in Entries => stage[lock[x]] \in {"locked", "counting", "written"}
THEOREM LockOrder == TimeSpec => []NoCircle
<1>1. TimeInv => NoCircle
  BY TimeAssumption DEF TimeInv, Holders, NoCircle, Writing
<1> QED
  BY <1>1, TimeInvariance, PTL

(* No user ever has two running timers.                                    *)
THEOREM OneTimer == TimeSpec => []OneRunningTimer
<1>1. TimeInv => OneRunningTimer
  BY DEF TimeInv
<1> QED
  BY <1>1, TimeInvariance, PTL

(* Every entry contributed to its task exactly the length it shows.        *)
THEOREM Counting == TimeSpec => []CountedOnce
<1>1. TimeInv => CountedOnce
  BY DEF TimeInv
<1> QED
  BY <1>1, TimeInvariance, PTL

(* Entries, timers and requests stay within their types.                   *)
THEOREM TimeTyping == TimeSpec => []TimeTypeOK
<1>1. TimeInv => TimeTypeOK
  BY DEF TimeInv
<1> QED
  BY <1>1, TimeInvariance, PTL

(* What an entry counts for: its length, once it is completed.             *)
Length(e) == IF phase[e] = "done" THEN seconds[e] ELSE 0

(* Every other entry is left as it is.                                     *)
OthersKept(e) ==
  \A f \in Entries \ {e} : phase'[f] = phase[f] /\ seconds'[f] = seconds[f]

(* A step that changes a total or an entry changes one entry, and the      *)
(* total of its task by what that changes in the length it counts for.     *)
Booked ==
  \/ UNCHANGED <<phase, seconds, tracked>>
  \/ \E e \in Entries :
       /\ OthersKept(e)
       /\ tracked' = [tracked EXCEPT ![EntryTask[e]] = @ + Length(e)' - Length(e)]

(* Lengths of entries are integers, those of a request's copy too.         *)
LEMMA Lengths ==
  ASSUME TimeInv
  PROVE  /\ \A d \in Durations : d \in Int
         /\ \A r \in Requests : found[r].seconds \in Int
<1>1. \A d \in Durations : d \in Int
  BY TimeAssumption
<1>2. ASSUME NEW r \in Requests
      PROVE  found[r].seconds \in Int
  <2>1. found[r] \in Rows
    BY DEF TimeInv, TimeTypeOK
  <2>2. found[r].seconds \in Durations \union {0}
    BY <2>1 DEF Rows
  <2>3. CASE found[r].seconds \in Durations
    BY <1>1, <2>3
  <2>4. CASE found[r].seconds = 0
    BY <2>4
  <2> QED
    BY <2>2, <2>3, <2>4
<1> QED
  BY <1>1, <1>2

(* A step changes one entry, and totals only by { increment } on its task. *)
LEMMA StepChangesOne ==
  ASSUME TimeInv, [TimeNext]_timeVars
  PROVE  \/ UNCHANGED <<phase, seconds, tracked, counted>>
         \/ \E e \in Entries, n \in Int : AddSeconds(e, n) /\ OthersKept(e)
<1> DEFINE Quiet == UNCHANGED <<phase, seconds, tracked, counted>>
           OneAdds == \E e \in Entries, n \in Int : AddSeconds(e, n) /\ OthersKept(e)
<1>0. phase \in [Entries -> Phases] /\ seconds \in [Entries -> Durations \union {0}]
  BY DEF TimeInv, TimeTypeOK
<1>1. ASSUME UNCHANGED timeVars PROVE Quiet
  BY <1>1 DEF timeVars
<1>2. ASSUME NEW r \in Requests, NEW e \in Entries,
             StartRead(r, e) \/ StopRead(r, e) \/ UpdateRead(r, e) \/ RemoveRead(r, e)
      PROVE  Quiet
  BY <1>2 DEF StartRead, StopRead, UpdateRead, RemoveRead, Look, sums
<1>3. ASSUME NEW r \in Requests, NEW e \in Entries, NEW d \in Durations, LogTime(r, e, d)
      PROVE  Quiet
  BY <1>3 DEF LogTime, sums
<1>4. ASSUME NEW r \in Requests,
             LockEntry(r) \/ Count(r) \/ RemoveEntry(r) \/ RollBack(r)
      PROVE  Quiet
  BY <1>4 DEF LockEntry, Count, RemoveEntry, RollBack, sums
<1>5. ASSUME NEW r \in Requests, StartTimer(r)
      PROVE  Quiet \/ OneAdds
  <2>1. stage[r] = "insert" /\ entry[r] \in Entries
    BY <1>5 DEF StartTimer, TimeInv, Items, TimeTypeOK
  <2>2. UNCHANGED <<seconds, tracked, counted>>
    BY <1>5 DEF StartTimer, sums
  <2>3. CASE UNCHANGED phase
    BY <2>2, <2>3
  <2>4. CASE phase' = [phase EXCEPT ![entry[r]] = "running"]
    <3>1. OthersKept(entry[r])
      BY <1>0, <2>1, <2>2, <2>4 DEF OthersKept
    <3>2. AddSeconds(entry[r], 0)
      <4>1. EntryTask[entry[r]] \in Tasks
        BY <2>1, TimeAssumption
      <4>2. tracked[EntryTask[entry[r]]] \in Int /\ counted[entry[r]] \in Int
        BY <2>1, <4>1 DEF TimeInv, TimeTypeOK
      <4>3. tracked = [tracked EXCEPT ![EntryTask[entry[r]]] = @ + 0]
        BY <4>2 DEF TimeInv, TimeTypeOK
      <4>4. counted = [counted EXCEPT ![entry[r]] = @ + 0]
        BY <4>2 DEF TimeInv, TimeTypeOK
      <4> QED
        BY <2>2, <4>3, <4>4 DEF AddSeconds
    <3> QED
      BY <2>1, <3>1, <3>2
  <2> QED
    BY <1>5, <2>3, <2>4 DEF StartTimer
<1>6. ASSUME NEW r \in Requests, Commit(r)
      PROVE  OneAdds
  <2>1. entry[r] \in Entries /\ draft[r].delta \in Int
    BY <1>6, DraftTypes DEF Commit
  <2>2. AddSeconds(entry[r], draft[r].delta) /\ OthersKept(entry[r])
    BY <1>0, <1>6, <2>1 DEF Commit, OthersKept
  <2> QED
    BY <2>1, <2>2
<1>7. ASSUME NEW r \in Requests, NEW d \in Durations, StopTimer(r, d) \/ UpdateEntry(r, d)
      PROVE  Quiet
  BY <1>7 DEF StopTimer, UpdateEntry, sums
<1> HIDE DEF Quiet, OneAdds
<1>8. ASSUME NEW r \in Requests, Proceed(r) PROVE Quiet \/ OneAdds
  BY <1>4, <1>5, <1>6, <1>7, <1>8 DEF Proceed
<1>9. Quiet \/ OneAdds
  BY <1>1, <1>2, <1>3, <1>4, <1>8 DEF TimeNext
<1> QED
  BY <1>9 DEF Quiet, OneAdds

(* What the step adds to the total is what it changes in that length.      *)
LEMMA StepIsBooked ==
  ASSUME TimeInv, TimeInv', [TimeNext]_timeVars
  PROVE  Booked
<1>1. \A e \in Entries : Length(e) = counted[e] /\ Length(e)' = counted'[e]
  BY DEF TimeInv, CountedOnce, Length
<1>2. ASSUME NEW e \in Entries, NEW n \in Int, AddSeconds(e, n), OthersKept(e)
      PROVE  Booked
  <2>1. counted[e] \in Int /\ EntryTask[e] \in Tasks
    BY TimeAssumption DEF TimeInv, TimeTypeOK
  <2>2. counted'[e] = counted[e] + n
    BY <1>2 DEF TimeInv, TimeTypeOK, AddSeconds
  <2>3. tracked[EntryTask[e]] \in Int
    BY <2>1 DEF TimeInv, TimeTypeOK
  <2>4. tracked[EntryTask[e]] + n = tracked[EntryTask[e]] + Length(e)' - Length(e)
    BY <1>1, <2>1, <2>2, <2>3
  <2>5. tracked' = [tracked EXCEPT ![EntryTask[e]] = @ + Length(e)' - Length(e)]
    BY <1>2, <2>4 DEF AddSeconds
  <2> QED
    BY <1>2, <2>5 DEF Booked
<1>3. CASE UNCHANGED <<phase, seconds, tracked, counted>>
  BY <1>3 DEF Booked
<1> QED
  BY <1>2, <1>3, StepChangesOne

(* However requests on an entry race, each step changes one entry at most, *)
(* and the total of its task by exactly what that changes in the length    *)
(* the entry counts for.                                                   *)
THEOREM Bookkeeping == TimeSpec => [][Booked]_timeVars
<1>1. ASSUME TimeInv, TimeInv', [TimeNext]_timeVars
      PROVE  [Booked]_timeVars
  BY <1>1, StepIsBooked
<1> QED
  BY <1>1, TimeInvariance, PTL DEF TimeSpec

(* Only so many entries were ever inserted, and every task has the sum of  *)
(* the lengths of its completed ones.                                      *)
Done(t) == {e \in Entries : EntryTask[e] = t /\ phase[e] = "done"}
Inserted == {e \in Entries : phase[e] # "absent"}
Ledger ==
  /\ IsFiniteSet(Inserted)
  /\ \A t \in Tasks : tracked[t] = Total(seconds, Done(t))

(* No entries, no seconds.                                                 *)
LEMMA InitLedger == TimeInit => Ledger
<1> SUFFICES ASSUME TimeInit PROVE Ledger
  OBVIOUS
<1>1. Inserted = {} /\ \A t \in Tasks : Done(t) = {}
  BY DEF TimeInit, Inserted, Done
<1>2. IsFiniteSet({}) /\ Total(seconds, {}) = 0
  BY FS_EmptySet, TotalStep
<1> QED
  BY <1>1, <1>2 DEF Ledger, TimeInit

(* A step changes the sum as it changes the total.                         *)
LEMMA StepKeepsLedger ==
  ASSUME TimeInv, TimeInv', Ledger, Booked
  PROVE  Ledger'
<1>0. /\ seconds \in [Entries -> Int] /\ seconds' \in [Entries -> Int]
      /\ tracked \in [Tasks -> Int]
  <2>1. Durations \union {0} \subseteq Int
    BY TimeAssumption
  <2> QED
    BY <2>1 DEF TimeInv, TimeTypeOK
<1>1. CASE UNCHANGED <<phase, seconds, tracked>>
  BY <1>1 DEF Ledger, Inserted, Done
<1>2. ASSUME NEW e \in Entries, OthersKept(e),
             tracked' = [tracked EXCEPT ![EntryTask[e]] = @ + Length(e)' - Length(e)]
      PROVE  Ledger'
  <2>1. IsFiniteSet(Inserted')
    <3>1. Inserted' \subseteq Inserted \union {e}
      BY <1>2 DEF Inserted, OthersKept
    <3> QED
      BY <3>1, FS_AddElement, FS_Subset DEF Ledger
  <2>2. ASSUME NEW t \in Tasks
        PROVE  tracked'[t] = Total(seconds', Done(t)')
    <3> DEFINE R == Done(t) \ {e}
               Share == IF EntryTask[e] = t THEN Length(e) ELSE 0
    <3>1. /\ IsFiniteSet(Done(t)) /\ Done(t) \subseteq Entries
          /\ IsFiniteSet(Done(t)') /\ Done(t)' \subseteq Entries
      <4>1. Done(t) \subseteq Inserted /\ Done(t)' \subseteq Inserted'
        BY DEF Done, Inserted
      <4> QED
        BY <2>1, <4>1, FS_Subset DEF Ledger, Done
    <3>2. Done(t)' \ {e} = R
      BY <1>2 DEF Done, OthersKept
    <3>3. IsFiniteSet(R) /\ \A f \in R : seconds[f] = seconds'[f]
      BY <1>2, <3>1, FS_RemoveElement DEF Done, OthersKept
    <3>4. Total(seconds, R) = Total(seconds', R)
      BY <3>3, TotalSame
    <3>5. Total(seconds, R) \in Int /\ Total(seconds, Done(t)) = Total(seconds, R) + Share
      <4>1. (IF e \in Done(t) THEN seconds[e] ELSE 0) = Share
        BY DEF Done, Length
      <4> QED
        BY <1>0, <3>1, <4>1, TotalWithout
    <3>6. Total(seconds', Done(t)') = Total(seconds', R) + Share'
      <4>1. (IF e \in Done(t)' THEN seconds'[e] ELSE 0) = Share'
        BY DEF Done, Length
      <4>2. Total(seconds', Done(t)')
              = Total(seconds', Done(t)' \ {e}) + (IF e \in Done(t)' THEN seconds'[e] ELSE 0)
        BY <1>0, <3>1, TotalWithout
      <4> QED
        BY <3>2, <4>1, <4>2
    <3>7. tracked'[t] = tracked[t] + Share' - Share
      <4>1. tracked[t] \in Int
        BY <1>0
      <4>2. CASE EntryTask[e] = t
        BY <1>0, <1>2, <4>2
      <4>3. CASE EntryTask[e] # t
        BY <1>0, <1>2, <4>1, <4>3
      <4> QED
        BY <4>2, <4>3
    <3>8. Share \in Int /\ Share' \in Int
      BY <1>0 DEF Length
    <3> HIDE DEF Share, R
    <3> QED
      BY <3>4, <3>5, <3>6, <3>7, <3>8 DEF Ledger
  <2> QED
    BY <2>1, <2>2 DEF Ledger
<1> QED
  BY <1>1, <1>2 DEF Booked

(* The total of a task is at any time the sum of its completed entries,    *)
(* whatever the requests on them do at once and wherever they fail.        *)
THEOREM TotalsAddUp == TimeSpec => []TrackedIsSum
<1>1. TimeInv /\ TimeInv' /\ Ledger /\ [TimeNext]_timeVars => Ledger'
  BY StepIsBooked, StepKeepsLedger
<1>2. Ledger => TrackedIsSum
  <2>1. ASSUME NEW t \in Tasks
        PROVE  MapThenSumSet(LAMBDA e : seconds[e], Done(t)) = Total(seconds, Done(t))
    BY DEF MapThenSumSet, MapThenFoldSet, Total, Adds, Chosen
  <2> QED
    BY <2>1 DEF Ledger, TrackedIsSum, MapThenSumSet, MapThenFoldSet, Done
<1> QED
  BY <1>1, <1>2, InitLedger, TimeInvariance, PTL DEF TimeSpec
=============================================================================
