---------------------------- MODULE UndoRedoProofs ----------------------------
(***************************************************************************)
(* What the model checker shows of UndoRedo for two entities, proved for   *)
(* any entities, slots, widgets and values and stacks of any length.  The  *)
(* invariant speaks of addresses: at a clean address lives an entity whose *)
(* field there has not leaked.  No step makes an address clean; what the   *)
(* stacks know of the clean ones follows step by step.                     *)
(***************************************************************************)
EXTENDS UndoRedo, SequenceTheorems, TLAPS

Bit == {"flags", "enabled"}  \* the fields with the values 0 and 1

Clean(a) == \E c \in CellsAt(a) : status[c] # "leaked"

Has(items, a) == \E n \in DOMAIN items : items[n].ptr = a

\* The first of the items at the address a has the bytes d.
FirstIs(items, a, d) ==
  \E n \in DOMAIN items :
    /\ items[n].ptr = a /\ items[n].data = d
    /\ \A m \in DOMAIN items : items[m].ptr = a => n <= m

\* The bytes of an item: those of flags and enabled are bits.
GoodItem == {i \in ItemType : i.ptr[2] \in Bit => i.data \in {0, 1}}

Memory == [Slot -> [Field -> Values]]

OwnSlots == \A d, e \in Alive : d # e => where[d] # where[e]

DocOK ==
  /\ where \in [Entity -> Slot \union {Gone}] /\ OwnSlots
  /\ memory \in Memory /\ \A s \in Slot, f \in Bit : memory[s][f] \in {0, 1}
  /\ selected \in Entity \union {Nobody} /\ moves \in 0..MaxMoves

HistOK ==
  status \in [Cells -> Status] /\ latest \in [Cells -> Values] /\ touched \subseteq Address

\* Properties pushes flags and enabled of one entity.
IsPushed(temps) ==
  /\ temps \in Seq(GoodItem) /\ Len(temps) = 2
  /\ temps[1].ptr[1] = temps[2].ptr[1]
  /\ temps[1].ptr[2] = "flags" /\ temps[2].ptr[2] = "enabled"

\* The item of a tag is for the field that the widget pushes.
GoodSingles ==
  {singles \in [Widget -> GoodItem \union {NoItem}] :
     \A t \in Widget : singles[t] # NoItem => singles[t].ptr[2] = Pushes[t]}

ItemsOK ==
  /\ undo_items \in Seq(GoodItem) /\ redo_items \in Seq(GoodItem)
  /\ temp_items = <<>> \/ (phase = "panel" /\ IsPushed(temp_items))
  /\ single_items \in GoodSingles

Typed ==
  /\ phase \in Phases /\ active \in Widget \union {Idle}
  /\ DocOK /\ HistOK /\ ItemsOK

OpenItem(i) ==
  \/ \E t \in Widget : single_items[t] # NoItem /\ single_items[t] = i
  \/ \E n \in DOMAIN temp_items : temp_items[n] = i

\* An item that no widget in use will commit lies at no clean address.
NoStray ==
  \A t \in Widget : single_items[t] # NoItem /\ Clean(single_items[t].ptr) => t = active

\* The first item of a clean address has the value of the beginning: in the stack,
\* or else of the open edit; where there is neither, the value was never changed.
Restores ==
  \A a \in Address : Clean(a) =>
    /\ Has(undo_items, a) => FirstIs(undo_items, a, NewFields[a[2]])
    /\ ~ Has(undo_items, a) =>
         /\ \A i : OpenItem(i) /\ i.ptr = a => i.data = NewFields[a[2]]
         /\ (\A i : OpenItem(i) => i.ptr # a) => At(memory, a) = NewFields[a[2]]

\* At a clean address, an open item with other bytes than the memory was touched.
Accounted ==
  \A i : OpenItem(i) /\ At(memory, i.ptr) # i.data /\ Clean(i.ptr) => i.ptr \in touched

\* The first item to redo of a kept field has the latest value, or the memory has.
Returns ==
  \A a \in Address : \A c \in CellsAt(a) : status[c] = "kept" =>
    /\ Has(redo_items, a) => FirstIs(redo_items, a, latest[c])
    /\ ~ Has(redo_items, a) => At(memory, a) = latest[c]

UInv == Typed /\ NoStray /\ Restores /\ Accounted /\ Returns
----------------------------------------------------------------------------
(* Addresses and items *)

LEMMA AddressParts ==
  ASSUME NEW a \in Address
  PROVE  a[1] \in Slot /\ a[2] \in Field /\ a = <<a[1], a[2]>>
BY DEF Address

\* A write changes the bytes at its address and no others.
LEMMA WriteFacts ==
  ASSUME NEW mem \in Memory, NEW a \in Address, NEW v \in Values
  PROVE  /\ Write(mem, a, v) \in Memory
         /\ \A b \in Address : At(Write(mem, a, v), b) = IF b = a THEN v ELSE At(mem, b)
         /\ \A s \in Slot, f \in Field :
              Write(mem, a, v)[s][f] = IF s = a[1] /\ f = a[2] THEN v ELSE mem[s][f]
<1>1. a[1] \in Slot /\ a[2] \in Field
  BY AddressParts
<1>2. Write(mem, a, v) = [mem EXCEPT ![a[1]] = [mem[a[1]] EXCEPT ![a[2]] = v]]
  BY <1>1 DEF Write, Memory
<1>3. mem[a[1]] \in [Field -> Values]
  BY <1>1 DEF Memory
<1>4. [mem[a[1]] EXCEPT ![a[2]] = v] \in [Field -> Values]
  BY <1>1, <1>3
<1>5. Write(mem, a, v) \in Memory
  BY <1>1, <1>2, <1>4 DEF Memory
<1>6. ASSUME NEW s \in Slot, NEW f \in Field
      PROVE  Write(mem, a, v)[s][f] = IF s = a[1] /\ f = a[2] THEN v ELSE mem[s][f]
  BY <1>1, <1>2, <1>3 DEF Memory
<1>7. ASSUME NEW b \in Address
      PROVE  At(Write(mem, a, v), b) = IF b = a THEN v ELSE At(mem, b)
  <2>1. b[1] \in Slot /\ b[2] \in Field /\ (b = a <=> b[1] = a[1] /\ b[2] = a[2])
    BY AddressParts
  <2> QED
    BY <1>6, <2>1 DEF At
<1> QED
  BY <1>5, <1>6, <1>7

LEMMA AtTyped ==
  ASSUME NEW mem \in Memory, NEW a \in Address
  PROVE  At(mem, a) \in Values
BY AddressParts DEF At, Memory

LEMMA ItemParts ==
  ASSUME NEW i \in GoodItem
  PROVE  /\ i \in ItemType /\ i.ptr \in Address /\ i.data \in Values
         /\ i.ptr[2] \in Bit => i.data \in {0, 1}
BY DEF GoodItem, ItemType

LEMMA GoodItems ==
  ASSUME NEW items \in Seq(GoodItem)
  PROVE  items \in Seq(ItemType)
<1>1. GoodItem \subseteq ItemType
  BY DEF GoodItem
<1> QED
  BY <1>1

----------------------------------------------------------------------------
(* The items at an address *)

\* The first item at an address has one value.
LEMMA OneFirst ==
  ASSUME NEW items \in Seq(GoodItem), NEW a, NEW d, NEW e,
         FirstIs(items, a, d), FirstIs(items, a, e)
  PROVE  d = e
<1>1. PICK n \in DOMAIN items :
        /\ items[n].ptr = a /\ items[n].data = d
        /\ \A m \in DOMAIN items : items[m].ptr = a => n <= m
  BY DEF FirstIs
<1>2. PICK k \in DOMAIN items :
        /\ items[k].ptr = a /\ items[k].data = e
        /\ \A m \in DOMAIN items : items[m].ptr = a => k <= m
  BY DEF FirstIs
<1>3. n <= k /\ k <= n
  BY <1>1, <1>2
<1>4. DOMAIN items = 1..Len(items) /\ Len(items) \in Nat
  BY LenProperties
<1> QED
  BY <1>1, <1>2, <1>3, <1>4

\* Items at the end of a list come after those that it has.
LEMMA FirstOfBoth ==
  ASSUME NEW items \in Seq(GoodItem), NEW more \in Seq(GoodItem), NEW a
  PROVE  /\ Has(items \o more, a) <=> Has(items, a) \/ Has(more, a)
         /\ \A d : FirstIs(items, a, d) => FirstIs(items \o more, a, d)
         /\ ~ Has(items, a) => \A d : FirstIs(more, a, d) => FirstIs(items \o more, a, d)
<1> DEFINE both == items \o more
<1>1. /\ DOMAIN items = 1..Len(items) /\ Len(items) \in Nat
      /\ DOMAIN more = 1..Len(more) /\ Len(more) \in Nat
  BY LenProperties
<1>2. /\ DOMAIN both = 1..(Len(items) + Len(more))
      /\ \A n \in 1..Len(items) : both[n] = items[n]
      /\ \A n \in 1..Len(more) : both[Len(items) + n] = more[n]
      /\ \A n \in DOMAIN both : n \in DOMAIN items \/ n - Len(items) \in DOMAIN more
  <2>1. both \in Seq(GoodItem) /\ Len(both) = Len(items) + Len(more)
    BY ConcatProperties
  <2>2. DOMAIN both = 1..(Len(items) + Len(more))
    BY <2>1, LenProperties
  <2>3. \A n \in 1..(Len(items) + Len(more)) :
          both[n] = IF n <= Len(items) THEN items[n] ELSE more[n - Len(items)]
    BY ConcatProperties
  <2>4. ASSUME NEW n \in 1..Len(more) PROVE both[Len(items) + n] = more[n]
    BY <1>1, <2>3
  <2> QED
    BY <1>1, <2>2, <2>3, <2>4
<1> HIDE DEF both
<1>3. Has(both, a) <=> Has(items, a) \/ Has(more, a)
  <2>1. ASSUME NEW n \in DOMAIN both, both[n].ptr = a PROVE Has(items, a) \/ Has(more, a)
    <3>1. CASE n \in DOMAIN items
      BY <1>1, <1>2, <2>1, <3>1 DEF Has
    <3>2. CASE n - Len(items) \in DOMAIN more
      <4> DEFINE k == n - Len(items)
      <4>1. k \in 1..Len(more) /\ Len(items) + k = n
        BY <1>1, <1>2, <2>1, <3>2
      <4>2. more[k].ptr = a
        BY <1>2, <2>1, <4>1
      <4> QED
        BY <1>1, <4>1, <4>2 DEF Has
    <3> QED
      BY <1>2, <3>1, <3>2
  <2>2. ASSUME NEW n \in DOMAIN items, items[n].ptr = a PROVE Has(both, a)
    <3>1. n \in DOMAIN both /\ both[n] = items[n]
      BY <1>1, <1>2
    <3> QED
      BY <2>2, <3>1 DEF Has
  <2>3. ASSUME NEW n \in DOMAIN more, more[n].ptr = a PROVE Has(both, a)
    <3>1. Len(items) + n \in DOMAIN both /\ both[Len(items) + n] = more[n]
      BY <1>1, <1>2
    <3> QED
      BY <2>3, <3>1 DEF Has
  <2> QED
    BY <2>1, <2>2, <2>3 DEF Has
<1>4. ASSUME NEW d, FirstIs(items, a, d) PROVE FirstIs(both, a, d)
  <2>1. PICK n \in DOMAIN items :
          /\ items[n].ptr = a /\ items[n].data = d
          /\ \A m \in DOMAIN items : items[m].ptr = a => n <= m
    BY <1>4 DEF FirstIs
  <2>2. n \in DOMAIN both /\ both[n] = items[n]
    BY <1>1, <1>2
  <2>3. ASSUME NEW m \in DOMAIN both, both[m].ptr = a PROVE n <= m
    <3>1. CASE m \in DOMAIN items
      BY <1>1, <1>2, <2>1, <2>3, <3>1
    <3>2. CASE m - Len(items) \in DOMAIN more
      BY <1>1, <1>2, <3>2
    <3> QED
      BY <1>2, <3>1, <3>2
  <2> QED
    BY <2>1, <2>2, <2>3 DEF FirstIs
<1>5. ASSUME ~ Has(items, a), NEW d, FirstIs(more, a, d) PROVE FirstIs(both, a, d)
  <2>1. PICK n \in DOMAIN more :
          /\ more[n].ptr = a /\ more[n].data = d
          /\ \A m \in DOMAIN more : more[m].ptr = a => n <= m
    BY <1>5 DEF FirstIs
  <2>2. Len(items) + n \in DOMAIN both /\ both[Len(items) + n] = more[n]
    BY <1>1, <1>2
  <2>3. ASSUME NEW m \in DOMAIN both, both[m].ptr = a PROVE Len(items) + n <= m
    <3>1. m \notin DOMAIN items
      BY <1>1, <1>2, <1>5, <2>3 DEF Has
    <3> DEFINE k == m - Len(items)
    <3>2. k \in 1..Len(more) /\ Len(items) + k = m
      BY <1>1, <1>2, <3>1
    <3>3. more[k].ptr = a
      BY <1>2, <2>3, <3>2
    <3>4. n <= k
      BY <1>1, <2>1, <3>2, <3>3
    <3> HIDE DEF k
    <3> QED
      BY <1>1, <3>2, <3>4
  <2> QED
    BY <2>1, <2>2, <2>3 DEF FirstIs
<1> QED
  BY <1>3, <1>4, <1>5 DEF both

----------------------------------------------------------------------------
(* What a commit keeps *)

\* Of the first n popped items those are kept, and only those, whose bytes changed.
Kept(kept, n, popped) ==
  /\ kept \in Seq(GoodItem)
  /\ \A k \in DOMAIN kept :
       \E m \in 1..n : popped[m].item = kept[k] /\ popped[m].now # kept[k].data
  /\ \A m \in 1..n :
       popped[m].now # popped[m].item.data => \E k \in DOMAIN kept : kept[k] = popped[m].item

Commits == INSTANCE FoldFacts WITH Op <- KeepChanged, P <- Kept

LEMMA KeepOne ==
  ASSUME NEW popped, NEW n \in Nat \ {0}, popped[n].item \in GoodItem,
         NEW kept, Kept(kept, n-1, popped)
  PROVE  Kept(KeepChanged(kept, popped[n]), n, popped)
<1> DEFINE i == popped[n].item
<1>1. /\ kept \in Seq(GoodItem) /\ DOMAIN kept = 1..Len(kept) /\ Len(kept) \in Nat
      /\ \A m \in 1..n : m # n => m \in 1..(n-1)
      /\ \A m \in 1..(n-1) : m \in 1..n
      /\ n \in 1..n
  BY LenProperties DEF Kept
<1>2. CASE popped[n].now = i.data
  <2>1. KeepChanged(kept, popped[n]) = kept
    BY <1>2 DEF KeepChanged
  <2> QED
    BY <1>1, <1>2, <2>1 DEF Kept
<1>3. CASE popped[n].now # i.data
  <2> DEFINE all == Append(kept, i)
  <2>1. KeepChanged(kept, popped[n]) = all
    BY <1>3 DEF KeepChanged
  <2>2. /\ all \in Seq(GoodItem) /\ DOMAIN all = 1..(Len(kept) + 1)
        /\ \A k \in 1..Len(kept) : all[k] = kept[k]
        /\ all[Len(kept) + 1] = i
    BY <1>1, AppendProperties, LenProperties
  <2> HIDE DEF all
  <2>3. ASSUME NEW k \in DOMAIN all
        PROVE  \E m \in 1..n : popped[m].item = all[k] /\ popped[m].now # all[k].data
    <3>1. CASE k = Len(kept) + 1
      BY <1>1, <1>3, <2>2, <3>1
    <3>2. CASE k # Len(kept) + 1
      <4>1. k \in DOMAIN kept /\ all[k] = kept[k]
        BY <1>1, <2>2, <3>2
      <4> QED
        BY <1>1, <4>1 DEF Kept
    <3> QED
      BY <3>1, <3>2
  <2>4. ASSUME NEW m \in 1..n, popped[m].now # popped[m].item.data
        PROVE  \E k \in DOMAIN all : all[k] = popped[m].item
    <3>1. CASE m = n
      <4>1. Len(kept) + 1 \in DOMAIN all
        BY <1>1, <2>2
      <4> QED
        BY <2>2, <3>1, <4>1
    <3>2. CASE m # n
      <4>1. PICK k \in DOMAIN kept : kept[k] = popped[m].item
        BY <1>1, <2>4, <3>2 DEF Kept
      <4>2. k \in DOMAIN all /\ all[k] = kept[k]
        BY <1>1, <2>2
      <4> QED
        BY <4>1, <4>2
    <3> QED
      BY <3>1, <3>2
  <2> QED
    BY <2>1, <2>2, <2>3, <2>4 DEF Kept
<1> QED
  BY <1>2, <1>3

\* undo_commit, whatever the number of items: what it appends are the changed ones.
LEMMA ChangedFacts ==
  ASSUME NEW items \in Seq(GoodItem), NEW mem \in Memory
  PROVE  /\ ChangedItems(items, mem) \in Seq(GoodItem)
         /\ \A k \in DOMAIN ChangedItems(items, mem) :
              \E m \in DOMAIN items : /\ items[m] = ChangedItems(items, mem)[k]
                                      /\ At(mem, items[m].ptr) # items[m].data
         /\ \A m \in DOMAIN items :
              At(mem, items[m].ptr) # items[m].data =>
                \E k \in DOMAIN ChangedItems(items, mem) :
                  ChangedItems(items, mem)[k] = items[m]
<1> DEFINE popped == [n \in DOMAIN items |-> [item |-> items[n], now |-> At(mem, items[n].ptr)]]
           kept   == FoldLeft(KeepChanged, <<>>, popped)
           n      == Len(items)
<1>1. n \in Nat /\ DOMAIN popped = 1..n /\ DOMAIN items = 1..n
  BY LenProperties
<1>2. \A m \in 1..n : /\ popped[m].item = items[m] /\ items[m] \in GoodItem
                      /\ popped[m].now = At(mem, items[m].ptr)
  BY <1>1, ElementOfSeq
<1>3. ChangedItems(items, mem) = kept
  BY DEF ChangedItems
<1>4. kept = Commits!FoldLeft(KeepChanged, <<>>, popped)
  BY DEF FoldLeft, MapThenFoldSet, Max,
         Commits!FoldLeft, Commits!MapThenFoldSet, Commits!Max
<1> HIDE DEF popped, kept, n
<1>5. Kept(<<>>, 0, popped)
  BY DEF Kept
<1>6. ASSUME NEW acc, NEW m \in 1..n, Kept(acc, m-1, popped)
      PROVE  Kept(KeepChanged(acc, popped[m]), m, popped)
  BY <1>1, <1>2, <1>6, KeepOne
<1>7. Kept(kept, n, popped)
  BY <1>1, <1>4, <1>5, <1>6, Commits!FoldInduction
<1> QED
  BY <1>1, <1>2, <1>3, <1>7 DEF Kept

----------------------------------------------------------------------------
(* The end of a list of items *)

LEMMA SomeFirst ==
  ASSUME NEW items \in Seq(GoodItem), NEW a, Has(items, a)
  PROVE  \E n \in DOMAIN items : items[n].ptr = a /\ FirstIs(items, a, items[n].data)
<1> DEFINE own == {n \in DOMAIN items : items[n].ptr = a}
<1>1. own \in SUBSET Nat /\ own # {}
  BY LenProperties DEF Has
<1>2. PICK n \in own : \A m \in own : n <= m
  BY <1>1, Commits!LeastNumber
<1> QED
  BY <1>2 DEF FirstIs

LEMMA FirstAfterAppend ==
  ASSUME NEW items \in Seq(GoodItem), NEW i \in GoodItem, NEW a
  PROVE  /\ Append(items, i) \in Seq(GoodItem)
         /\ Has(Append(items, i), a) <=> Has(items, a) \/ i.ptr = a
         /\ \A d : FirstIs(items, a, d) => FirstIs(Append(items, i), a, d)
         /\ ~ Has(items, a) /\ i.ptr = a => FirstIs(Append(items, i), a, i.data)
<1> DEFINE one == <<i>>
<1>1. one \in Seq(GoodItem) /\ DOMAIN one = {1} /\ one[1] = i
  OBVIOUS
<1>2. Has(one, a) <=> i.ptr = a
  BY <1>1, Zenon DEF Has
<1>3. i.ptr = a => FirstIs(one, a, i.data)
  BY <1>1 DEF FirstIs
<1>4. Append(items, i) = items \o one
  BY AppendIsConcat
<1> HIDE DEF one
<1>5. Append(items, i) \in Seq(GoodItem)
  BY AppendProperties
<1> QED
  BY <1>1, <1>2, <1>3, <1>4, <1>5, FirstOfBoth

\* A list that is not empty is its front and its last item.
LEMMA FrontAndLast ==
  ASSUME NEW items \in Seq(GoodItem), items # <<>>
  PROVE  /\ Front(items) \in Seq(GoodItem) /\ Last(items) \in GoodItem
         /\ items = Append(Front(items), Last(items))
         /\ Len(Front(items)) < Len(items)
         /\ Len(items) \in Nat /\ Len(Front(items)) \in Nat
<1>1. PICK s \in Seq(GoodItem), i \in GoodItem : items = Append(s, i)
  BY SequenceEmptyOrAppend
<1>2. Len(items) = Len(s) + 1 /\ items[Len(items)] = i /\ Len(s) \in Nat
  BY <1>1, AppendProperties, LenProperties
<1>3. SubSeq(items, 1, Len(items) - 1) = s
  BY <1>1, <1>2, AppendProperties
<1> QED
  BY <1>1, <1>2, <1>3 DEF Front, Last

\* What is at an address when the last item of a stack is taken.
LEMMA FirstAfterPop ==
  ASSUME NEW items \in Seq(GoodItem), items # <<>>, NEW a, NEW d,
         Has(items, a) => FirstIs(items, a, d)
  PROVE  /\ Has(items, a) <=> Has(Front(items), a) \/ Last(items).ptr = a
         /\ Has(Front(items), a) => FirstIs(Front(items), a, d)
         /\ ~ Has(Front(items), a) /\ Last(items).ptr = a => Last(items).data = d
<1> DEFINE front == Front(items)
           last  == Last(items)
<1>1. front \in Seq(GoodItem) /\ last \in GoodItem /\ items = Append(front, last)
  BY FrontAndLast
<1> HIDE DEF front, last
<1>2. Has(items, a) <=> Has(front, a) \/ last.ptr = a
  BY <1>1, FirstAfterAppend
<1>3. ~ Has(front, a) /\ last.ptr = a => last.data = d
  <2>1. ASSUME ~ Has(front, a), last.ptr = a PROVE last.data = d
    <3>1. FirstIs(items, a, last.data)
      BY <1>1, <2>1, FirstAfterAppend
    <3> QED
      BY <1>2, <2>1, <3>1, OneFirst
  <2> QED
    BY <2>1
<1>4. Has(front, a) => FirstIs(front, a, d)
  <2>1. ASSUME Has(front, a) PROVE FirstIs(front, a, d)
    <3>1. PICK e : FirstIs(front, a, e)
      BY <1>1, <2>1, SomeFirst
    <3>2. FirstIs(items, a, e)
      BY <1>1, <3>1, FirstAfterAppend
    <3>3. e = d
      BY <1>2, <2>1, <3>2, OneFirst
    <3> QED
      BY <3>1, <3>3
  <2> QED
    BY <2>1
<1> QED
  BY <1>2, <1>3, <1>4 DEF front, last

\* A stack after a commit of the items: an address that it had keeps its first item,
\* another gets one of the items, and gets one if an item for it has changed.
GrownBy(grown, stack, items, mem) ==
  /\ grown \in Seq(GoodItem)
  /\ \A a :
       /\ Has(stack, a) => Has(grown, a)
       /\ \A d : FirstIs(stack, a, d) => FirstIs(grown, a, d)
       /\ ~ Has(stack, a) /\ Has(grown, a) =>
            \E m \in DOMAIN items : items[m].ptr = a /\ FirstIs(grown, a, items[m].data)
       /\ \A m \in DOMAIN items :
            items[m].ptr = a /\ At(mem, a) # items[m].data => Has(grown, a)

LEMMA CommitGrows ==
  ASSUME NEW stack \in Seq(GoodItem), NEW items \in Seq(GoodItem), NEW mem \in Memory
  PROVE  GrownBy(stack \o ChangedItems(items, mem), stack, items, mem)
<1> SUFFICES ASSUME NEW grown, grown = stack \o ChangedItems(items, mem)
             PROVE  GrownBy(grown, stack, items, mem)
  OBVIOUS
<1> DEFINE kept == ChangedItems(items, mem)
<1>1. /\ kept \in Seq(GoodItem)
      /\ \A k \in DOMAIN kept :
           \E m \in DOMAIN items : items[m] = kept[k] /\ At(mem, items[m].ptr) # items[m].data
      /\ \A m \in DOMAIN items :
           At(mem, items[m].ptr) # items[m].data => \E k \in DOMAIN kept : kept[k] = items[m]
  BY ChangedFacts
<1>2. grown = stack \o kept
  OBVIOUS
<1> HIDE DEF kept
<1>3. grown \in Seq(GoodItem)
  BY <1>1, <1>2
<1>4. ASSUME NEW a
      PROVE  /\ Has(stack, a) => Has(grown, a)
             /\ \A d : FirstIs(stack, a, d) => FirstIs(grown, a, d)
             /\ ~ Has(stack, a) /\ Has(grown, a) =>
                  \E m \in DOMAIN items : items[m].ptr = a /\ FirstIs(grown, a, items[m].data)
             /\ \A m \in DOMAIN items :
                  items[m].ptr = a /\ At(mem, a) # items[m].data => Has(grown, a)
  <2>1. /\ Has(stack \o kept, a) <=> Has(stack, a) \/ Has(kept, a)
        /\ \A d : FirstIs(stack, a, d) => FirstIs(stack \o kept, a, d)
        /\ ~ Has(stack, a) => \A d : FirstIs(kept, a, d) => FirstIs(stack \o kept, a, d)
    BY <1>1, FirstOfBoth
  <2>2. /\ Has(grown, a) <=> Has(stack, a) \/ Has(kept, a)
        /\ \A d : FirstIs(stack, a, d) => FirstIs(grown, a, d)
        /\ ~ Has(stack, a) => \A d : FirstIs(kept, a, d) => FirstIs(grown, a, d)
    BY <1>2, <2>1
  <2>3. ASSUME ~ Has(stack, a), Has(grown, a)
        PROVE  \E m \in DOMAIN items : items[m].ptr = a /\ FirstIs(grown, a, items[m].data)
    <3>1. PICK k \in DOMAIN kept : kept[k].ptr = a /\ FirstIs(kept, a, kept[k].data)
      BY <1>1, <2>2, <2>3, SomeFirst
    <3>2. PICK m \in DOMAIN items : items[m] = kept[k]
      BY <1>1
    <3> QED
      BY <2>2, <2>3, <3>1, <3>2
  <2>4. ASSUME NEW m \in DOMAIN items, items[m].ptr = a, At(mem, a) # items[m].data
        PROVE  Has(grown, a)
    <3>1. PICK k \in DOMAIN kept : kept[k] = items[m]
      BY <1>1, <2>4
    <3> QED
      BY <2>2, <2>4, <3>1 DEF Has
  <2> QED
    BY <2>2, <2>3, <2>4
<1> QED
  BY <1>3, <1>4 DEF GrownBy

LEMMA EndOfSequence ==
  ASSUME NEW S, NEW s \in Seq(S), NEW l \in Nat, NEW n \in Nat, Len(s) = l + n
  PROVE  /\ SubSeq(s, l + 1, Len(s)) \in Seq(S)
         /\ Len(SubSeq(s, l + 1, Len(s))) = n
         /\ \A k \in 1..n : SubSeq(s, l + 1, Len(s))[k] = s[l + k]
<1>1. \A k \in (l + 1)..Len(s) : s[k] \in S
  BY LenProperties, ElementOfSeq
<1>2. l + 1 \in Int /\ Len(s) \in Int
  OBVIOUS
<1>3. /\ SubSeq(s, l + 1, Len(s)) \in Seq(S)
      /\ Len(SubSeq(s, l + 1, Len(s))) = IF l + 1 <= Len(s) THEN Len(s) - (l + 1) + 1 ELSE 0
      /\ \A k \in 1..(Len(s) - (l + 1) + 1) : SubSeq(s, l + 1, Len(s))[k] = s[(l + 1) + k - 1]
  BY <1>1, <1>2, SubSeqProperties
<1>4. Len(s) - (l + 1) + 1 = n /\ (l + 1 <= Len(s) \/ n = 0)
  OBVIOUS
<1>5. \A k \in 1..n : (l + 1) + k - 1 = l + k
  OBVIOUS
<1> QED
  BY <1>3, <1>4, <1>5

\* What a commit adds to a stack are items of it whose bytes have changed.
AddedTo(grown, stack, items, mem) ==
  \A i \in ToSet(SubSeq(grown, Len(stack) + 1, Len(grown))) :
    \E m \in DOMAIN items : items[m] = i /\ At(mem, i.ptr) # i.data

LEMMA AddedByCommit ==
  ASSUME NEW stack \in Seq(GoodItem), NEW items \in Seq(GoodItem), NEW mem \in Memory,
         NEW grown, grown = stack \o ChangedItems(items, mem)
  PROVE  AddedTo(grown, stack, items, mem)
<1> SUFFICES ASSUME NEW i \in ToSet(SubSeq(grown, Len(stack) + 1, Len(grown)))
             PROVE  \E m \in DOMAIN items : items[m] = i /\ At(mem, i.ptr) # i.data
  BY DEF AddedTo
<1> DEFINE kept == ChangedItems(items, mem)
<1>1. /\ kept \in Seq(GoodItem)
      /\ \A k \in DOMAIN kept :
           \E m \in DOMAIN items : items[m] = kept[k] /\ At(mem, items[m].ptr) # items[m].data
  BY ChangedFacts
<1>2. grown = stack \o kept
  OBVIOUS
<1> HIDE DEF kept
<1>3. /\ Len(stack) \in Nat /\ Len(kept) \in Nat /\ DOMAIN kept = 1..Len(kept)
      /\ Len(grown) = Len(stack) + Len(kept)
      /\ \A n \in 1..(Len(stack) + Len(kept)) :
           grown[n] = IF n <= Len(stack) THEN stack[n] ELSE kept[n - Len(stack)]
      /\ grown \in Seq(GoodItem)
  BY <1>1, <1>2, LenProperties, ConcatProperties
<1>4. PICK k \in DOMAIN SubSeq(grown, Len(stack) + 1, Len(grown)) :
        i = SubSeq(grown, Len(stack) + 1, Len(grown))[k]
  BY DEF ToSet
<1>5. /\ SubSeq(grown, Len(stack) + 1, Len(grown)) \in Seq(GoodItem)
      /\ Len(SubSeq(grown, Len(stack) + 1, Len(grown))) = Len(kept)
      /\ \A n \in 1..Len(kept) :
           SubSeq(grown, Len(stack) + 1, Len(grown))[n] = grown[Len(stack) + n]
  BY <1>3, EndOfSequence
<1>6. k \in 1..Len(kept) /\ i = grown[Len(stack) + k]
  BY <1>4, <1>5, LenProperties
<1>7. grown[Len(stack) + k] = kept[k]
  <2> DEFINE n == Len(stack) + k
  <2>1. n \in 1..(Len(stack) + Len(kept)) /\ ~(n <= Len(stack)) /\ n - Len(stack) = k
    BY <1>3, <1>6
  <2> QED
    BY <1>3, <2>1
<1> QED
  BY <1>1, <1>3, <1>6, <1>7

LEMMA ReverseFacts ==
  ASSUME NEW items \in Seq(GoodItem)
  PROVE  /\ Reverse(items) \in Seq(GoodItem)
         /\ \A m \in DOMAIN Reverse(items) : \E n \in DOMAIN items : items[n] = Reverse(items)[m]
         /\ \A n \in DOMAIN items : \E m \in DOMAIN Reverse(items) : Reverse(items)[m] = items[n]
<1>1. DOMAIN items = 1..Len(items) /\ Len(items) \in Nat
  BY LenProperties
<1>2. /\ DOMAIN Reverse(items) = 1..Len(items)
      /\ \A m \in 1..Len(items) : Reverse(items)[m] = items[(Len(items) - m) + 1]
  BY <1>1 DEF Reverse
<1>3. ASSUME NEW m \in 1..Len(items)
      PROVE  (Len(items) - m) + 1 \in 1..Len(items) /\ Len(items) - ((Len(items) - m) + 1) + 1 = m
  BY <1>1
<1>4. Reverse(items) \in Seq(GoodItem)
  BY <1>1, <1>3, ElementOfSeq DEF Reverse
<1> QED
  BY <1>1, <1>2, <1>3, <1>4

----------------------------------------------------------------------------
(* What a step leaves of the clean addresses *)

LEMMA TypedParts ==
  ASSUME Typed
  PROVE  UndoTypeOK
<1>1. /\ <<>> \in Seq(ItemType) /\ GoodItem \subseteq ItemType
      /\ undo_items \in Seq(ItemType) /\ redo_items \in Seq(ItemType)
  BY GoodItems DEF Typed, ItemsOK, GoodItem
<1>2. temp_items \in Seq(ItemType) /\ (phase # "panel" => temp_items = <<>>)
  <2>1. CASE temp_items = <<>>
    BY <1>1, <2>1
  <2>2. CASE phase = "panel" /\ IsPushed(temp_items)
    BY <2>2, GoodItems DEF IsPushed
  <2> QED
    BY <2>1, <2>2 DEF Typed, ItemsOK
<1>3. single_items \in [Widget -> ItemType \union {NoItem}]
  BY <1>1 DEF Typed, ItemsOK, GoodSingles
<1> QED
  BY <1>1, <1>2, <1>3 DEF Typed, DocOK, HistOK, UndoTypeOK, Memory

LEMMA WidgetFields ==
  ASSUME NEW t \in Widget
  PROVE  /\ Pushes[t] \in Field \ Bit /\ Edits[t] \in Field \ Bit
         /\ t \in Gizmos => Pushes[t] = Edits[t]
<1>1. t \in AllWidgets
  BY UndoAssumption
<1>2. Edits[t] \in {"local_position", "local_scale", "local_rotation"}
  BY <1>1 DEF Edits
<1>3. Pushes[t] = IF t = "LocalRotation" THEN "local_position" ELSE Edits[t]
  BY <1>1 DEF Pushes, Edits
<1>4. "LocalRotation" \notin Gizmos
  BY DEF Gizmos
<1> QED
  BY <1>2, <1>3, <1>4 DEF Field, Transform, Bit

LEMMA NewFieldsFacts ==
  /\ NewFields \in [Field -> Values]
  /\ \A f \in Field : NewFields[f] \in {0, 1}
BY UndoAssumption DEF NewFields

\* The living at an address, one at most.
LEMMA CellAt ==
  ASSUME DocOK, NEW a \in Address, NEW c \in CellsAt(a)
  PROVE  /\ c \in Cells /\ c[1] \in Alive /\ c = <<c[1], c[2]>>
         /\ a = <<where[c[1]], c[2]>>
         /\ \A e \in Alive : where[e] = a[1] => e = c[1]
<1>1. c \in Cells /\ where[c[1]] = a[1] /\ c[2] = a[2]
  BY DEF CellsAt
<1>2. a[1] \in Slot /\ a = <<a[1], a[2]>>
  BY AddressParts
<1>3. c[1] \in Alive
  BY <1>1, <1>2, UndoAssumption DEF Alive, Cells
<1> QED
  BY <1>1, <1>2, <1>3 DEF DocOK, OwnSlots, Cells

LEMMA AddressOf ==
  ASSUME DocOK, NEW e \in Alive, NEW f \in Field
  PROVE  <<where[e], f>> \in Address /\ where[e] \in Slot
BY DEF DocOK, Alive, Address

\* What a change is noted as: no field becomes clean or kept again.
LEMMA NoteFacts ==
  ASSUME HistOK, NEW leaking, NEW late, NEW last \in [Cells -> Values],
         Note(leaking, late, last)
  PROVE  /\ status' \in [Cells -> Status] /\ latest' \in [Cells -> Values]
         /\ \A c \in Cells : status'[c] # "leaked" => status[c] # "leaked" /\ c \notin leaking
         /\ \A c \in Cells :
              status'[c] = "kept" => status[c] = "kept" /\ c \notin late /\ latest'[c] = last[c]
<1>1. \A c \in Cells : status[c] \in Status
  BY DEF HistOK
<1>2. \A c \in Cells :
        status'[c] = IF c \in leaking THEN "leaked"
                     ELSE IF c \in late /\ status[c] = "kept" THEN "overtaken" ELSE status[c]
  BY DEF Note
<1>3. status' \in [Cells -> Status]
  BY <1>1 DEF Note, Status
<1>4. \A c \in Cells : latest'[c] = IF status'[c] = "kept" THEN last[c] ELSE NewFields[c[2]]
  BY DEF Note
<1>5. latest' \in [Cells -> Values]
  BY NewFieldsFacts DEF Note, Cells
<1> QED
  BY <1>2, <1>3, <1>4, <1>5

\* At the addresses that are still clean nothing has changed, and what has not leaked
\* is where it was.
Keeps ==
  \A a \in Address :
    /\ \A c \in CellsAt(a)' : status'[c] # "leaked" =>
         /\ c \in CellsAt(a) /\ status[c] # "leaked"
         /\ At(memory', a) = At(memory, a)
         /\ status'[c] = "kept" => status[c] = "kept" /\ latest'[c] = latest[c]
    /\ \A c \in CellsAt(a) : status'[c] # "leaked" =>
         status[c] # "leaked" /\ At(memory', a) = At(memory, a)

LEMMA KeepsClean ==
  ASSUME Keeps, NEW a \in Address, Clean(a)'
  PROVE  Clean(a) /\ At(memory', a) = At(memory, a)
BY DEF Keeps, Clean

LEMMA NothingChanged ==
  ASSUME UNCHANGED <<where, memory, status, latest>>
  PROVE  Keeps
BY DEF Keeps, CellsAt

\* More may leak while nothing changes.
LEMMA LeakKeeps ==
  ASSUME HistOK, UNCHANGED <<where, memory>>, NEW cells, Leak(cells)
  PROVE  /\ Keeps /\ status' \in [Cells -> Status] /\ latest' \in [Cells -> Values]
         /\ \A a \in Address : Clean(a)' => ~ (CellsAt(a) \subseteq cells)
<1>1. latest \in [Cells -> Values] /\ Note(cells, {}, latest)
  BY DEF HistOK, Leak
<1>2. /\ status' \in [Cells -> Status] /\ latest' \in [Cells -> Values]
      /\ \A c \in Cells : status'[c] # "leaked" => status[c] # "leaked" /\ c \notin cells
      /\ \A c \in Cells :
           status'[c] = "kept" => status[c] = "kept" /\ latest'[c] = latest[c]
  BY <1>1, NoteFacts
<1>3. \A a \in Address : CellsAt(a)' = CellsAt(a) /\ CellsAt(a) \subseteq Cells
  BY DEF CellsAt
<1> QED
  BY <1>2, <1>3 DEF Keeps, Clean

LEMMA KeepsReturns ==
  ASSUME Returns, Keeps, redo_items' = redo_items
  PROVE  Returns'
<1>1. ASSUME NEW a \in Address, NEW c \in CellsAt(a)', status'[c] = "kept"
      PROVE  /\ Has(redo_items', a) => FirstIs(redo_items', a, latest'[c])
             /\ ~ Has(redo_items', a) => At(memory', a) = latest'[c]
  <2>1. /\ c \in CellsAt(a) /\ At(memory', a) = At(memory, a)
        /\ status[c] = "kept" /\ latest'[c] = latest[c]
    BY <1>1 DEF Keeps
  <2> QED
    BY <2>1 DEF Returns
<1> QED
  BY <1>1 DEF Returns

\* A selection changes flags, of fields that it makes leak.
LEMMA SelectKeeps ==
  ASSUME DocOK, HistOK, NEW e \in Alive \union {Nobody}, Select(e)
  PROVE  Keeps /\ DocOK' /\ status' \in [Cells -> Status] /\ latest' \in [Cells -> Values]
<1> DEFINE cells == {c \in Cells : c[1] \in {e, selected} /\ c[2] = "flags"}
<1>1. /\ selected' = e /\ where' = where /\ moves' = moves
      /\ memory' = Outlined(memory, where, e) /\ Note(cells, {}, latest)
      /\ latest \in [Cells -> Values]
  BY DEF Select, Leak, HistOK
<1>2. /\ status' \in [Cells -> Status] /\ latest' \in [Cells -> Values]
      /\ \A c \in Cells : status'[c] # "leaked" => status[c] # "leaked" /\ c \notin cells
      /\ \A c \in Cells :
           status'[c] = "kept" => status[c] = "kept" /\ latest'[c] = latest[c]
  BY <1>1, NoteFacts
<1>3. "flags" \in Field /\ "flags" \in Bit /\ {0, 1} \subseteq Values
  BY UndoAssumption DEF Field, Bit
<1>4. ASSUME NEW s \in Slot
      PROVE  /\ memory'[s] \in [Field -> Values]
             /\ \A f \in Field : f # "flags" => memory'[s][f] = memory[s][f]
             /\ memory'[s]["flags"] \in {0, 1}
             /\ ~ (e # Nobody /\ where[e] = s) /\ ~ (selected # Nobody /\ where[selected] = s)
                  => memory'[s] = memory[s]
  <2>1. memory[s] \in [Field -> Values] /\ memory[s]["flags"] \in {0, 1}
    BY <1>3 DEF DocOK, Memory
  <2>2. memory'[s] = IF e # Nobody /\ where[e] = s THEN [memory[s] EXCEPT !["flags"] = 1]
                     ELSE IF selected # Nobody /\ where[selected] = s
                          THEN [memory[s] EXCEPT !["flags"] = 0]
                     ELSE memory[s]
    BY <1>1 DEF Outlined
  <2> QED
    BY <1>3, <2>1, <2>2
<1>5. DocOK'
  <2>1. memory' \in Memory
    BY <1>1, <1>4 DEF Outlined, Memory
  <2>2. \A s \in Slot, f \in Bit : memory'[s][f] \in {0, 1}
    BY <1>4 DEF DocOK, Bit, Field
  <2>3. selected' \in Entity \union {Nobody}
    BY <1>1 DEF Alive
  <2> QED
    BY <1>1, <2>1, <2>2, <2>3 DEF DocOK, OwnSlots, Alive
<1>6. ASSUME NEW a \in Address, NEW c \in CellsAt(a)', status'[c] # "leaked"
      PROVE  /\ c \in CellsAt(a) /\ status[c] # "leaked"
             /\ At(memory', a) = At(memory, a)
             /\ status'[c] = "kept" => status[c] = "kept" /\ latest'[c] = latest[c]
  <2>1. c \in CellsAt(a)
    BY <1>1, <1>6 DEF CellsAt
  <2>2. /\ c \in Cells /\ c[1] \in Alive /\ c[2] \in Field
        /\ a = <<where[c[1]], c[2]>> /\ a[1] \in Slot
        /\ \A d \in Alive : where[d] = a[1] => d = c[1]
    BY <2>1, CellAt, AddressParts
  <2>3. status[c] # "leaked" /\ c \notin cells
    BY <1>2, <1>6, <2>2
  <2>4. At(memory', a) = At(memory, a)
    <3>1. CASE c[2] # "flags"
      BY <1>4, <2>2, <3>1 DEF At
    <3>2. CASE c[2] = "flags"
      <4>1. c[1] # e /\ c[1] # selected
        BY <2>2, <2>3, <3>2
      <4>2. ~ (e # Nobody /\ where[e] = a[1])
        BY <2>2, <4>1
      <4>3. ~ (selected # Nobody /\ where[selected] = a[1])
        BY <2>2, <4>1, UndoAssumption DEF DocOK, Alive
      <4> QED
        BY <1>4, <2>2, <4>2, <4>3 DEF At
    <3> QED
      BY <3>1, <3>2
  <2> QED
    BY <1>2, <1>6, <2>1, <2>2, <2>3, <2>4
<1>7. \A a \in Address : CellsAt(a)' = CellsAt(a)
  BY <1>1 DEF CellsAt
<1> QED
  BY <1>2, <1>5, <1>6, <1>7 DEF Keeps

\* An insertion or an erasure takes the fields of the living with them.
LEMMA MovedFacts ==
  ASSUME DocOK, NEW alive \in SUBSET Entity, NEW w \in Places(alive),
         NEW new, new \notin Alive, NEW fields \in [Field -> Values],
         \A f \in Bit : fields[f] \in {0, 1}, alive \subseteq Alive \union {new}
  PROVE  /\ w \in [Entity -> Slot \union {Gone}]
         /\ \A e \in Entity : w[e] # Gone <=> e \in alive
         /\ \A d, e \in alive : d # e => w[d] # w[e]
         /\ Moved(w, new, fields) \in Memory
         /\ \A s \in Slot, f \in Bit : Moved(w, new, fields)[s][f] \in {0, 1}
         /\ \A e \in Alive : w[e] = where[e] =>
              Moved(w, new, fields)[where[e]] = memory[where[e]]
<1> DEFINE mem == Moved(w, new, fields)
<1>1. /\ w \in [Entity -> Slot \union {Gone}]
      /\ \A e \in Entity : w[e] # Gone <=> e \in alive
      /\ \A d, e \in alive : d # e => w[d] # w[e]
  BY DEF Places
<1>2. ASSUME NEW s \in Slot, NEW e \in Entity, w[e] = s
      PROVE  mem[s] = IF e = new THEN fields ELSE memory[where[e]]
  <2> DEFINE d == CHOOSE d \in Entity : w[d] = s
  <2>1. d \in Entity /\ w[d] = s
    BY <1>2
  <2>2. mem[s] = IF d = new THEN fields ELSE memory[where[d]]
    BY <1>2 DEF Moved
  <2>3. d = e
    BY <1>1, <1>2, <2>1, UndoAssumption
  <2> QED
    BY <2>2, <2>3
<1>3. ASSUME NEW s \in Slot, \A e \in Entity : w[e] # s PROVE mem[s] = memory[s]
  BY <1>3 DEF Moved
<1>4. ASSUME NEW s \in Slot
      PROVE  mem[s] \in [Field -> Values] /\ \A f \in Bit : mem[s][f] \in {0, 1}
  <2>1. CASE \A e \in Entity : w[e] # s
    BY <1>3, <2>1 DEF DocOK, Memory
  <2>2. CASE \E e \in Entity : w[e] = s
    <3>1. PICK e \in Entity : w[e] = s
      BY <2>2
    <3>2. e \in alive
      BY <1>1, <3>1, UndoAssumption
    <3>3. CASE e = new
      BY <1>2, <3>1, <3>3
    <3>4. CASE e # new
      <4>1. where[e] \in Slot
        BY <3>2, <3>4 DEF DocOK, Alive
      <4> QED
        BY <1>2, <3>1, <3>4, <4>1 DEF DocOK, Memory
    <3> QED
      BY <3>3, <3>4
  <2> QED
    BY <2>1, <2>2
<1>5. mem = [s \in Slot |-> mem[s]]
  BY DEF Moved
<1>6. ASSUME NEW e \in Alive, w[e] = where[e] PROVE mem[where[e]] = memory[where[e]]
  <2>1. e \in Entity /\ where[e] \in Slot
    BY DEF DocOK, Alive
  <2> QED
    BY <1>2, <1>6, <2>1
<1> HIDE DEF mem
<1>7. mem \in Memory
  BY <1>4, <1>5 DEF Memory
<1> QED
  BY <1>1, <1>4, <1>6, <1>7 DEF mem

\* What no entity moved away from is kept, where the map changes.
LEMMA MapKeeps ==
  ASSUME DocOK, HistOK, NEW alive \in SUBSET Entity, where' \in Places(alive),
         NEW cells, CellsMoved(where') \subseteq cells, Leak(cells),
         \A a \in Address : \A c \in CellsAt(a) :
           where'[c[1]] = where[c[1]] /\ c \notin cells => At(memory', a) = At(memory, a)
  PROVE  /\ Keeps /\ status' \in [Cells -> Status] /\ latest' \in [Cells -> Values]
<1>1. latest \in [Cells -> Values] /\ Note(cells, {}, latest)
  BY DEF HistOK, Leak
<1>2. /\ status' \in [Cells -> Status] /\ latest' \in [Cells -> Values]
      /\ \A c \in Cells : status'[c] # "leaked" => status[c] # "leaked" /\ c \notin cells
      /\ \A c \in Cells :
           status'[c] = "kept" => status[c] = "kept" /\ latest'[c] = latest[c]
  BY <1>1, NoteFacts
<1>3. ASSUME NEW a \in Address, NEW c \in CellsAt(a)', status'[c] # "leaked"
      PROVE  /\ c \in CellsAt(a) /\ status[c] # "leaked"
             /\ At(memory', a) = At(memory, a)
             /\ status'[c] = "kept" => status[c] = "kept" /\ latest'[c] = latest[c]
  <2>1. c \in Cells /\ c \notin CellsMoved(where') /\ c \notin cells
    BY <1>2, <1>3 DEF CellsAt
  <2>2. where'[c[1]] = where[c[1]]
    BY <2>1 DEF CellsMoved
  <2>3. c \in CellsAt(a)
    BY <1>3, <2>2 DEF CellsAt
  <2> QED
    BY <1>2, <1>3, <2>1, <2>2, <2>3
<1>4. ASSUME NEW a \in Address, NEW c \in CellsAt(a), status'[c] # "leaked"
      PROVE  status[c] # "leaked" /\ At(memory', a) = At(memory, a)
  <2>1. c \in Cells /\ c \notin cells
    BY <1>2, <1>4 DEF CellsAt
  <2>2. where'[c[1]] = where[c[1]]
    BY <2>1 DEF CellsMoved
  <2> QED
    BY <1>2, <1>4, <2>1, <2>2
<1> QED
  BY <1>2, <1>3, <1>4 DEF Keeps

\* A widget writes: where no open edit covers a change, the field leaks.
LEMMA UserWritesFacts ==
  ASSUME DocOK, HistOK, UNCHANGED <<where, selected, moves>>,
         NEW s \in Slot, NEW fields \in [Field -> Values], \A f \in Bit : fields[f] \in {0, 1},
         NEW covered, UserWrites(s, fields, covered)
  PROVE  /\ DocOK' /\ HistOK' /\ touched \subseteq touched'
         /\ \A b \in Address : At(memory', b) = IF b[1] = s THEN fields[b[2]] ELSE At(memory, b)
         /\ \A b \in Address : Clean(b)' => Clean(b)
         /\ \A b \in Address :
              At(memory', b) # At(memory, b) =>
                /\ b[1] = s /\ b \in touched'
                /\ Clean(b)' => b[2] \in covered
         /\ Returns /\ redo_items' = redo_items => Returns'
<1> DEFINE changed == {f \in Field : fields[f] # memory[s][f]}
           late    == {f \in changed : Redoable(<<s, f>>)}
           CellsOf(some) == {c \in Cells : where[c[1]] = s /\ c[2] \in some}
           last    == [c \in Cells |-> IF c \in CellsOf(changed) THEN fields[c[2]] ELSE latest[c]]
<1>1. /\ memory' = [memory EXCEPT ![s] = fields]
      /\ touched' = touched \union ({s} \X changed)
      /\ Note(CellsOf(changed \ covered), CellsOf(late), last)
  BY DEF UserWrites
<1>2. /\ last \in [Cells -> Values]
      /\ \A c \in Cells : last[c] = IF c \in CellsOf(changed) THEN fields[c[2]] ELSE latest[c]
  BY DEF HistOK, Cells
<1>3. memory \in Memory
  BY DEF DocOK
<1> HIDE DEF last
<1>4. /\ status' \in [Cells -> Status] /\ latest' \in [Cells -> Values]
      /\ \A c \in Cells :
           status'[c] # "leaked" => status[c] # "leaked" /\ c \notin CellsOf(changed \ covered)
      /\ \A c \in Cells :
           status'[c] = "kept" => status[c] = "kept" /\ c \notin CellsOf(late) /\ latest'[c] = last[c]
  <2> HIDE DEF CellsOf, changed, late
  <2> QED
    BY <1>1, <1>2, NoteFacts
<1>5. /\ memory' \in Memory
      /\ \A r \in Slot, f \in Field : memory'[r][f] = IF r = s THEN fields[f] ELSE memory[r][f]
  BY <1>1, <1>3 DEF Memory
<1>6. \A b \in Address : At(memory', b) = IF b[1] = s THEN fields[b[2]] ELSE At(memory, b)
  BY <1>5, AddressParts DEF At
<1>7. DocOK'
  <2>1. Bit \subseteq Field
    BY DEF Bit, Field
  <2>2. \A r \in Slot, f \in Bit : memory'[r][f] \in {0, 1}
    BY <1>5, <2>1 DEF DocOK
  <2> QED
    BY <1>5, <2>2 DEF DocOK, OwnSlots, Alive
<1>8. HistOK' /\ touched \subseteq touched'
  BY <1>1, <1>4 DEF HistOK, Address
<1>9. \A b \in Address :
        /\ CellsAt(b)' = CellsAt(b) /\ CellsAt(b) \subseteq Cells
        /\ \A c \in CellsAt(b) : where[c[1]] = b[1] /\ c[2] = b[2]
  BY DEF CellsAt
<1>10. \A b \in Address : Clean(b)' => Clean(b)
  BY <1>4, <1>9 DEF Clean
<1>11. ASSUME NEW b \in Address, At(memory', b) # At(memory, b)
       PROVE  /\ b[1] = s /\ b[2] \in changed /\ b \in touched'
              /\ Clean(b)' => b[2] \in covered
  <2>1. b[1] = s /\ b[2] \in changed /\ b = <<b[1], b[2]>>
    BY <1>6, <1>11, AddressParts DEF At
  <2>2. b \in touched'
    BY <1>1, <2>1
  <2>3. ASSUME Clean(b)' PROVE b[2] \in covered
    <3>1. PICK c \in CellsAt(b) : status'[c] # "leaked"
      BY <1>9, <2>3 DEF Clean
    <3> QED
      BY <1>4, <1>9, <2>1, <3>1
  <2> QED
    BY <2>1, <2>2, <2>3
<1>12. ASSUME Returns, redo_items' = redo_items PROVE Returns'
  <2>1. ASSUME NEW b \in Address, NEW c \in CellsAt(b)', status'[c] = "kept"
        PROVE  /\ Has(redo_items', b) => FirstIs(redo_items', b, latest'[c])
               /\ ~ Has(redo_items', b) => At(memory', b) = latest'[c]
    <3>1. /\ c \in CellsAt(b) /\ c \in Cells /\ status[c] = "kept"
          /\ where[c[1]] = b[1] /\ c[2] = b[2]
          /\ c \notin CellsOf(late) /\ latest'[c] = last[c]
      BY <1>4, <1>9, <2>1
    <3>2. b = <<b[1], b[2]>> /\ b[1] \in Slot /\ b[2] \in Field
      BY AddressParts
    <3>3. CASE b[1] = s /\ b[2] \in changed
      <4>1. ~ Redoable(b)
        BY <3>1, <3>2, <3>3
      <4>2. ~ Has(redo_items, b)
        BY <4>1 DEF Redoable, Has, ToSet
      <4>3. latest'[c] = fields[b[2]]
        BY <1>2, <3>1, <3>3
      <4> QED
        BY <1>6, <1>12, <3>3, <4>2, <4>3
    <3>4. CASE ~ (b[1] = s /\ b[2] \in changed)
      <4>1. latest'[c] = latest[c]
        BY <1>2, <3>1, <3>4
      <4>2. At(memory', b) = At(memory, b)
        BY <1>11, <3>4
      <4> QED
        BY <1>12, <3>1, <4>1, <4>2 DEF Returns
    <3> QED
      BY <3>3, <3>4
  <2> QED
    BY <2>1 DEF Returns
<1> QED
  BY <1>6, <1>7, <1>8, <1>10, <1>11, <1>12

----------------------------------------------------------------------------
(* What a step does to the stack of a clean address *)

NoneOpen(a) == \A i : OpenItem(i) => i.ptr # a

\* The first item stays; where there was none, what comes was open, or is the value
\* of the memory where nothing was open; and what is open was open or is that value.
StackStep(a) ==
  /\ Has(undo_items, a) => Has(undo_items', a)
  /\ \A d : FirstIs(undo_items, a, d) => FirstIs(undo_items', a, d)
  /\ ~ Has(undo_items, a) /\ Has(undo_items', a) =>
       \/ \E i : OpenItem(i) /\ i.ptr = a /\ FirstIs(undo_items', a, i.data)
       \/ NoneOpen(a) /\ FirstIs(undo_items', a, At(memory, a))
  /\ ~ Has(undo_items', a) =>
       /\ \A i : OpenItem(i)' /\ i.ptr = a =>
            OpenItem(i) \/ (NoneOpen(a) /\ i.data = At(memory, a))
       /\ NoneOpen(a)' =>
            \/ NoneOpen(a) /\ At(memory', a) = At(memory, a)
            \/ \E i : OpenItem(i) /\ i.ptr = a /\ At(memory', a) = i.data

LEMMA StackSteps ==
  ASSUME Restores, \A a \in Address : Clean(a)' => Clean(a) /\ StackStep(a)
  PROVE  Restores'
<1>1. ASSUME NEW a \in Address, Clean(a)', Has(undo_items', a)
      PROVE  FirstIs(undo_items', a, NewFields[a[2]])
  <2>1. Clean(a) /\ StackStep(a)
    BY <1>1
  <2>2. CASE Has(undo_items, a)
    BY <2>1, <2>2 DEF Restores, StackStep
  <2>3. CASE ~ Has(undo_items, a)
    <3>1. CASE \E i : OpenItem(i) /\ i.ptr = a /\ FirstIs(undo_items', a, i.data)
      BY <2>1, <2>3, <3>1 DEF Restores
    <3>2. CASE NoneOpen(a) /\ FirstIs(undo_items', a, At(memory, a))
      BY <2>1, <2>3, <3>2 DEF Restores, NoneOpen
    <3> QED
      BY <1>1, <2>1, <2>3, <3>1, <3>2 DEF StackStep
  <2> QED
    BY <2>2, <2>3
<1>2. ASSUME NEW a \in Address, Clean(a)', ~ Has(undo_items', a)
      PROVE  /\ \A i : OpenItem(i)' /\ i.ptr = a => i.data = NewFields[a[2]]
             /\ NoneOpen(a)' => At(memory', a) = NewFields[a[2]]
  <2>1. Clean(a) /\ StackStep(a)
    BY <1>2
  <2>2. ~ Has(undo_items, a)
    BY <1>2, <2>1 DEF StackStep
  <2>3. /\ \A i : OpenItem(i) /\ i.ptr = a => i.data = NewFields[a[2]]
        /\ NoneOpen(a) => At(memory, a) = NewFields[a[2]]
    BY <2>1, <2>2 DEF Restores, NoneOpen
  <2> QED
    BY <1>2, <2>1, <2>2, <2>3 DEF StackStep
<1> QED
  BY <1>1, <1>2 DEF Restores, NoneOpen

\* Where the stack stays: no open item of a clean address is lost, a new one comes
\* only where there was none and has the bytes of the memory, and bytes change only
\* where an item is open afterwards.
LEMMA OpenSteps ==
  ASSUME Restores, undo_items' = undo_items,
         \A a \in Address : Clean(a)' =>
           /\ Clean(a)
           /\ \A i : OpenItem(i) /\ i.ptr = a => OpenItem(i)'
           /\ \A i : OpenItem(i)' /\ i.ptr = a =>
                OpenItem(i) \/ (NoneOpen(a) /\ i.data = At(memory, a))
           /\ At(memory', a) # At(memory, a) => ~ NoneOpen(a)'
  PROVE  Restores'
<1>1. ASSUME NEW a \in Address, Clean(a)' PROVE Clean(a) /\ StackStep(a)
  <2>1. NoneOpen(a)' => NoneOpen(a) /\ At(memory', a) = At(memory, a)
    BY <1>1 DEF NoneOpen
  <2> QED
    BY <1>1, <2>1 DEF StackStep
<1> QED
  BY <1>1, StackSteps

\* Where open items are committed, with the bytes of the memory afterwards.
LEMMA CommitSteps ==
  ASSUME Restores, undo_items \in Seq(GoodItem), memory' \in Memory,
         NEW items \in Seq(GoodItem), \A m \in DOMAIN items : OpenItem(items[m]),
         undo_items' = undo_items \o ChangedItems(items, memory'),
         \A a \in Address : Clean(a)' =>
           /\ Clean(a)
           /\ \A i : OpenItem(i)' /\ i.ptr = a =>
                OpenItem(i) \/ (NoneOpen(a) /\ i.data = At(memory, a))
           /\ NoneOpen(a)' =>
                \/ NoneOpen(a) /\ At(memory', a) = At(memory, a)
                \/ \E m \in DOMAIN items : items[m].ptr = a
  PROVE  Restores'
<1>0. GrownBy(undo_items', undo_items, items, memory')
  BY CommitGrows
<1>1. ASSUME NEW a \in Address, Clean(a)' PROVE Clean(a) /\ StackStep(a)
  <2>1. /\ Has(undo_items, a) => Has(undo_items', a)
        /\ \A d : FirstIs(undo_items, a, d) => FirstIs(undo_items', a, d)
        /\ ~ Has(undo_items, a) /\ Has(undo_items', a) =>
             \E m \in DOMAIN items : items[m].ptr = a /\ FirstIs(undo_items', a, items[m].data)
        /\ \A m \in DOMAIN items :
             items[m].ptr = a /\ At(memory', a) # items[m].data => Has(undo_items', a)
    BY <1>0 DEF GrownBy
  <2>2. ~ Has(undo_items, a) /\ Has(undo_items', a) =>
          \E i : OpenItem(i) /\ i.ptr = a /\ FirstIs(undo_items', a, i.data)
    BY <2>1
  <2>3. ~ Has(undo_items', a) /\ NoneOpen(a)' =>
          \/ NoneOpen(a) /\ At(memory', a) = At(memory, a)
          \/ \E i : OpenItem(i) /\ i.ptr = a /\ At(memory', a) = i.data
    BY <1>1, <2>1
  <2> QED
    BY <1>1, <2>1, <2>2, <2>3 DEF StackStep
<1> QED
  BY <1>1, StackSteps

----------------------------------------------------------------------------
(* What is open *)

LEMMA OpenTyped ==
  ASSUME ItemsOK, NEW i, OpenItem(i)
  PROVE  i \in GoodItem /\ i.ptr \in Address
<1>1. CASE \E t \in Widget : single_items[t] # NoItem /\ single_items[t] = i
  BY <1>1, ItemParts DEF ItemsOK, GoodSingles
<1>2. CASE \E n \in DOMAIN temp_items : temp_items[n] = i
  <2>1. temp_items \in Seq(GoodItem)
    <3>1. <<>> \in Seq(GoodItem)
      OBVIOUS
    <3> QED
      BY <3>1 DEF ItemsOK, IsPushed
  <2> QED
    BY <1>2, <2>1, ElementOfSeq, LenProperties, ItemParts
<1> QED
  BY <1>1, <1>2 DEF OpenItem

LEMMA OpenTypedNext ==
  ASSUME ItemsOK', NEW i, OpenItem(i)'
  PROVE  i \in GoodItem /\ i.ptr \in Address
<1>1. CASE \E t \in Widget : single_items'[t] # NoItem /\ single_items'[t] = i
  BY <1>1, ItemParts DEF ItemsOK, GoodSingles
<1>2. CASE \E n \in DOMAIN temp_items' : temp_items'[n] = i
  <2>1. temp_items' \in Seq(GoodItem)
    <3>1. <<>> \in Seq(GoodItem)
      OBVIOUS
    <3> QED
      BY <3>1 DEF ItemsOK, IsPushed
  <2> QED
    BY <1>2, <2>1, ElementOfSeq, LenProperties, ItemParts
<1> QED
  BY <1>1, <1>2 DEF OpenItem

\* Before Properties and after the commit, only widgets have open items.
LEMMA SingleOpen ==
  ASSUME ItemsOK, temp_items = <<>>, NEW i, OpenItem(i)
  PROVE  /\ i.ptr[2] \notin Bit /\ Covered(i.ptr)
         /\ \E t \in Widget : single_items[t] # NoItem /\ single_items[t] = i
<1>1. PICK t \in Widget : single_items[t] # NoItem /\ single_items[t] = i
  BY DEF OpenItem
<1>2. i.ptr[2] = Pushes[t]
  BY <1>1 DEF ItemsOK, GoodSingles
<1> QED
  BY <1>1, <1>2, WidgetFields DEF Covered, Pending

LEMMA CoveredIsOpen ==
  ASSUME NEW a, Covered(a)
  PROVE  ~ NoneOpen(a)
BY DEF Covered, Pending, OpenItem, NoneOpen

LEMMA BitsAreFields == Bit \subseteq Field
BY DEF Bit, Field

LEMMA ItemFacts ==
  ASSUME DocOK, NEW e \in Alive, NEW f \in Field
  PROVE  /\ Item(e, f) \in GoodItem /\ Item(e, f).ptr = <<where[e], f>>
         /\ Item(e, f).data = At(memory, <<where[e], f>>)
<1>1. <<where[e], f>> \in Address /\ where[e] \in Slot
  BY AddressOf
<1>2. memory[where[e]][f] \in Values /\ (f \in Bit => memory[where[e]][f] \in {0, 1})
  BY <1>1 DEF DocOK, Memory
<1> QED
  BY <1>1, <1>2 DEF Item, GoodItem, ItemType, At

\* Properties pushes what its two fields hold.
LEMMA PushedTemps ==
  ASSUME DocOK, selected \in Alive, temp_items = <<>>
  PROVE  /\ IsPushed(PushTemps)
         /\ \A n \in DOMAIN PushTemps :
              /\ PushTemps[n] \in GoodItem /\ PushTemps[n].ptr \in Address
              /\ PushTemps[n].ptr[1] = where[selected] /\ PushTemps[n].ptr[2] \in Bit
              /\ PushTemps[n].data = At(memory, PushTemps[n].ptr)
         /\ \A f \in Bit : \E n \in DOMAIN PushTemps : PushTemps[n].ptr = <<where[selected], f>>
<1> DEFINE x == Item(selected, "flags")
           y == Item(selected, "enabled")
<1>1. "flags" \in Bit /\ "enabled" \in Bit /\ Bit \subseteq Field
  BY BitsAreFields DEF Bit
<1>2. /\ x \in GoodItem /\ x.ptr = <<where[selected], "flags">> /\ x.data = At(memory, x.ptr)
      /\ y \in GoodItem /\ y.ptr = <<where[selected], "enabled">> /\ y.data = At(memory, y.ptr)
  BY <1>1, ItemFacts
<1> HIDE DEF x, y
<1>3. x.ptr # y.ptr
  BY <1>2
<1>4. Push(temp_items, x) = <<x>>
  BY DEF Push, ToSet
<1>5. Push(<<x>>, y) = <<x, y>>
  <2>1. ToSet(<<x>>) = {x}
    BY DEF ToSet
  <2>2. ~ \E i \in ToSet(<<x>>) : i.ptr = y.ptr
    BY <1>3, <2>1
  <2>3. Push(<<x>>, y) = Append(<<x>>, y)
    BY <2>2, Zenon DEF Push
  <2> QED
    BY <2>3
<1>6. PushTemps = <<x, y>>
  BY <1>4, <1>5 DEF PushTemps, x, y
<1>7. DOMAIN PushTemps = {1, 2} /\ PushTemps[1] = x /\ PushTemps[2] = y
  BY <1>6
<1>8. PushTemps \in Seq(GoodItem) /\ Len(PushTemps) = 2
  BY <1>2, <1>6
<1>9. IsPushed(PushTemps)
  BY <1>2, <1>7, <1>8 DEF IsPushed
<1>10. ASSUME NEW n \in DOMAIN PushTemps
       PROVE  /\ PushTemps[n] \in GoodItem /\ PushTemps[n].ptr \in Address
              /\ PushTemps[n].ptr[1] = where[selected] /\ PushTemps[n].ptr[2] \in Bit
              /\ PushTemps[n].data = At(memory, PushTemps[n].ptr)
  <2>1. n = 1 \/ n = 2
    BY <1>7
  <2> QED
    BY <1>1, <1>2, <1>7, <2>1, ItemParts
<1>11. ASSUME NEW f \in Bit
       PROVE  \E n \in DOMAIN PushTemps : PushTemps[n].ptr = <<where[selected], f>>
  <2>1. f = "flags" \/ f = "enabled"
    BY DEF Bit
  <2> QED
    BY <1>2, <1>7, <2>1
<1> QED
  BY <1>9, <1>10, <1>11

\* A widget pushes what its field holds, past the items of Properties.
LEMMA PushedSingle ==
  ASSUME NEW temps, temps = <<>> \/ IsPushed(temps), NEW singles \in GoodSingles,
         NEW tag \in Widget, NEW i \in GoodItem, i.ptr[2] = Pushes[tag]
  PROVE  /\ PushSingle(singles, temps, tag, i) \in GoodSingles
         /\ i # NoItem
         /\ \A t \in Widget :
              PushSingle(singles, temps, tag, i)[t] = IF t = tag THEN i ELSE singles[t]
<1>1. \A j \in ToSet(temps) : j.ptr[2] \in Bit
  <2>1. CASE temps = <<>>
    BY <2>1 DEF ToSet
  <2>2. CASE IsPushed(temps)
    <3>1. DOMAIN temps = {1, 2}
      BY <2>2, LenProperties DEF IsPushed
    <3> QED
      BY <2>2, <3>1 DEF ToSet, IsPushed, Bit
  <2> QED
    BY <2>1, <2>2
<1>2. i.ptr[2] \notin Bit
  BY WidgetFields
<1>3. PushSingle(singles, temps, tag, i) = [singles EXCEPT ![tag] = i]
  BY <1>1, <1>2 DEF PushSingle
<1>4. singles \in [Widget -> GoodItem \union {NoItem}]
  BY DEF GoodSingles
<1>5. i # NoItem
  BY DEF GoodItem, ItemType, NoItem
<1> QED
  BY <1>3, <1>4, <1>5 DEF GoodSingles

\* undo_commit_single takes the item of its tag, and keeps it if its bytes changed.
LEMMA CommittedSingle ==
  ASSUME ItemsOK, NEW singles \in GoodSingles, NEW tag \in Widget, CommitSingle(singles, tag)
  PROVE  /\ single_items' \in GoodSingles
         /\ \A t \in Widget : single_items'[t] = IF t = tag THEN NoItem ELSE singles[t]
         /\ \E items \in Seq(GoodItem) :
              /\ items = IF singles[tag] = NoItem THEN <<>> ELSE <<singles[tag]>>
              /\ undo_items' = undo_items \o ChangedItems(items, memory)
<1>1. singles \in [Widget -> GoodItem \union {NoItem}]
  BY DEF GoodSingles
<1>2. single_items' = [singles EXCEPT ![tag] = NoItem]
  BY DEF CommitSingle
<1>3. \A t \in Widget : single_items'[t] = IF t = tag THEN NoItem ELSE singles[t]
  BY <1>1, <1>2
<1>4. single_items' \in GoodSingles
  BY <1>1, <1>2, <1>3 DEF GoodSingles
<1> DEFINE items == IF singles[tag] = NoItem THEN <<>> ELSE <<singles[tag]>>
<1>5. items \in Seq(GoodItem)
  BY <1>1
<1>6. undo_items' = undo_items \o ChangedItems(items, memory)
  BY DEF CommitSingle
<1> QED
  BY <1>3, <1>4, <1>5, <1>6

----------------------------------------------------------------------------
(* Steps that leave the stacks alone *)

\* Where the stacks and the open items stay, and no clean address changes its bytes.
LEMMA QuietStep ==
  ASSUME UInv, Keeps, DocOK', temp_items = <<>>,
         status' \in [Cells -> Status], latest' \in [Cells -> Values],
         UNCHANGED undo, touched' = touched,
         phase' \in Phases, active' \in Widget \union {Idle},
         \A t \in Widget :
           single_items[t] # NoItem /\ Clean(single_items[t].ptr)' /\ t = active => t = active'
  PROVE  UInv'
<1>1. /\ undo_items' = undo_items /\ redo_items' = redo_items
      /\ temp_items' = temp_items /\ single_items' = single_items
  BY DEF undo
<1>2. Typed'
  <2>1. ItemsOK'
    BY <1>1 DEF UInv, Typed, ItemsOK
  <2>2. HistOK'
    BY DEF UInv, Typed, HistOK
  <2> QED
    BY <2>1, <2>2 DEF Typed
<1>3. \A i : OpenItem(i)' <=> OpenItem(i)
  BY <1>1 DEF OpenItem
<1>4. ASSUME NEW i, OpenItem(i) PROVE i.ptr \in Address
  BY <1>4, OpenTyped DEF UInv, Typed
<1>5. NoStray'
  <2>1. ASSUME NEW t \in Widget, single_items[t] # NoItem, Clean(single_items[t].ptr)'
        PROVE  t = active'
    <3>1. single_items[t].ptr \in Address
      <4>1. OpenItem(single_items[t])
        BY <2>1 DEF OpenItem
      <4> QED
        BY <1>4, <4>1
    <3>2. Clean(single_items[t].ptr)
      BY <1>1, <2>1, <3>1, KeepsClean
    <3> QED
      BY <2>1, <3>2 DEF UInv, NoStray
  <2> QED
    BY <1>1, <2>1 DEF NoStray
<1>6. Restores'
  <2>1. ASSUME NEW a \in Address, Clean(a)'
        PROVE  /\ Clean(a)
               /\ \A i : OpenItem(i) /\ i.ptr = a => OpenItem(i)'
               /\ \A i : OpenItem(i)' /\ i.ptr = a =>
                    OpenItem(i) \/ (NoneOpen(a) /\ i.data = At(memory, a))
               /\ At(memory', a) # At(memory, a) => ~ NoneOpen(a)'
    <3>1. Clean(a) /\ At(memory', a) = At(memory, a)
      BY <2>1, KeepsClean
    <3> QED
      BY <1>3, <3>1
  <2> QED
    BY <1>1, <2>1, OpenSteps DEF UInv
<1>7. Accounted'
  <2>1. ASSUME NEW i, OpenItem(i), At(memory', i.ptr) # i.data, Clean(i.ptr)'
        PROVE  i.ptr \in touched'
    <3>1. i.ptr \in Address
      BY <1>4, <2>1
    <3>2. Clean(i.ptr) /\ At(memory', i.ptr) = At(memory, i.ptr)
      BY <2>1, <3>1, KeepsClean
    <3> QED
      BY <2>1, <3>2 DEF UInv, Accounted
  <2> QED
    BY <1>3, <2>1 DEF Accounted
<1>8. Returns'
  BY <1>1, KeepsReturns DEF UInv
<1> QED
  BY <1>2, <1>5, <1>6, <1>7, <1>8 DEF UInv

LEMMA NotInPanel ==
  ASSUME UInv, phase # "panel"
  PROVE  temp_items = <<>>
BY DEF UInv, Typed, ItemsOK

LEMMA NoEventStep ==
  ASSUME UInv, NoEvent
  PROVE  UInv'
<1>1. /\ temp_items = <<>> /\ UNCHANGED <<doc, undo, active, hist>>
      /\ phase' \in Phases
  BY NotInPanel DEF NoEvent, Phases
<1>2. Keeps /\ DocOK'
  BY <1>1, NothingChanged DEF doc, hist, UInv, Typed, DocOK, OwnSlots, Alive
<1>3. /\ status' \in [Cells -> Status] /\ latest' \in [Cells -> Values]
      /\ touched' = touched /\ active' \in Widget \union {Idle} /\ active' = active
  BY <1>1 DEF hist, UInv, Typed, HistOK
<1> QED
  BY <1>1, <1>2, <1>3, QuietStep

LEMMA ClickViewportStep ==
  ASSUME UInv, NEW e \in Alive \union {Nobody}, ClickViewport(e)
  PROVE  UInv'
<1>1. /\ temp_items = <<>> /\ UNCHANGED <<undo, active, touched>> /\ Select(e)
      /\ phase' \in Phases
  BY NotInPanel DEF ClickViewport, Phases
<1>2. Keeps /\ DocOK' /\ status' \in [Cells -> Status] /\ latest' \in [Cells -> Values]
  BY <1>1, SelectKeeps DEF UInv, Typed
<1>3. touched' = touched /\ active' \in Widget \union {Idle} /\ active' = active
  BY <1>1 DEF UInv, Typed
<1> QED
  BY <1>1, <1>2, <1>3, QuietStep

\* The map after an insertion or an erasure, and who lives in it.
LEMMA MapStep ==
  ASSUME DocOK, HistOK, NEW alive \in SUBSET Entity, NEW w \in Places(alive), where' = w,
         NEW new, new \notin Alive, alive \subseteq Alive \union {new},
         memory' = Moved(w, new, NewFields), Leak(CellsMoved(w)),
         selected' = selected, moves < MaxMoves, moves' = moves + 1
  PROVE  Keeps /\ DocOK' /\ status' \in [Cells -> Status] /\ latest' \in [Cells -> Values]
<1>1. \A f \in Bit : NewFields[f] \in {0, 1}
  BY NewFieldsFacts, BitsAreFields
<1>2. /\ w \in [Entity -> Slot \union {Gone}]
      /\ \A e \in Entity : w[e] # Gone <=> e \in alive
      /\ \A d, e \in alive : d # e => w[d] # w[e]
      /\ memory' \in Memory
      /\ \A s \in Slot, f \in Bit : memory'[s][f] \in {0, 1}
      /\ \A e \in Alive : w[e] = where[e] => memory'[where[e]] = memory[where[e]]
  BY <1>1, NewFieldsFacts, MovedFacts
<1>3. ASSUME NEW a \in Address, NEW c \in CellsAt(a), where'[c[1]] = where[c[1]]
      PROVE  At(memory', a) = At(memory, a)
  <2>1. c[1] \in Alive /\ a[1] = where[c[1]]
    BY CellAt DEF CellsAt
  <2> QED
    BY <1>2, <1>3, <2>1 DEF At
<1>4. Keeps /\ status' \in [Cells -> Status] /\ latest' \in [Cells -> Values]
  BY <1>3, MapKeeps
<1>5. DocOK'
  <2>1. OwnSlots'
    BY <1>2 DEF OwnSlots, Alive
  <2>2. moves' \in 0..MaxMoves
    BY UndoAssumption DEF DocOK
  <2> QED
    BY <1>2, <2>1, <2>2 DEF DocOK
<1> QED
  BY <1>4, <1>5

LEMMA DeleteKeyStep ==
  ASSUME UInv, DeleteKey
  PROVE  UInv'
<1>1. /\ temp_items = <<>> /\ UNCHANGED <<selected, undo, active, touched>>
      /\ phase' \in Phases /\ moves < MaxMoves /\ moves' = moves + 1
  BY NotInPanel DEF DeleteKey, Phases
<1>2. PICK w \in Places(Alive \ {selected}) :
        where' = w /\ memory' = Moved(w, Nobody, NewFields) /\ Leak(CellsMoved(w))
  BY DEF DeleteKey
<1>3. Alive \ {selected} \in SUBSET Entity /\ Nobody \notin Alive
  BY UndoAssumption DEF Alive
<1>4. Keeps /\ DocOK' /\ status' \in [Cells -> Status] /\ latest' \in [Cells -> Values]
  <2>1. DocOK /\ HistOK
    BY DEF UInv, Typed
  <2> QED
    BY <1>1, <1>2, <1>3, <2>1, MapStep
<1>5. touched' = touched /\ active' \in Widget \union {Idle} /\ active' = active
  BY <1>1 DEF UInv, Typed
<1> QED
  BY <1>1, <1>4, <1>5, QuietStep

\* Ctrl+D: the copy gets the fields of the selected entity, which loses its outline.
LEMMA DuplicateKeyStep ==
  ASSUME UInv, DuplicateKey
  PROVE  UInv'
<1>1. /\ temp_items = <<>> /\ UNCHANGED <<undo, active, touched>>
      /\ phase' \in Phases /\ moves < MaxMoves /\ moves' = moves + 1 /\ selected \in Alive
      /\ DocOK /\ HistOK /\ active \in Widget \union {Idle}
  BY NotInPanel DEF DuplicateKey, Phases, UInv, Typed
<1> DEFINE fields == memory[where[selected]]
           cells(w) == CellsMoved(w) \union {<<selected, "flags">>}
<1>0. PICK new \in Entity \ Alive :
        \E w \in Places(Alive \union {new}) :
          /\ where' = w /\ selected' = new
          /\ memory' = Outlined(Moved(w, new, fields), w, new)
          /\ Leak(cells(w))
  BY DEF DuplicateKey
<1>2. PICK w \in Places(Alive \union {new}) :
        /\ where' = w /\ selected' = new
        /\ memory' = Outlined(Moved(w, new, fields), w, new)
        /\ Leak(cells(w))
  BY <1>0
<1>3. fields \in [Field -> Values] /\ \A f \in Bit : fields[f] \in {0, 1}
  BY <1>1, AddressOf DEF DocOK, Memory, Alive
<1>4. Alive \union {new} \in SUBSET Entity /\ selected \in Entity /\ selected # Nobody
      /\ new # Nobody /\ new # selected
  BY <1>1, <1>2, UndoAssumption DEF Alive
<1> DEFINE moved == Moved(w, new, fields)
<1> HIDE DEF fields
<1>5. /\ w \in [Entity -> Slot \union {Gone}]
      /\ \A e \in Entity : w[e] # Gone <=> e \in Alive \union {new}
      /\ \A d, e \in Alive \union {new} : d # e => w[d] # w[e]
      /\ moved \in Memory
      /\ \A s \in Slot, f \in Bit : moved[s][f] \in {0, 1}
      /\ \A e \in Alive : w[e] = where[e] => moved[where[e]] = memory[where[e]]
  BY <1>1, <1>2, <1>3, <1>4, MovedFacts
<1>6. memory' = Outlined(moved, w, new)
  BY <1>2
<1> HIDE DEF moved
<1>7. "flags" \in Field /\ {0, 1} \subseteq Values
  BY UndoAssumption DEF Field
<1>8. ASSUME NEW s \in Slot
      PROVE  /\ memory'[s] \in [Field -> Values]
             /\ \A f \in Field : f # "flags" => memory'[s][f] = moved[s][f]
             /\ memory'[s]["flags"] \in {0, 1}
             /\ w[new] # s /\ w[selected] # s => memory'[s] = moved[s]
  <2>1. moved[s] \in [Field -> Values] /\ moved[s]["flags"] \in {0, 1}
    BY <1>5 DEF Memory, Bit
  <2>2. memory'[s] = IF w[new] = s THEN [moved[s] EXCEPT !["flags"] = 1]
                     ELSE IF w[selected] = s THEN [moved[s] EXCEPT !["flags"] = 0]
                     ELSE moved[s]
    BY <1>4, <1>6 DEF Outlined
  <2> QED
    BY <1>7, <2>1, <2>2
<1>9. DocOK'
  <2>1. memory' \in Memory
    BY <1>6, <1>8 DEF Outlined, Memory
  <2>2. \A s \in Slot, f \in Bit : memory'[s][f] \in {0, 1}
    BY <1>5, <1>8, BitsAreFields
  <2>3. OwnSlots'
    BY <1>2, <1>5 DEF OwnSlots, Alive
  <2>4. moves' \in 0..MaxMoves
    BY <1>1, UndoAssumption DEF DocOK
  <2> QED
    BY <1>2, <1>5, <2>1, <2>2, <2>3, <2>4 DEF DocOK
<1>10. ASSUME NEW a \in Address, NEW c \in CellsAt(a), where'[c[1]] = where[c[1]],
              c \notin cells(w)
       PROVE  At(memory', a) = At(memory, a)
  <2>1. /\ c[1] \in Alive /\ a = <<where[c[1]], c[2]>> /\ a[1] = where[c[1]] /\ a[2] = c[2]
        /\ c = <<c[1], c[2]>> /\ a[1] \in Slot /\ a[2] \in Field
    BY <1>1, CellAt, AddressParts DEF CellsAt
  <2>2. moved[a[1]] = memory[a[1]]
    BY <1>2, <1>5, <1>10, <2>1
  <2>3. CASE c[2] # "flags"
    BY <1>8, <2>1, <2>2, <2>3 DEF At
  <2>4. CASE c[2] = "flags"
    <3>1. c[1] # selected /\ c[1] # new
      BY <1>2, <1>10, <2>1, <2>4
    <3>2. w[new] # a[1] /\ w[selected] # a[1]
      BY <1>1, <1>2, <1>5, <1>10, <2>1, <3>1
    <3> QED
      BY <1>8, <2>1, <2>2, <3>2 DEF At
  <2> QED
    BY <2>3, <2>4
<1>11. Keeps /\ status' \in [Cells -> Status] /\ latest' \in [Cells -> Values]
  <2>1. CellsMoved(where') \subseteq cells(w) /\ Leak(cells(w))
    BY <1>2
  <2>2. where' \in Places(Alive \union {new})
    BY <1>2
  <2> DEFINE leaking == cells(w)
  <2> HIDE DEF cells
  <2> QED
    BY <1>1, <1>4, <1>10, <2>1, <2>2, MapKeeps
<1>12. touched' = touched /\ active' \in Widget \union {Idle} /\ active' = active
  BY <1>1
<1> QED
  BY <1>1, <1>9, <1>11, <1>12, QuietStep

\* A widget that is given up leaves its item; the field leaks.
LEMMA NoPropertiesStep ==
  ASSUME UInv, NoProperties
  PROVE  UInv'
<1>1. /\ temp_items = <<>> /\ UNCHANGED <<doc, undo, touched>> /\ phase' \in Phases
      /\ active' = IF active \in Gizmos THEN active ELSE Idle
      /\ Leak(IF active' = Idle THEN Abandoned(single_items) ELSE {})
      /\ DocOK /\ HistOK /\ active \in Widget \union {Idle}
  BY NotInPanel DEF NoProperties, Phases, UInv, Typed
<1>2. UNCHANGED <<where, memory, selected, moves, single_items>>
  BY <1>1 DEF doc, undo
<1>3. DocOK'
  BY <1>1, <1>2 DEF DocOK, OwnSlots, Alive
<1> DEFINE cells == IF active' = Idle THEN Abandoned(single_items) ELSE {}
<1>4. /\ Keeps /\ status' \in [Cells -> Status] /\ latest' \in [Cells -> Values]
      /\ \A a \in Address : Clean(a)' => ~ (CellsAt(a) \subseteq cells)
  <2>1. Leak(cells)
    BY <1>1
  <2> HIDE DEF cells
  <2> QED
    BY <1>1, <1>2, <2>1, LeakKeeps
<1>5. ASSUME NEW t \in Widget, single_items[t] # NoItem, Clean(single_items[t].ptr)', t = active
      PROVE  t = active'
  <2>1. single_items[t].ptr \in Address
    BY <1>5, OpenTyped DEF OpenItem, UInv, Typed
  <2>2. CellsAt(single_items[t].ptr) \subseteq Abandoned(single_items)
    BY <1>5 DEF Abandoned, Pending
  <2>3. active' # Idle
    BY <1>2, <1>4, <1>5, <2>1, <2>2
  <2> QED
    BY <1>1, <1>5, <2>3
<1>6. touched' = touched /\ active' \in Widget \union {Idle}
  BY <1>1
<1> QED
  BY <1>1, <1>3, <1>4, <1>5, <1>6, QuietStep

----------------------------------------------------------------------------
(* Ctrl+Z and Ctrl+Y *)

\* What both do to the memory, with the item last of a stack: a covered field leaks.
LEMMA MoveItemFacts ==
  ASSUME UInv, phase = "events", NEW from \in Seq(GoodItem), from # <<>>,
         NEW last, last = Last(from),
         NEW moved, moved = [last EXCEPT !.data = At(memory, last.ptr)],
         memory' = Write(memory, last.ptr, last.data),
         Leak(IF Covered(last.ptr) THEN CellsAt(last.ptr) ELSE {}),
         UNCHANGED <<where, selected, moves, temp_items, single_items, active, touched>>
  PROVE  /\ last \in GoodItem /\ last.ptr \in Address
         /\ moved \in GoodItem /\ moved.ptr = last.ptr /\ moved.data = At(memory, last.ptr)
         /\ DocOK' /\ HistOK' /\ NoStray' /\ Accounted'
         /\ \A b \in Address :
              At(memory', b) = IF b = last.ptr THEN last.data ELSE At(memory, b)
         /\ \A b \in Address : Clean(b)' => Clean(b)
         /\ Clean(last.ptr)' => NoneOpen(last.ptr)
         /\ \A i : OpenItem(i)' <=> OpenItem(i)
         /\ \A b \in Address : \A c \in CellsAt(b)' : status'[c] = "kept" =>
              c \in CellsAt(b) /\ status[c] = "kept" /\ latest'[c] = latest[c]
<1>1. DocOK /\ HistOK /\ ItemsOK /\ temp_items = <<>>
  BY NotInPanel DEF UInv, Typed
<1>2. last \in GoodItem /\ last \in ItemType /\ last.ptr \in Address /\ last.data \in Values
      /\ (last.ptr[2] \in Bit => last.data \in {0, 1})
  BY FrontAndLast, ItemParts
<1> DEFINE cells == IF Covered(last.ptr) THEN CellsAt(last.ptr) ELSE {}
<1>3. memory \in Memory /\ latest \in [Cells -> Values] /\ Note(cells, {}, latest)
  BY <1>1 DEF DocOK, HistOK, Leak
<1>4. /\ status' \in [Cells -> Status] /\ latest' \in [Cells -> Values]
      /\ \A c \in Cells : status'[c] # "leaked" => status[c] # "leaked" /\ c \notin cells
      /\ \A c \in Cells :
           status'[c] = "kept" => status[c] = "kept" /\ latest'[c] = latest[c]
  <2> HIDE DEF cells
  <2> QED
    BY <1>1, <1>3, NoteFacts
<1>5. /\ memory' \in Memory
      /\ \A b \in Address : At(memory', b) = IF b = last.ptr THEN last.data ELSE At(memory, b)
      /\ \A s \in Slot, f \in Field :
           memory'[s][f] = IF s = last.ptr[1] /\ f = last.ptr[2] THEN last.data ELSE memory[s][f]
  <2>1. /\ Write(memory, last.ptr, last.data) \in Memory
        /\ \A b \in Address : At(Write(memory, last.ptr, last.data), b)
                                = IF b = last.ptr THEN last.data ELSE At(memory, b)
        /\ \A s \in Slot, f \in Field :
             Write(memory, last.ptr, last.data)[s][f]
               = IF s = last.ptr[1] /\ f = last.ptr[2] THEN last.data ELSE memory[s][f]
    BY <1>2, <1>3, WriteFacts
  <2> QED
    BY <2>1, Zenon
<1>6. /\ moved \in GoodItem /\ moved.ptr = last.ptr /\ moved.data = At(memory, last.ptr)
  <2>1. /\ At(memory, last.ptr) \in Values
        /\ (last.ptr[2] \in Bit => At(memory, last.ptr) \in {0, 1})
    BY <1>1, <1>2, <1>3, AtTyped, AddressParts DEF At, DocOK
  <2> QED
    BY <1>2, <2>1 DEF GoodItem, ItemType
<1>7. DocOK'
  <2>1. \A s \in Slot, f \in Bit : memory'[s][f] \in {0, 1}
    BY <1>1, <1>2, <1>5, BitsAreFields DEF DocOK
  <2> QED
    BY <1>1, <1>5, <2>1 DEF DocOK, OwnSlots, Alive
<1>8. HistOK'
  BY <1>1, <1>4 DEF HistOK
<1>9. \A b \in Address : CellsAt(b)' = CellsAt(b) /\ CellsAt(b) \subseteq Cells
  BY DEF CellsAt
<1>10. \A b \in Address : Clean(b)' => Clean(b)
  BY <1>4, <1>9 DEF Clean
<1>11. ASSUME Clean(last.ptr)' PROVE NoneOpen(last.ptr) /\ ~ Covered(last.ptr)
  <2>0. PICK c \in CellsAt(last.ptr)' : status'[c] # "leaked"
    BY <1>2, <1>11 DEF Clean, CellsAt
  <2>1. c \in CellsAt(last.ptr) /\ c \notin cells
    BY <1>2, <1>4, <1>9, <2>0 DEF CellsAt
  <2>2. ~ Covered(last.ptr)
    BY <2>1
  <2> QED
    BY <1>1, <2>2, SingleOpen DEF NoneOpen
<1>12. \A i : OpenItem(i)' <=> OpenItem(i)
  BY DEF OpenItem
<1>13. NoStray'
  <2>1. ASSUME NEW t \in Widget, single_items[t] # NoItem, Clean(single_items[t].ptr)'
        PROVE  t = active'
    <3>1. OpenItem(single_items[t])
      BY <2>1 DEF OpenItem
    <3>2. single_items[t].ptr \in Address
      BY <1>1, <3>1, OpenTyped
    <3>3. Clean(single_items[t].ptr)
      BY <1>10, <2>1, <3>2
    <3> QED
      BY <2>1, <3>3 DEF UInv, NoStray
  <2> QED
    BY <2>1 DEF NoStray
<1>14. Accounted'
  <2>1. ASSUME NEW i, OpenItem(i), At(memory', i.ptr) # i.data, Clean(i.ptr)'
        PROVE  i.ptr \in touched
    <3>1. i.ptr \in Address
      BY <1>1, <2>1, OpenTyped
    <3>2. i.ptr # last.ptr
      BY <1>11, <2>1 DEF NoneOpen, Clean, CellsAt
    <3>3. At(memory', i.ptr) = At(memory, i.ptr) /\ Clean(i.ptr)
      BY <1>5, <1>10, <2>1, <3>1, <3>2
    <3> QED
      BY <2>1, <3>3 DEF UInv, Accounted
  <2> QED
    BY <1>12, <2>1 DEF Accounted
<1>15. Clean(last.ptr)' => NoneOpen(last.ptr)
  BY <1>11
<1> QED
  BY <1>2, <1>4, <1>5, <1>6, <1>7, <1>8, <1>9, <1>10, <1>12, <1>13, <1>14, <1>15

LEMMA UndoKeyStep ==
  ASSUME UInv, UndoKey
  PROVE  UInv'
<1>1. /\ phase = "events" /\ undo_items # <<>> /\ phase' \in Phases
      /\ UNCHANGED <<where, selected, moves, temp_items, single_items, active, touched>>
  BY DEF UndoKey, Phases
<1>2. /\ undo_items \in Seq(GoodItem) /\ redo_items \in Seq(GoodItem)
      /\ single_items \in GoodSingles /\ temp_items = <<>> /\ active \in Widget \union {Idle}
  BY <1>1, NotInPanel DEF UInv, Typed, ItemsOK
<1>3. PICK last : last = Last(undo_items)
  OBVIOUS
<1>4. PICK moved : moved = [last EXCEPT !.data = At(memory, last.ptr)]
  OBVIOUS
<1>5. /\ undo_items' = Front(undo_items) /\ redo_items' = Append(redo_items, moved)
      /\ memory' = Write(memory, last.ptr, last.data)
      /\ Leak(IF Covered(last.ptr) THEN CellsAt(last.ptr) ELSE {})
  BY <1>3, <1>4 DEF UndoKey, MoveItem
<1>6. /\ last \in GoodItem /\ last.ptr \in Address
      /\ moved \in GoodItem /\ moved.ptr = last.ptr /\ moved.data = At(memory, last.ptr)
      /\ DocOK' /\ HistOK' /\ NoStray' /\ Accounted'
      /\ \A b \in Address :
           At(memory', b) = IF b = last.ptr THEN last.data ELSE At(memory, b)
      /\ \A b \in Address : Clean(b)' => Clean(b)
      /\ Clean(last.ptr)' => NoneOpen(last.ptr)
      /\ \A i : OpenItem(i)' <=> OpenItem(i)
      /\ \A b \in Address : \A c \in CellsAt(b)' : status'[c] = "kept" =>
           c \in CellsAt(b) /\ status[c] = "kept" /\ latest'[c] = latest[c]
  BY <1>1, <1>2, <1>3, <1>4, <1>5, MoveItemFacts
<1>7. /\ undo_items' \in Seq(GoodItem) /\ redo_items' \in Seq(GoodItem)
  BY <1>1, <1>2, <1>5, <1>6, FrontAndLast, FirstAfterAppend
<1>8. Typed'
  <2>1. ItemsOK'
    <3>1. temp_items' = <<>> /\ single_items' \in GoodSingles
      BY <1>1, <1>2
    <3> QED
      BY <1>7, <3>1 DEF ItemsOK
  <2> QED
    BY <1>1, <1>2, <1>6, <2>1 DEF Typed
<1>9. Restores'
  <2>1. ASSUME NEW b \in Address, Clean(b)'
        PROVE  /\ Has(undo_items', b) => FirstIs(undo_items', b, NewFields[b[2]])
               /\ ~ Has(undo_items', b) =>
                    /\ \A i : OpenItem(i)' /\ i.ptr = b => i.data = NewFields[b[2]]
                    /\ NoneOpen(b)' => At(memory', b) = NewFields[b[2]]
    <3>1. PICK new : new = NewFields[b[2]]
      OBVIOUS
    <3>2. /\ Has(undo_items, b) => FirstIs(undo_items, b, new)
          /\ ~ Has(undo_items, b) =>
               /\ \A i : OpenItem(i) /\ i.ptr = b => i.data = new
               /\ NoneOpen(b) => At(memory, b) = new
      BY <1>6, <2>1, <3>1 DEF UInv, Restores, NoneOpen
    <3>3. /\ Has(undo_items, b) <=> Has(Front(undo_items), b) \/ last.ptr = b
          /\ Has(Front(undo_items), b) => FirstIs(Front(undo_items), b, new)
          /\ ~ Has(Front(undo_items), b) /\ last.ptr = b => last.data = new
      BY <1>1, <1>2, <1>3, <3>2, FirstAfterPop
    <3>4. NoneOpen(b)' <=> NoneOpen(b)
      BY <1>6 DEF NoneOpen
    <3>5. CASE b = last.ptr
      <4>1. NoneOpen(b)
        BY <1>6, <2>1, <3>5 DEF Clean, CellsAt
      <4> QED
        BY <1>5, <1>6, <3>1, <3>3, <3>5, <4>1 DEF NoneOpen
    <3>6. CASE b # last.ptr
      BY <1>5, <1>6, <3>1, <3>2, <3>3, <3>4, <3>6
    <3> QED
      BY <3>5, <3>6
  <2> QED
    BY <2>1 DEF Restores, NoneOpen
<1>10. Returns'
  <2>1. ASSUME NEW b \in Address, NEW c \in CellsAt(b)', status'[c] = "kept"
        PROVE  /\ Has(redo_items', b) => FirstIs(redo_items', b, latest'[c])
               /\ ~ Has(redo_items', b) => At(memory', b) = latest'[c]
    <3>1. /\ c \in CellsAt(b) /\ status[c] = "kept" /\ latest'[c] = latest[c]
      BY <1>6, <2>1
    <3>2. /\ Has(redo_items, b) => FirstIs(redo_items, b, latest[c])
          /\ ~ Has(redo_items, b) => At(memory, b) = latest[c]
      BY <3>1 DEF UInv, Returns
    <3>3. /\ Has(redo_items', b) <=> Has(redo_items, b) \/ moved.ptr = b
          /\ \A d : FirstIs(redo_items, b, d) => FirstIs(redo_items', b, d)
          /\ ~ Has(redo_items, b) /\ moved.ptr = b => FirstIs(redo_items', b, moved.data)
      BY <1>2, <1>5, <1>6, FirstAfterAppend
    <3> QED
      BY <1>6, <3>1, <3>2, <3>3
  <2> QED
    BY <2>1 DEF Returns
<1> QED
  BY <1>6, <1>8, <1>9, <1>10 DEF UInv

LEMMA RedoKeyStep ==
  ASSUME UInv, RedoKey
  PROVE  UInv'
<1>1. /\ phase = "events" /\ redo_items # <<>> /\ phase' \in Phases
      /\ UNCHANGED <<where, selected, moves, temp_items, single_items, active, touched>>
  BY DEF RedoKey, Phases
<1>2. /\ undo_items \in Seq(GoodItem) /\ redo_items \in Seq(GoodItem)
      /\ single_items \in GoodSingles /\ temp_items = <<>> /\ active \in Widget \union {Idle}
  BY <1>1, NotInPanel DEF UInv, Typed, ItemsOK
<1>3. PICK last : last = Last(redo_items)
  OBVIOUS
<1>4. PICK moved : moved = [last EXCEPT !.data = At(memory, last.ptr)]
  OBVIOUS
<1>5. /\ redo_items' = Front(redo_items) /\ undo_items' = Append(undo_items, moved)
      /\ memory' = Write(memory, last.ptr, last.data)
      /\ Leak(IF Covered(last.ptr) THEN CellsAt(last.ptr) ELSE {})
  BY <1>3, <1>4 DEF RedoKey, MoveItem
<1>6. /\ last \in GoodItem /\ last.ptr \in Address
      /\ moved \in GoodItem /\ moved.ptr = last.ptr /\ moved.data = At(memory, last.ptr)
      /\ DocOK' /\ HistOK' /\ NoStray' /\ Accounted'
      /\ \A b \in Address :
           At(memory', b) = IF b = last.ptr THEN last.data ELSE At(memory, b)
      /\ \A b \in Address : Clean(b)' => Clean(b)
      /\ Clean(last.ptr)' => NoneOpen(last.ptr)
      /\ \A i : OpenItem(i)' <=> OpenItem(i)
      /\ \A b \in Address : \A c \in CellsAt(b)' : status'[c] = "kept" =>
           c \in CellsAt(b) /\ status[c] = "kept" /\ latest'[c] = latest[c]
  BY <1>1, <1>2, <1>3, <1>4, <1>5, MoveItemFacts
<1>7. /\ undo_items' \in Seq(GoodItem) /\ redo_items' \in Seq(GoodItem)
  BY <1>1, <1>2, <1>5, <1>6, FrontAndLast, FirstAfterAppend
<1>8. Typed'
  <2>1. ItemsOK'
    <3>1. temp_items' = <<>> /\ single_items' \in GoodSingles
      BY <1>1, <1>2
    <3> QED
      BY <1>7, <3>1 DEF ItemsOK
  <2> QED
    BY <1>1, <1>2, <1>6, <2>1 DEF Typed
<1>9. Restores'
  <2>1. ASSUME NEW b \in Address, Clean(b)' PROVE Clean(b) /\ StackStep(b)
    <3>1. /\ Has(undo_items', b) <=> Has(undo_items, b) \/ moved.ptr = b
          /\ \A d : FirstIs(undo_items, b, d) => FirstIs(undo_items', b, d)
          /\ ~ Has(undo_items, b) /\ moved.ptr = b => FirstIs(undo_items', b, moved.data)
      BY <1>2, <1>5, <1>6, FirstAfterAppend
    <3>2. Clean(b) /\ (NoneOpen(b)' <=> NoneOpen(b))
      BY <1>6, <2>1 DEF NoneOpen
    <3>3. b = last.ptr => NoneOpen(b)
      BY <1>6, <2>1 DEF Clean, CellsAt
    <3> QED
      BY <1>6, <3>1, <3>2, <3>3 DEF StackStep
  <2> QED
    BY <2>1, StackSteps DEF UInv
<1>10. Returns'
  <2>1. ASSUME NEW b \in Address, NEW c \in CellsAt(b)', status'[c] = "kept"
        PROVE  /\ Has(redo_items', b) => FirstIs(redo_items', b, latest'[c])
               /\ ~ Has(redo_items', b) => At(memory', b) = latest'[c]
    <3>1. /\ c \in CellsAt(b) /\ status[c] = "kept" /\ latest'[c] = latest[c]
      BY <1>6, <2>1
    <3>2. PICK d : d = latest[c]
      OBVIOUS
    <3>3. /\ Has(redo_items, b) => FirstIs(redo_items, b, d)
          /\ ~ Has(redo_items, b) => At(memory, b) = d
      BY <3>1, <3>2 DEF UInv, Returns
    <3>4. /\ Has(redo_items, b) <=> Has(Front(redo_items), b) \/ last.ptr = b
          /\ Has(Front(redo_items), b) => FirstIs(Front(redo_items), b, d)
          /\ ~ Has(Front(redo_items), b) /\ last.ptr = b => last.data = d
      BY <1>1, <1>2, <1>3, <3>3, FirstAfterPop
    <3> QED
      BY <1>5, <1>6, <3>1, <3>2, <3>3, <3>4
  <2> QED
    BY <2>1 DEF Returns
<1> QED
  BY <1>6, <1>8, <1>9, <1>10 DEF UInv

----------------------------------------------------------------------------
(* Steps that open items, and writes *)

\* The stack stays; no open item of a clean address is lost, and a new one comes
\* where none was open, with the bytes of the memory.
Opens ==
  /\ undo_items' = undo_items /\ redo_items' = redo_items
  /\ ItemsOK' /\ phase' \in Phases /\ active' \in Widget \union {Idle} /\ NoStray'
  /\ \A i : i.ptr \in Address /\ Clean(i.ptr)' =>
       /\ OpenItem(i) => OpenItem(i)'
       /\ OpenItem(i)' => OpenItem(i) \/ (NoneOpen(i.ptr) /\ i.data = At(memory, i.ptr))

LEMMA OpeningStep ==
  ASSUME UInv, Opens, UNCHANGED <<doc, hist>>
  PROVE  UInv'
<1>1. UNCHANGED <<where, memory, selected, moves, status, latest, touched>>
  BY DEF doc, hist
<1>2. Typed' /\ Keeps
  BY <1>1, NothingChanged DEF UInv, Typed, DocOK, HistOK, OwnSlots, Alive, Opens
<1>3. \A a \in Address : Clean(a)' => Clean(a) /\ At(memory', a) = At(memory, a)
  BY <1>2, KeepsClean
<1>4. Restores'
  <2>1. ASSUME NEW a \in Address, Clean(a)'
        PROVE  /\ Clean(a)
               /\ \A i : OpenItem(i) /\ i.ptr = a => OpenItem(i)'
               /\ \A i : OpenItem(i)' /\ i.ptr = a =>
                    OpenItem(i) \/ (NoneOpen(a) /\ i.data = At(memory, a))
               /\ At(memory', a) # At(memory, a) => ~ NoneOpen(a)'
    BY <1>3, <2>1 DEF Opens
  <2> QED
    BY <2>1, OpenSteps DEF UInv, Opens
<1>5. Accounted'
  <2>1. ASSUME NEW i, OpenItem(i)', At(memory', i.ptr) # i.data, Clean(i.ptr)'
        PROVE  i.ptr \in touched'
    <3>1. i.ptr \in Address
      <4>1. ItemsOK' /\ OpenItem(i)'
        BY <2>1 DEF Opens
      <4> QED
        BY <4>1, OpenTypedNext
    <3>2. Clean(i.ptr) /\ At(memory', i.ptr) = At(memory, i.ptr)
      BY <1>3, <2>1, <3>1
    <3>3. OpenItem(i)
      BY <2>1, <3>1, <3>2 DEF Opens
    <3> QED
      BY <1>1, <2>1, <3>2, <3>3 DEF UInv, Accounted
  <2> QED
    BY <2>1 DEF Accounted
<1>6. Returns'
  BY <1>2, KeepsReturns DEF UInv, Opens
<1> QED
  BY <1>2, <1>4, <1>5, <1>6 DEF UInv, Opens

LEMMA WritingStep ==
  ASSUME UInv, Opens, UNCHANGED <<where, selected, moves>>,
         NEW s \in Slot, NEW fields \in [Field -> Values], \A f \in Bit : fields[f] \in {0, 1},
         NEW covered, UserWrites(s, fields, covered),
         \A b \in Address :
           /\ Clean(b)' /\ b[1] = s /\ b[2] \in covered
           /\ At(memory', b) # At(memory, b)
           => ~ NoneOpen(b)'
  PROVE  UInv'
<1>1. DocOK /\ HistOK /\ Returns /\ redo_items' = redo_items
  BY DEF UInv, Typed, Opens
<1>2. /\ DocOK' /\ HistOK' /\ touched \subseteq touched'
      /\ \A b \in Address : Clean(b)' => Clean(b)
      /\ \A b \in Address :
           At(memory', b) # At(memory, b) =>
             /\ b[1] = s /\ b \in touched'
             /\ Clean(b)' => b[2] \in covered
      /\ Returns'
  BY <1>1, UserWritesFacts
<1>3. Typed'
  BY <1>2 DEF Typed, Opens
<1>4. Restores'
  <2>1. ASSUME NEW b \in Address, Clean(b)'
        PROVE  /\ Clean(b)
               /\ \A i : OpenItem(i) /\ i.ptr = b => OpenItem(i)'
               /\ \A i : OpenItem(i)' /\ i.ptr = b =>
                    OpenItem(i) \/ (NoneOpen(b) /\ i.data = At(memory, b))
               /\ At(memory', b) # At(memory, b) => ~ NoneOpen(b)'
    BY <1>2, <2>1 DEF Opens
  <2> QED
    BY <2>1, OpenSteps DEF UInv, Opens
<1>5. Accounted'
  <2>1. ASSUME NEW i, OpenItem(i)', At(memory', i.ptr) # i.data, Clean(i.ptr)'
        PROVE  i.ptr \in touched'
    <3>1. i.ptr \in Address
      <4>1. ItemsOK' /\ OpenItem(i)'
        BY <2>1 DEF Opens
      <4> QED
        BY <4>1, OpenTypedNext
    <3>2. CASE At(memory', i.ptr) # At(memory, i.ptr)
      BY <1>2, <3>1, <3>2
    <3>3. CASE At(memory', i.ptr) = At(memory, i.ptr)
      <4>1. Clean(i.ptr)
        BY <1>2, <2>1, <3>1
      <4>2. OpenItem(i)
        BY <2>1, <3>1, <3>3 DEF Opens
      <4> QED
        BY <1>2, <2>1, <3>3, <4>1, <4>2 DEF UInv, Accounted
    <3> QED
      BY <3>2, <3>3
  <2> QED
    BY <2>1 DEF Accounted
<1> QED
  BY <1>2, <1>3, <1>4, <1>5 DEF UInv, Opens

\* What Properties pushes: of addresses where nothing was open.
LEMMA TempsStep ==
  ASSUME UInv, Shown, temp_items' = PushTemps
  PROVE  /\ temp_items = <<>> /\ IsPushed(temp_items')
         /\ \A n \in DOMAIN temp_items' :
              /\ temp_items'[n].ptr \in Address /\ temp_items'[n].ptr[2] \in Bit
              /\ NoneOpen(temp_items'[n].ptr)
              /\ temp_items'[n].data = At(memory, temp_items'[n].ptr)
         /\ \A f \in Bit : \E n \in DOMAIN temp_items' : temp_items'[n].ptr = <<where[selected], f>>
<1>1. temp_items = <<>> /\ DocOK /\ ItemsOK /\ selected \in Alive
  BY NotInPanel DEF Shown, UInv, Typed
<1>2. /\ IsPushed(PushTemps)
      /\ \A n \in DOMAIN PushTemps :
           /\ PushTemps[n] \in GoodItem /\ PushTemps[n].ptr \in Address
           /\ PushTemps[n].ptr[1] = where[selected] /\ PushTemps[n].ptr[2] \in Bit
           /\ PushTemps[n].data = At(memory, PushTemps[n].ptr)
      /\ \A f \in Bit : \E n \in DOMAIN PushTemps : PushTemps[n].ptr = <<where[selected], f>>
  BY <1>1, PushedTemps
<1>3. ASSUME NEW a, a[2] \in Bit PROVE NoneOpen(a)
  BY <1>1, <1>3, SingleOpen DEF NoneOpen
<1> QED
  BY <1>1, <1>2, <1>3

LEMMA ShowOpens ==
  ASSUME UInv, Shown, temp_items' = PushTemps, phase' = "panel",
         UNCHANGED <<undo_items, redo_items, single_items, active>>,
         \A b \in Address : Clean(b)' => Clean(b)
  PROVE  Opens
<1>1. /\ temp_items = <<>> /\ IsPushed(temp_items')
      /\ \A n \in DOMAIN temp_items' :
           /\ temp_items'[n].ptr \in Address
           /\ NoneOpen(temp_items'[n].ptr)
           /\ temp_items'[n].data = At(memory, temp_items'[n].ptr)
  BY TempsStep
<1>2. ItemsOK /\ ItemsOK' /\ phase' \in Phases /\ active' \in Widget \union {Idle}
  BY <1>1 DEF UInv, Typed, ItemsOK, Phases
<1>3. \A i : OpenItem(i) => OpenItem(i)'
  BY <1>1 DEF OpenItem
<1>4. ASSUME NEW i, OpenItem(i)'
      PROVE  OpenItem(i) \/ (NoneOpen(i.ptr) /\ i.data = At(memory, i.ptr))
  BY <1>1, <1>4 DEF OpenItem
<1>5. NoStray'
  <2>1. ASSUME NEW t \in Widget, single_items[t] # NoItem, Clean(single_items[t].ptr)'
        PROVE  t = active
    <3>1. OpenItem(single_items[t])
      BY <2>1 DEF OpenItem
    <3>2. single_items[t].ptr \in Address
      BY <1>2, <3>1, OpenTyped
    <3>3. single_items'[t] = single_items[t]
      OBVIOUS
    <3>4. Clean(single_items[t].ptr)
      BY <2>1, <3>2, <3>3
    <3> QED
      BY <2>1, <3>4 DEF UInv, NoStray
  <2> QED
    BY <2>1 DEF NoStray
<1> QED
  BY <1>2, <1>3, <1>4, <1>5 DEF Opens

LEMMA SameClean ==
  ASSUME UNCHANGED <<where, status>>
  PROVE  \A b \in Address : Clean(b)' <=> Clean(b)
BY DEF Clean, CellsAt

LEMMA ShowPropertiesStep ==
  ASSUME UInv, ShowProperties
  PROVE  UInv'
<1>1. /\ Shown /\ temp_items' = PushTemps /\ phase' = "panel"
      /\ UNCHANGED <<undo_items, redo_items, single_items, active>> /\ UNCHANGED <<doc, hist>>
  BY DEF ShowProperties
<1>2. UNCHANGED <<where, status>>
  BY <1>1 DEF doc, hist
<1>3. Opens
  BY <1>1, <1>2, SameClean, ShowOpens
<1> QED
  BY <1>1, <1>3, OpeningStep

LEMMA ToggleEnabledStep ==
  ASSUME UInv, ToggleEnabled
  PROVE  UInv'
<1>1. /\ Shown /\ temp_items' = PushTemps /\ phase' = "panel" /\ selected \in Alive
      /\ UNCHANGED <<where, selected, moves, undo_items, redo_items, single_items, active>>
      /\ DocOK /\ HistOK
  BY DEF ToggleEnabled, Shown, UInv, Typed
<1>2. PICK s : s = where[selected]
  OBVIOUS
<1>3. "enabled" \in Bit /\ "enabled" \in Field
  BY DEF Bit, Field
<1>4. s \in Slot /\ memory[s] \in [Field -> Values] /\ \A f \in Bit : memory[s][f] \in {0, 1}
  BY <1>1, <1>2, <1>3, AddressOf DEF DocOK, Memory
<1>5. PICK fields : fields = [memory[s] EXCEPT !["enabled"] = 1 - @]
  OBVIOUS
<1>6. fields \in [Field -> Values] /\ \A f \in Bit : fields[f] \in {0, 1}
  <2>1. memory[s]["enabled"] \in {0, 1}
    BY <1>3, <1>4
  <2>2. 1 - memory[s]["enabled"] \in {0, 1} /\ {0, 1} \subseteq Values
    BY <2>1, UndoAssumption
  <2>3. \A f \in Field : fields[f] = IF f = "enabled" THEN 1 - memory[s]["enabled"] ELSE memory[s][f]
    BY <1>4, <1>5
  <2>4. fields \in [Field -> Values]
    BY <1>4, <1>5, <2>2
  <2> QED
    BY <1>4, <2>2, <2>3, <2>4, BitsAreFields
<1>7. UserWrites(s, fields, {"enabled"})
  BY <1>2, <1>5 DEF ToggleEnabled
<1>8. \A b \in Address : Clean(b)' => Clean(b)
  BY <1>1, <1>4, <1>6, <1>7, UserWritesFacts
<1>9. Opens
  BY <1>1, <1>8, ShowOpens
<1>10. ASSUME NEW b \in Address, b[1] = s, b[2] \in {"enabled"} PROVE ~ NoneOpen(b)'
  <2>1. b = <<where[selected], "enabled">>
    BY <1>2, <1>10, AddressParts
  <2>2. PICK n \in DOMAIN temp_items' : temp_items'[n].ptr = b
    BY <1>1, <1>3, <2>1, TempsStep
  <2> QED
    BY <2>2 DEF NoneOpen, OpenItem
<1> QED
  BY <1>1, <1>4, <1>6, <1>7, <1>9, <1>10, WritingStep

\* What the item of an open edit covers has an open item.
LEMMA CoveredInOpen ==
  ASSUME NEW b \in Address, b[2] \in CoveredIn(b[1])
  PROVE  Covered(b) /\ ~ NoneOpen(b)
<1>1. b = <<b[1], b[2]>>
  BY AddressParts
<1>2. Covered(b)
  BY <1>1 DEF CoveredIn
<1> QED
  BY <1>2, CoveredIsOpen

LEMMA DragStep ==
  ASSUME UInv, NEW tag \in Widget, NEW v \in Values, Drag(tag, v)
  PROVE  UInv'
<1>1. /\ Shown /\ temp_items' = PushTemps /\ phase' = "panel" /\ selected \in Alive
      /\ UNCHANGED <<where, selected, moves, undo_items, redo_items, single_items, active>>
      /\ DocOK /\ HistOK
  BY DEF Drag, Shown, UInv, Typed
<1>2. PICK s : s = where[selected]
  OBVIOUS
<1>3. Edits[tag] \in Field \ Bit
  BY WidgetFields
<1>4. s \in Slot /\ memory[s] \in [Field -> Values] /\ \A f \in Bit : memory[s][f] \in {0, 1}
  BY <1>1, <1>2, <1>3, AddressOf DEF DocOK, Memory
<1>5. PICK fields : fields = [memory[s] EXCEPT ![Edits[tag]] = v]
  OBVIOUS
<1>6. fields \in [Field -> Values] /\ \A f \in Bit : fields[f] \in {0, 1}
  BY <1>3, <1>4, <1>5, BitsAreFields
<1>7. PICK covered : covered = CoveredIn(s)
  OBVIOUS
<1>8. UserWrites(s, fields, covered)
  BY <1>2, <1>5, <1>7 DEF Drag
<1>9. \A b \in Address : Clean(b)' => Clean(b)
  BY <1>1, <1>4, <1>6, <1>8, UserWritesFacts
<1>10. Opens
  BY <1>1, <1>9, ShowOpens
<1>11. ASSUME NEW b \in Address, b[1] = s, b[2] \in covered PROVE ~ NoneOpen(b)'
  <2>1. Covered(b)
    BY <1>7, <1>11, CoveredInOpen
  <2>2. PICK t \in Widget : single_items[t] # NoItem /\ single_items[t].ptr = b
    BY <2>1 DEF Covered, Pending
  <2>3. OpenItem(single_items[t])'
    BY <1>1, <2>2 DEF OpenItem
  <2>4. single_items'[t].ptr = b
    BY <1>1, <2>2
  <2> QED
    BY <2>3, <2>4 DEF NoneOpen
<1> QED
  BY <1>1, <1>4, <1>6, <1>8, <1>10, <1>11, WritingStep

LEMMA IdleIsNoWidget == Idle \notin Widget
BY UndoAssumption DEF Idle, AllWidgets, Gizmos

\* While no widget is in use, nothing is open at a clean address.
LEMMA NoneOpenWhileIdle ==
  ASSUME UInv, temp_items = <<>>, active = Idle, NEW b \in Address, Clean(b)
  PROVE  NoneOpen(b)
<1>1. ASSUME NEW i, OpenItem(i), i.ptr = b PROVE FALSE
  <2>1. PICK t \in Widget : single_items[t] # NoItem /\ single_items[t] = i
    BY <1>1, SingleOpen DEF UInv, Typed
  <2>2. t = active
    BY <1>1, <2>1 DEF UInv, NoStray
  <2> QED
    BY <2>2, IdleIsNoWidget
<1> QED
  BY <1>1 DEF NoneOpen

\* A widget that starts opens one item, over a stray one perhaps.
LEMMA StartOpens ==
  ASSUME UInv, active = Idle, temp_items = <<>>, NEW tag \in Widget, active' = tag,
         UNCHANGED <<undo_items, redo_items>>,
         NEW i \in GoodItem, i.ptr[2] = Pushes[tag],
         Clean(i.ptr)' => i.data = At(memory, i.ptr),
         temp_items' = <<>> \/ (phase' = "panel" /\ IsPushed(temp_items')),
         \A n \in DOMAIN temp_items' : temp_items'[n].data = At(memory, temp_items'[n].ptr),
         single_items' = PushSingle(single_items, temp_items', tag, i),
         phase' \in Phases, \A b \in Address : Clean(b)' => Clean(b)
  PROVE  Opens
<1>1. ItemsOK /\ single_items \in GoodSingles
  BY DEF UInv, Typed, ItemsOK
<1>2. PICK temps : temps = temp_items'
  OBVIOUS
<1>3. /\ single_items' \in GoodSingles /\ i # NoItem
      /\ \A t \in Widget : single_items'[t] = IF t = tag THEN i ELSE single_items[t]
  <2>1. temps = <<>> \/ IsPushed(temps)
    BY <1>2
  <2>2. /\ PushSingle(single_items, temps, tag, i) \in GoodSingles
        /\ i # NoItem
        /\ \A t \in Widget :
             PushSingle(single_items, temps, tag, i)[t] = IF t = tag THEN i ELSE single_items[t]
    BY <1>1, <2>1, PushedSingle
  <2>3. single_items' = PushSingle(single_items, temps, tag, i)
    BY <1>2
  <2> QED
    BY <2>2, <2>3, Zenon
<1>4. ItemsOK'
  BY <1>1, <1>3 DEF ItemsOK
<1>5. \A b \in Address : Clean(b)' => NoneOpen(b)
  BY NoneOpenWhileIdle
<1>6. ASSUME NEW j, j.ptr \in Address, Clean(j.ptr)', OpenItem(j)'
      PROVE  NoneOpen(j.ptr) /\ j.data = At(memory, j.ptr)
  <2>0. PICK b : b = j.ptr
    OBVIOUS
  <2>1. NoneOpen(j.ptr)
    BY <1>5, <1>6
  <2>2. CASE \E n \in DOMAIN temp_items' : temp_items'[n] = j
    BY <2>1, <2>2
  <2>3. CASE \E t \in Widget : single_items'[t] # NoItem /\ single_items'[t] = j
    <3>1. PICK t \in Widget : single_items'[t] # NoItem /\ single_items'[t] = j
      BY <2>3
    <3>2. CASE t = tag
      BY <1>3, <1>6, <2>1, <3>1, <3>2
    <3>3. CASE t # tag
      <4>1. OpenItem(j)
        BY <1>3, <3>1, <3>3 DEF OpenItem
      <4> QED
        BY <2>1, <4>1 DEF NoneOpen
    <3> QED
      BY <3>2, <3>3
  <2> QED
    BY <1>6, <2>2, <2>3 DEF OpenItem
<1>7. NoStray'
  <2>1. ASSUME NEW t \in Widget, single_items'[t] # NoItem, Clean(single_items[t].ptr)', t # tag
        PROVE  FALSE
    <3>1. PICK j : j = single_items[t]
      OBVIOUS
    <3>2. single_items'[t] = j /\ j # NoItem
      BY <1>3, <2>1, <3>1
    <3>3. OpenItem(j)
      BY <3>1, <3>2 DEF OpenItem
    <3>4. j.ptr \in Address
      BY <1>1, <3>3, OpenTyped
    <3>5. Clean(j.ptr)'
      BY <2>1, <3>2
    <3> QED
      BY <1>5, <3>3, <3>4, <3>5 DEF NoneOpen
  <2> QED
    BY <2>1 DEF NoStray
<1>8. ASSUME NEW j, j.ptr \in Address, Clean(j.ptr)', OpenItem(j) PROVE FALSE
  BY <1>5, <1>8 DEF NoneOpen
<1> QED
  BY <1>4, <1>6, <1>7, <1>8 DEF Opens

LEMMA ActivateStep ==
  ASSUME UInv, NEW tag \in Widget, Activate(tag)
  PROVE  UInv'
<1>1. /\ Shown /\ active = Idle /\ temp_items' = PushTemps /\ active' = tag /\ phase' = "panel"
      /\ single_items' = PushSingle(single_items, temp_items', tag, Item(selected, Pushes[tag]))
      /\ UNCHANGED <<undo_items, redo_items>> /\ UNCHANGED <<doc, hist>>
      /\ DocOK /\ selected \in Alive /\ phase' \in Phases
  BY DEF Activate, Shown, UInv, Typed, Phases
<1>2. PICK i : i = Item(selected, Pushes[tag])
  OBVIOUS
<1>3. /\ i \in GoodItem /\ i.ptr = <<where[selected], Pushes[tag]>>
      /\ i.data = At(memory, i.ptr)
  BY <1>1, <1>2, ItemFacts, WidgetFields
<1>4. i.ptr[2] = Pushes[tag]
  BY <1>3
<1>5. /\ temp_items = <<>> /\ IsPushed(temp_items')
      /\ \A n \in DOMAIN temp_items' : temp_items'[n].data = At(memory, temp_items'[n].ptr)
  BY <1>1, TempsStep
<1>6. UNCHANGED <<where, status>>
  BY <1>1 DEF doc, hist
<1>7. \A b \in Address : Clean(b)' => Clean(b)
  BY <1>6, SameClean
<1>8. Opens
  <2>1. single_items' = PushSingle(single_items, temp_items', tag, i)
    BY <1>1, <1>2
  <2> QED
    BY <1>1, <1>3, <1>4, <1>5, <1>7, <2>1, StartOpens
<1> QED
  BY <1>1, <1>8, OpeningStep

\* What a gizmo makes of the fields of its entity.
LEMMA TransformedFacts ==
  ASSUME DocOK, selected \in Alive, NEW s, s = where[selected], NEW v \in Decomposed
  PROVE  /\ s \in Slot /\ Transformed(s, v) \in [Field -> Values]
         /\ \A f \in Bit : Transformed(s, v)[f] \in {0, 1}
         /\ \A f \in Transform : v[f] \in Values /\ Transformed(s, v)[f] = v[f]
<1>1. "flags" \in Field /\ Transform \subseteq Field /\ Bit \subseteq Field \ Transform
  BY DEF Field, Bit, Transform
<1>2. s \in Slot /\ memory[s] \in [Field -> Values] /\ \A f \in Bit : memory[s][f] \in {0, 1}
  BY <1>1, AddressOf DEF DocOK, Memory
<1>3. v \in [Transform -> Values]
  BY UndoAssumption
<1> QED
  BY <1>1, <1>2, <1>3 DEF Transformed

LEMMA GizmoStartStep ==
  ASSUME UInv, NEW tag \in Widget \intersect Gizmos, NEW v \in Decomposed, GizmoStart(tag, v)
  PROVE  UInv'
<1>1. /\ temp_items = <<>> /\ temp_items' = <<>> /\ active = Idle /\ active' = tag
      /\ UNCHANGED <<where, selected, moves, undo_items, redo_items>>
      /\ DocOK /\ HistOK /\ selected \in Alive /\ phase' \in Phases
  BY NotInPanel DEF GizmoStart, UInv, Typed, Phases
<1>2. PICK s : s = where[selected]
  OBVIOUS
<1>3. PICK fields : fields = Transformed(s, v)
  OBVIOUS
<1>4. Edits[tag] \in Transform /\ Edits[tag] \in Field \ Bit /\ Edits[tag] = Pushes[tag]
  <2>1. tag \in AllWidgets
    BY UndoAssumption
  <2> QED
    BY <2>1, WidgetFields DEF Edits, Transform
<1>5. /\ s \in Slot /\ fields \in [Field -> Values] /\ \A f \in Bit : fields[f] \in {0, 1}
      /\ v[Edits[tag]] \in Values /\ fields[Edits[tag]] = v[Edits[tag]]
  BY <1>1, <1>2, <1>3, <1>4, TransformedFacts
<1>6. PICK a : a = <<s, Edits[tag]>>
  OBVIOUS
<1>7. a \in Address /\ a[1] = s /\ a[2] = Edits[tag]
  BY <1>4, <1>5, <1>6 DEF Address
<1>8. PICK i : i = [Item(selected, Edits[tag]) EXCEPT !.data = v[Edits[tag]]]
  OBVIOUS
<1>9. i \in GoodItem /\ i.ptr = a /\ i.data = fields[Edits[tag]]
  <2>1. Item(selected, Edits[tag]) \in GoodItem /\ Item(selected, Edits[tag]).ptr = a
    BY <1>1, <1>2, <1>4, <1>6, ItemFacts
  <2> QED
    BY <1>4, <1>5, <1>7, <1>8, <2>1 DEF GoodItem, ItemType
<1>10. PICK covered : covered = CoveredIn(s)
  OBVIOUS
<1>11. UserWrites(s, fields, covered)
  BY <1>2, <1>3, <1>10 DEF GizmoStart
<1>12. /\ \A b \in Address : Clean(b)' => Clean(b)
       /\ \A b \in Address : At(memory', b) = IF b[1] = s THEN fields[b[2]] ELSE At(memory, b)
       /\ \A b \in Address :
            At(memory', b) # At(memory, b) =>
              /\ b[1] = s /\ b \in touched'
              /\ Clean(b)' => b[2] \in covered
  BY <1>1, <1>5, <1>11, UserWritesFacts
<1>13. ASSUME NEW b \in Address, Clean(b)' PROVE At(memory', b) = At(memory, b)
  <2>1. NoneOpen(b)
    BY <1>1, <1>12, <1>13, NoneOpenWhileIdle
  <2>2. ~ (b[1] = s /\ b[2] \in covered)
    BY <1>10, <2>1, CoveredInOpen
  <2> QED
    BY <1>12, <1>13, <2>2
<1>14. Clean(i.ptr)' => i.data = At(memory, i.ptr)
  <2>1. i.ptr = a /\ i.data = At(memory', a)
    BY <1>7, <1>9, <1>12
  <2>2. ASSUME Clean(i.ptr)' PROVE Clean(a)'
    BY <2>1, <2>2
  <2> QED
    BY <1>7, <1>13, <2>1, <2>2
<1>15. Opens
  <2>1. single_items' = PushSingle(single_items, temp_items', tag, i)
    BY <1>1, <1>8 DEF GizmoStart
  <2>2. i.ptr[2] = Pushes[tag]
    BY <1>4, <1>7, <1>9
  <2> QED
    BY <1>1, <1>9, <1>12, <1>14, <2>1, <2>2, StartOpens
<1> QED
  BY <1>1, <1>5, <1>11, <1>13, <1>15, WritingStep

LEMMA GizmoDragStep ==
  ASSUME UInv, NEW v \in Decomposed, GizmoDrag(v)
  PROVE  UInv'
<1>1. /\ temp_items = <<>> /\ UNCHANGED <<undo_items, redo_items, temp_items, single_items, active>>
      /\ UNCHANGED <<where, selected, moves>>
      /\ DocOK /\ HistOK /\ ItemsOK /\ selected \in Alive /\ phase' \in Phases
      /\ active \in Widget \union {Idle}
  BY NotInPanel DEF GizmoDrag, undo, UInv, Typed, Phases
<1>2. PICK s : s = where[selected]
  OBVIOUS
<1>3. PICK fields : fields = Transformed(s, v)
  OBVIOUS
<1>4. s \in Slot /\ fields \in [Field -> Values] /\ \A f \in Bit : fields[f] \in {0, 1}
  BY <1>1, <1>2, <1>3, TransformedFacts
<1>5. PICK covered : covered = CoveredIn(s)
  OBVIOUS
<1>6. UserWrites(s, fields, covered)
  BY <1>2, <1>3, <1>5 DEF GizmoDrag
<1>7. \A b \in Address : Clean(b)' => Clean(b)
  BY <1>1, <1>4, <1>6, UserWritesFacts
<1>8. \A i : OpenItem(i)' <=> OpenItem(i)
  BY <1>1 DEF OpenItem
<1>9. Opens
  <2>1. ItemsOK'
    <3>1. temp_items' = <<>>
      BY <1>1
    <3> QED
      BY <1>1, <3>1 DEF ItemsOK
  <2>2. NoStray'
    <3>1. ASSUME NEW t \in Widget, single_items[t] # NoItem, Clean(single_items[t].ptr)'
          PROVE  t = active
      <4>1. OpenItem(single_items[t]) /\ single_items'[t] = single_items[t]
        BY <1>1, <3>1 DEF OpenItem
      <4>2. single_items[t].ptr \in Address
        BY <1>1, <4>1, OpenTyped
      <4>3. Clean(single_items[t].ptr)
        BY <1>7, <3>1, <4>1, <4>2
      <4> QED
        BY <3>1, <4>3 DEF UInv, NoStray
    <3> QED
      BY <1>1, <3>1 DEF NoStray
  <2> QED
    BY <1>1, <1>8, <2>1, <2>2 DEF Opens
<1>10. ASSUME NEW b \in Address, b[1] = s, b[2] \in covered PROVE ~ NoneOpen(b)'
  <2>1. ~ NoneOpen(b)
    BY <1>5, <1>10, CoveredInOpen
  <2> QED
    BY <1>8, <2>1 DEF NoneOpen
<1> QED
  BY <1>1, <1>4, <1>6, <1>9, <1>10, WritingStep

----------------------------------------------------------------------------
(* Commits of one widget *)

LEMMA ReleaseStep ==
  ASSUME UInv, temp_items = <<>>, NEW tag \in Widget, CommitSingle(single_items, tag),
         UNCHANGED <<doc, redo_items, touched>>, active' = Idle,
         Leak(Abandoned(single_items')), phase' \in Phases,
         temp_items' = <<>> \/ (phase' = "panel" /\ IsPushed(temp_items')),
         \A n \in DOMAIN temp_items' :
           /\ NoneOpen(temp_items'[n].ptr)
           /\ temp_items'[n].data = At(memory, temp_items'[n].ptr)
  PROVE  UInv'
<1>1. /\ UNCHANGED <<where, memory, selected, moves>> /\ redo_items' = redo_items
      /\ touched' = touched /\ DocOK /\ HistOK /\ ItemsOK
      /\ single_items \in GoodSingles /\ undo_items \in Seq(GoodItem)
      /\ memory \in Memory
  BY DEF doc, UInv, Typed, ItemsOK, DocOK
<1>2. /\ single_items' \in GoodSingles
      /\ \A t \in Widget : single_items'[t] = IF t = tag THEN NoItem ELSE single_items[t]
      /\ \E items \in Seq(GoodItem) :
           /\ items = IF single_items[tag] = NoItem THEN <<>> ELSE <<single_items[tag]>>
           /\ undo_items' = undo_items \o ChangedItems(items, memory)
  BY <1>1, CommittedSingle
<1>3. PICK items \in Seq(GoodItem) :
        /\ items = IF single_items[tag] = NoItem THEN <<>> ELSE <<single_items[tag]>>
        /\ undo_items' = undo_items \o ChangedItems(items, memory)
  BY <1>2
<1>4. PICK abandoned : abandoned = Abandoned(single_items')
  OBVIOUS
<1>5. /\ Keeps /\ status' \in [Cells -> Status] /\ latest' \in [Cells -> Values]
      /\ \A a \in Address : Clean(a)' => ~ (CellsAt(a) \subseteq abandoned)
  BY <1>1, <1>4, LeakKeeps
<1>6. undo_items' \in Seq(GoodItem)
  <2>1. GrownBy(undo_items', undo_items, items, memory)
    BY <1>1, <1>3, CommitGrows
  <2> QED
    BY <2>1 DEF GrownBy
<1>7. Typed'
  <2>1. ItemsOK'
    BY <1>1, <1>2, <1>6 DEF ItemsOK
  <2>2. DocOK' /\ HistOK'
    BY <1>1, <1>5 DEF DocOK, HistOK, OwnSlots, Alive
  <2> QED
    BY <2>1, <2>2 DEF Typed
<1>8. ASSUME NEW t \in Widget, single_items'[t] # NoItem
      PROVE  t # tag /\ single_items'[t] = single_items[t] /\ OpenItem(single_items[t])
  BY <1>2, <1>8 DEF OpenItem
<1>9. NoStray'
  <2>1. ASSUME NEW t \in Widget, single_items'[t] # NoItem, Clean(single_items[t].ptr)'
        PROVE  FALSE
    <3>1. PICK a : a = single_items[t].ptr
      OBVIOUS
    <3>2. a \in Address /\ single_items'[t].ptr = a
      BY <1>1, <1>8, <2>1, <3>1, OpenTyped
    <3>3. CellsAt(a)' = CellsAt(a)
      BY <1>1 DEF CellsAt
    <3>4. CellsAt(a) \subseteq abandoned
      BY <1>1, <1>4, <2>1, <3>2, <3>3 DEF Abandoned, Pending, CellsAt
    <3>5. Clean(a)'
      BY <2>1, <3>2
    <3> QED
      BY <1>5, <3>2, <3>4, <3>5
  <2> QED
    BY <2>1 DEF NoStray
<1>10. ASSUME NEW i, OpenItem(i)'
       PROVE  OpenItem(i) \/ (NoneOpen(i.ptr) /\ i.data = At(memory, i.ptr))
  <2>1. CASE \E t \in Widget : single_items'[t] # NoItem /\ single_items'[t] = i
    BY <1>8, <2>1
  <2>2. CASE \E n \in DOMAIN temp_items' : temp_items'[n] = i
    BY <2>2
  <2> QED
    BY <1>10, <2>1, <2>2 DEF OpenItem
<1>11. Restores'
  <2>1. \A m \in DOMAIN items : OpenItem(items[m])
    <3>1. CASE single_items[tag] = NoItem
      BY <1>3, <3>1
    <3>2. CASE single_items[tag] # NoItem
      BY <1>3, <3>2 DEF OpenItem
    <3> QED
      BY <3>1, <3>2
  <2>2. ASSUME NEW a \in Address, NoneOpen(a)'
        PROVE  NoneOpen(a) \/ \E m \in DOMAIN items : items[m].ptr = a
    <3>1. ASSUME NEW i, OpenItem(i), i.ptr = a
          PROVE  \E m \in DOMAIN items : items[m].ptr = a
      <4>1. PICK t \in Widget : single_items[t] # NoItem /\ single_items[t] = i
        BY <1>1, <3>1, SingleOpen
      <4>2. CASE t = tag
        <5>1. items = <<i>>
          BY <1>3, <4>1, <4>2
        <5>2. 1 \in DOMAIN items /\ items[1] = i
          BY <5>1
        <5> QED
          BY <3>1, <5>2
      <4>3. CASE t # tag
        BY <1>2, <2>2, <3>1, <4>1, <4>3 DEF NoneOpen, OpenItem
      <4> QED
        BY <4>2, <4>3
    <3> QED
      BY <3>1 DEF NoneOpen
  <2>3. ASSUME NEW a \in Address, Clean(a)'
        PROVE  /\ Clean(a)
               /\ \A i : OpenItem(i)' /\ i.ptr = a =>
                    OpenItem(i) \/ (NoneOpen(a) /\ i.data = At(memory, a))
               /\ NoneOpen(a)' =>
                    \/ NoneOpen(a) /\ At(memory', a) = At(memory, a)
                    \/ \E m \in DOMAIN items : items[m].ptr = a
    BY <1>5, <1>10, <2>2, <2>3, KeepsClean
  <2>4. memory' \in Memory /\ undo_items' = undo_items \o ChangedItems(items, memory')
    BY <1>1, <1>3
  <2> QED
    BY <1>1, <2>1, <2>3, <2>4, CommitSteps DEF UInv
<1>12. Accounted'
  <2>1. ASSUME NEW i, OpenItem(i)', At(memory, i.ptr) # i.data, Clean(i.ptr)'
        PROVE  i.ptr \in touched
    <3>1. OpenItem(i)
      BY <1>10, <2>1
    <3>2. i.ptr \in Address
      BY <1>1, <3>1, OpenTyped
    <3>3. Clean(i.ptr)
      BY <1>5, <2>1, <3>2, KeepsClean
    <3> QED
      BY <2>1, <3>1, <3>3 DEF UInv, Accounted
  <2> QED
    BY <1>1, <2>1 DEF Accounted
<1>13. Returns'
  BY <1>1, <1>5, KeepsReturns DEF UInv
<1> QED
  BY <1>7, <1>9, <1>11, <1>12, <1>13 DEF UInv

LEMMA GizmoReleaseStep ==
  ASSUME UInv, NEW tag \in Widget \intersect Gizmos, GizmoRelease(tag)
  PROVE  UInv'
<1>1. /\ temp_items = <<>> /\ temp_items' = <<>> /\ CommitSingle(single_items, tag)
      /\ active' = Idle /\ UNCHANGED <<doc, redo_items, touched>>
      /\ Leak(Abandoned(single_items')) /\ phase' \in Phases
  BY NotInPanel DEF GizmoRelease, Phases
<1> QED
  BY <1>1, ReleaseStep

LEMMA DeactivateStep ==
  ASSUME UInv, NEW tag \in Widget, Deactivate(tag)
  PROVE  UInv'
<1>1. /\ Shown /\ temp_items' = PushTemps /\ CommitSingle(single_items, tag)
      /\ active' = Idle /\ UNCHANGED <<doc, redo_items, touched>>
      /\ Leak(Abandoned(single_items')) /\ phase' \in Phases /\ phase' = "panel"
  BY DEF Deactivate, Phases
<1>2. /\ temp_items = <<>> /\ IsPushed(temp_items')
      /\ \A n \in DOMAIN temp_items' :
           /\ NoneOpen(temp_items'[n].ptr)
           /\ temp_items'[n].data = At(memory, temp_items'[n].ptr)
  BY <1>1, TempsStep
<1> QED
  BY <1>1, <1>2, ReleaseStep

\* A commit of an item with the bytes of the memory keeps nothing.
LEMMA NothingToCommit ==
  ASSUME NEW stack \in Seq(GoodItem), NEW items \in Seq(GoodItem), NEW mem \in Memory,
         \A m \in DOMAIN items : At(mem, items[m].ptr) = items[m].data
  PROVE  stack \o ChangedItems(items, mem) = stack
<1>1. PICK kept : kept = ChangedItems(items, mem)
  OBVIOUS
<1>2. kept \in Seq(GoodItem) /\ \A k \in DOMAIN kept : FALSE
  <2>1. /\ ChangedItems(items, mem) \in Seq(GoodItem)
        /\ \A k \in DOMAIN ChangedItems(items, mem) :
             \E m \in DOMAIN items : /\ items[m] = ChangedItems(items, mem)[k]
                                     /\ At(mem, items[m].ptr) # items[m].data
    BY ChangedFacts
  <2>2. kept \in Seq(GoodItem)
    BY <1>1, <2>1, Zenon
  <2>3. ASSUME NEW k \in DOMAIN kept PROVE FALSE
    <3>1. \E m \in DOMAIN items : At(mem, items[m].ptr) # items[m].data
      BY <1>1, <2>1, <2>3, Zenon
    <3> QED
      BY <3>1
  <2> QED
    BY <2>2, <2>3
<1>3. Len(kept) = 0
  <2>1. PICK l : l = Len(kept)
    OBVIOUS
  <2>2. l \in Nat /\ DOMAIN kept = 1..l
    BY <1>2, <2>1, LenProperties
  <2>3. ~(1 \in 1..l)
    BY <1>2, <2>2
  <2> QED
    BY <2>1, <2>2, <2>3
<1>4. kept = <<>>
  BY <1>2, <1>3, EmptySeq
<1> QED
  BY <1>1, <1>4, ConcatEmptySeq

\* The item of the edit that stops is overwritten before the commit.
LEMMA SwitchNumberFacts ==
  ASSUME UInv, NEW tag \in Widget, SwitchNumber(tag)
  PROVE  /\ single_items' \in GoodSingles /\ undo_items' = undo_items
         /\ \A t \in Widget : single_items'[t] = IF t = tag THEN NoItem ELSE single_items[t]
<1>1. /\ Shown /\ temp_items' = PushTemps /\ DocOK /\ ItemsOK /\ selected \in Alive
      /\ single_items \in GoodSingles /\ undo_items \in Seq(GoodItem) /\ memory \in Memory
      /\ CommitSingle(PushSingle(single_items, PushTemps, tag, Item(selected, Pushes[tag])), tag)
  BY DEF SwitchNumber, Shown, UInv, Typed, ItemsOK, DocOK
<1>2. PICK i : i = Item(selected, Pushes[tag])
  OBVIOUS
<1>3. PICK singles : singles = PushSingle(single_items, PushTemps, tag, i)
  OBVIOUS
<1>4. /\ i \in GoodItem /\ i.ptr = <<where[selected], Pushes[tag]>>
      /\ i.data = At(memory, i.ptr)
  BY <1>1, <1>2, ItemFacts, WidgetFields
<1>5. IsPushed(PushTemps)
  BY <1>1, TempsStep
<1>6. /\ singles \in GoodSingles /\ i # NoItem
      /\ \A t \in Widget : singles[t] = IF t = tag THEN i ELSE single_items[t]
  <2>1. i.ptr[2] = Pushes[tag]
    BY <1>4
  <2>2. PICK temps : temps = PushTemps
    OBVIOUS
  <2> QED
    BY <1>1, <1>3, <1>4, <1>5, <2>1, <2>2, PushedSingle
<1>7. CommitSingle(singles, tag)
  BY <1>1, <1>2, <1>3
<1>8. /\ single_items' \in GoodSingles
      /\ \A t \in Widget : single_items'[t] = IF t = tag THEN NoItem ELSE singles[t]
      /\ \E items \in Seq(GoodItem) :
           /\ items = IF singles[tag] = NoItem THEN <<>> ELSE <<singles[tag]>>
           /\ undo_items' = undo_items \o ChangedItems(items, memory)
  BY <1>1, <1>6, <1>7, CommittedSingle
<1>9. PICK items \in Seq(GoodItem) :
        /\ items = IF singles[tag] = NoItem THEN <<>> ELSE <<singles[tag]>>
        /\ undo_items' = undo_items \o ChangedItems(items, memory)
  BY <1>8
<1>10. items = <<i>>
  BY <1>6, <1>9
<1>11. \A m \in DOMAIN items : items[m] = i
  BY <1>10
<1>12. undo_items' = undo_items
  BY <1>1, <1>4, <1>9, <1>11, NothingToCommit
<1> QED
  BY <1>6, <1>8, <1>12

LEMMA SwitchNumberStep ==
  ASSUME UInv, NEW tag \in Widget, SwitchNumber(tag)
  PROVE  UInv'
<1>1. /\ Shown /\ temp_items' = PushTemps /\ phase' = "panel" /\ phase' \in Phases
      /\ UNCHANGED <<where, memory, selected, moves>> /\ redo_items' = redo_items
      /\ active' = active /\ touched' = touched /\ Leak(Abandoned(single_items))
      /\ DocOK /\ HistOK /\ ItemsOK /\ active \in Widget \union {Idle}
  BY DEF SwitchNumber, doc, UInv, Typed, Phases
<1>2. /\ single_items' \in GoodSingles /\ undo_items' = undo_items
      /\ \A t \in Widget : single_items'[t] = IF t = tag THEN NoItem ELSE single_items[t]
  BY SwitchNumberFacts
<1>3. /\ temp_items = <<>> /\ IsPushed(temp_items')
      /\ \A n \in DOMAIN temp_items' :
           /\ NoneOpen(temp_items'[n].ptr)
           /\ temp_items'[n].data = At(memory, temp_items'[n].ptr)
  BY <1>1, TempsStep
<1>4. PICK abandoned : abandoned = Abandoned(single_items)
  OBVIOUS
<1>5. /\ Keeps /\ status' \in [Cells -> Status] /\ latest' \in [Cells -> Values]
      /\ \A a \in Address : Clean(a)' => ~ (CellsAt(a) \subseteq abandoned)
  BY <1>1, <1>4, LeakKeeps
<1>6. Typed'
  <2>1. ItemsOK'
    BY <1>1, <1>2, <1>3 DEF ItemsOK
  <2>2. DocOK' /\ HistOK'
    BY <1>1, <1>5 DEF DocOK, HistOK, OwnSlots, Alive
  <2> QED
    BY <1>1, <2>1, <2>2 DEF Typed
\* The items that were open before are all abandoned.
<1>7. ASSUME NEW a \in Address, Clean(a)' PROVE NoneOpen(a)
  <2>1. ASSUME NEW i, OpenItem(i), i.ptr = a PROVE FALSE
    <3>1. PICK t \in Widget : single_items[t] # NoItem /\ single_items[t] = i
      BY <1>1, <1>3, <2>1, SingleOpen
    <3>2. CellsAt(a) \subseteq abandoned
      BY <1>4, <2>1, <3>1 DEF Abandoned, Pending
    <3> QED
      BY <1>5, <1>7, <3>2
  <2> QED
    BY <2>1 DEF NoneOpen
<1>8. ASSUME NEW i, OpenItem(i)'
      PROVE  OpenItem(i) \/ (NoneOpen(i.ptr) /\ i.data = At(memory, i.ptr))
  <2>1. CASE \E t \in Widget : single_items'[t] # NoItem /\ single_items'[t] = i
    BY <1>2, <2>1 DEF OpenItem
  <2>2. CASE \E n \in DOMAIN temp_items' : temp_items'[n] = i
    BY <1>3, <2>2
  <2> QED
    BY <1>8, <2>1, <2>2 DEF OpenItem
<1>9. NoStray'
  <2>1. ASSUME NEW t \in Widget, single_items'[t] # NoItem, Clean(single_items[t].ptr)'
        PROVE  FALSE
    <3>1. single_items'[t] = single_items[t]
      BY <1>2, <2>1
    <3>2. OpenItem(single_items[t])
      BY <2>1, <3>1 DEF OpenItem
    <3>3. PICK a : a = single_items[t].ptr
      OBVIOUS
    <3>4. a \in Address /\ Clean(a)'
      BY <1>1, <2>1, <3>1, <3>2, <3>3, OpenTyped
    <3> QED
      BY <1>7, <3>2, <3>3, <3>4 DEF NoneOpen
  <2> QED
    BY <2>1 DEF NoStray
<1>10. Restores'
  <2>1. ASSUME NEW a \in Address, Clean(a)'
        PROVE  /\ Clean(a)
               /\ \A i : OpenItem(i) /\ i.ptr = a => OpenItem(i)'
               /\ \A i : OpenItem(i)' /\ i.ptr = a =>
                    OpenItem(i) \/ (NoneOpen(a) /\ i.data = At(memory, a))
               /\ At(memory', a) # At(memory, a) => ~ NoneOpen(a)'
    <3>1. Clean(a) /\ At(memory', a) = At(memory, a)
      BY <1>5, <2>1, KeepsClean
    <3>2. \A i : OpenItem(i) /\ i.ptr = a => OpenItem(i)'
      BY <1>7, <2>1 DEF NoneOpen
    <3> QED
      BY <1>8, <3>1, <3>2
  <2> QED
    BY <1>2, <2>1, OpenSteps DEF UInv
<1>11. Accounted'
  <2>1. ASSUME NEW i, OpenItem(i)', At(memory, i.ptr) # i.data, Clean(i.ptr)'
        PROVE  i.ptr \in touched
    <3>1. OpenItem(i)
      BY <1>8, <2>1
    <3>2. i.ptr \in Address
      BY <1>1, <3>1, OpenTyped
    <3> QED
      BY <1>7, <2>1, <3>1, <3>2 DEF NoneOpen
  <2> QED
    BY <1>1, <2>1 DEF Accounted
<1>12. Returns'
  BY <1>1, <1>5, KeepsReturns DEF UInv
<1> QED
  BY <1>6, <1>9, <1>10, <1>11, <1>12 DEF UInv

----------------------------------------------------------------------------
(* The end of a frame *)

LEMMA CommitStep ==
  ASSUME UInv, Keeps, DocOK', FrameEnd, Commit(memory'),
         status' \in [Cells -> Status], latest' \in [Cells -> Values],
         UNCHANGED <<redo_items, single_items, active>>
  PROVE  UInv'
<1>1. /\ phase' \in Phases /\ touched' = {a \in touched : Covered(a)}
      /\ undo_items' = undo_items \o ChangedItems(Reverse(temp_items), memory')
      /\ temp_items' = <<>>
      /\ HistOK /\ ItemsOK /\ memory' \in Memory /\ undo_items \in Seq(GoodItem)
      /\ active \in Widget \union {Idle}
  BY DEF FrameEnd, Commit, Phases, UInv, Typed, ItemsOK, DocOK
<1>2. temp_items \in Seq(GoodItem)
  <2>1. <<>> \in Seq(GoodItem)
    OBVIOUS
  <2> QED
    BY <1>1, <2>1 DEF ItemsOK, IsPushed
<1>3. PICK items : items = Reverse(temp_items)
  OBVIOUS
<1>4. /\ items \in Seq(GoodItem)
      /\ \A m \in DOMAIN items : \E n \in DOMAIN temp_items : temp_items[n] = items[m]
      /\ \A n \in DOMAIN temp_items : \E m \in DOMAIN items : items[m] = temp_items[n]
  BY <1>2, <1>3, ReverseFacts
<1>5. undo_items' = undo_items \o ChangedItems(items, memory')
  BY <1>1, <1>3
<1>6. undo_items' \in Seq(GoodItem)
  <2>1. GrownBy(undo_items', undo_items, items, memory')
    BY <1>1, <1>4, <1>5, CommitGrows
  <2> QED
    BY <2>1 DEF GrownBy
<1>7. Typed'
  <2>1. ItemsOK'
    BY <1>1, <1>6 DEF ItemsOK
  <2>2. HistOK'
    BY <1>1 DEF HistOK
  <2> QED
    BY <1>1, <2>1, <2>2 DEF Typed
<1>8. ASSUME NEW i, OpenItem(i)' PROVE OpenItem(i) /\ Covered(i.ptr)
  BY <1>1, <1>8 DEF OpenItem, Covered, Pending
<1>9. NoStray'
  <2>1. ASSUME NEW t \in Widget, single_items[t] # NoItem, Clean(single_items[t].ptr)'
        PROVE  t = active
    <3>1. OpenItem(single_items[t]) /\ single_items'[t] = single_items[t]
      BY <2>1 DEF OpenItem
    <3>2. single_items[t].ptr \in Address
      BY <1>1, <3>1, OpenTyped
    <3>3. Clean(single_items[t].ptr)
      BY <2>1, <3>1, <3>2, KeepsClean
    <3> QED
      BY <2>1, <3>3 DEF UInv, NoStray
  <2> QED
    BY <2>1 DEF NoStray
<1>10. Restores'
  <2>1. \A m \in DOMAIN items : OpenItem(items[m])
    BY <1>4 DEF OpenItem
  <2>2. ASSUME NEW a \in Address, NoneOpen(a)'
        PROVE  NoneOpen(a) \/ \E m \in DOMAIN items : items[m].ptr = a
    <3>1. ASSUME NEW i, OpenItem(i), i.ptr = a
          PROVE  \E m \in DOMAIN items : items[m].ptr = a
      <4>1. CASE \E t \in Widget : single_items[t] # NoItem /\ single_items[t] = i
        BY <2>2, <3>1, <4>1 DEF NoneOpen, OpenItem
      <4>2. CASE \E n \in DOMAIN temp_items : temp_items[n] = i
        BY <1>4, <3>1, <4>2
      <4> QED
        BY <3>1, <4>1, <4>2 DEF OpenItem
    <3> QED
      BY <3>1 DEF NoneOpen
  <2>3. ASSUME NEW a \in Address, Clean(a)'
        PROVE  /\ Clean(a)
               /\ \A i : OpenItem(i)' /\ i.ptr = a =>
                    OpenItem(i) \/ (NoneOpen(a) /\ i.data = At(memory, a))
               /\ NoneOpen(a)' =>
                    \/ NoneOpen(a) /\ At(memory', a) = At(memory, a)
                    \/ \E m \in DOMAIN items : items[m].ptr = a
    BY <1>8, <2>2, <2>3, KeepsClean
  <2> QED
    BY <1>1, <1>4, <1>5, <2>1, <2>3, CommitSteps DEF UInv
<1>11. Accounted'
  <2>1. ASSUME NEW i, OpenItem(i)', At(memory', i.ptr) # i.data, Clean(i.ptr)'
        PROVE  i.ptr \in touched'
    <3>1. OpenItem(i) /\ Covered(i.ptr)
      BY <1>8, <2>1
    <3>2. i.ptr \in Address
      BY <1>1, <3>1, OpenTyped
    <3>3. Clean(i.ptr) /\ At(memory', i.ptr) = At(memory, i.ptr)
      BY <2>1, <3>2, KeepsClean
    <3> QED
      BY <1>1, <2>1, <3>1, <3>3 DEF UInv, Accounted
  <2> QED
    BY <2>1 DEF Accounted
<1>12. Returns'
  BY KeepsReturns DEF UInv
<1> QED
  BY <1>7, <1>9, <1>10, <1>11, <1>12 DEF UInv

\* What the three actions at the end of a frame leave of the clean addresses.
LEMMA FrameEndKeeps ==
  ASSUME UInv, NoClick \/ CreateEntity \/ DestroyRow \/ \E e \in Alive : ClickRow(e)
  PROVE  /\ FrameEnd /\ Commit(memory') /\ UNCHANGED <<redo_items, single_items, active>>
         /\ Keeps /\ DocOK' /\ status' \in [Cells -> Status] /\ latest' \in [Cells -> Values]
<1>1. DocOK /\ HistOK
  BY DEF UInv, Typed
<1>2. CASE NoClick
  <2>1. /\ UNCHANGED <<where, memory, selected, moves>> /\ UNCHANGED <<status, latest>>
        /\ FrameEnd /\ Commit(memory) /\ UNCHANGED <<redo_items, single_items, active>>
    BY <1>2 DEF NoClick, doc
  <2>2. Keeps /\ DocOK'
    BY <1>1, <2>1, NothingChanged DEF DocOK, OwnSlots, Alive
  <2> QED
    BY <1>1, <2>1, <2>2 DEF HistOK
<1>3. ASSUME NEW e \in Alive, ClickRow(e)
      PROVE  /\ FrameEnd /\ Commit(memory') /\ UNCHANGED <<redo_items, single_items, active>>
             /\ Keeps /\ DocOK' /\ status' \in [Cells -> Status] /\ latest' \in [Cells -> Values]
  BY <1>1, <1>3, SelectKeeps DEF ClickRow
<1>4. ASSUME NEW alive \in SUBSET Entity, NEW new, new \notin Alive,
             alive \subseteq Alive \union {new}, ChangeMap(alive, new)
      PROVE  /\ FrameEnd /\ Commit(memory') /\ UNCHANGED <<redo_items, single_items, active>>
             /\ Keeps /\ DocOK' /\ status' \in [Cells -> Status] /\ latest' \in [Cells -> Values]
  <2>1. PICK w \in Places(alive) :
          /\ where' = w /\ memory' = Moved(w, new, NewFields)
          /\ Commit(memory') /\ Leak(CellsMoved(w))
    BY <1>4 DEF ChangeMap
  <2>2. /\ FrameEnd /\ moves < MaxMoves /\ moves' = moves + 1 /\ selected' = selected
        /\ UNCHANGED <<redo_items, single_items, active>>
    BY <1>4 DEF ChangeMap
  <2>3. Keeps /\ DocOK' /\ status' \in [Cells -> Status] /\ latest' \in [Cells -> Values]
    BY <1>1, <1>4, <2>1, <2>2, MapStep
  <2> QED
    BY <2>1, <2>2, <2>3
<1>5. CASE CreateEntity
  <2>1. PICK new \in Entity \ Alive : ChangeMap(Alive \union {new}, new)
    BY <1>5 DEF CreateEntity
  <2>2. Alive \union {new} \in SUBSET Entity
    BY DEF Alive
  <2> QED
    BY <1>4, <2>1, <2>2
<1>6. CASE DestroyRow
  <2>1. PICK e \in Alive : ChangeMap(Alive \ {e}, Nobody)
    BY <1>6 DEF DestroyRow
  <2>2. Alive \ {e} \in SUBSET Entity /\ Nobody \notin Alive
    BY UndoAssumption DEF Alive
  <2> QED
    BY <1>4, <2>1, <2>2
<1> QED
  BY <1>2, <1>3, <1>5, <1>6

----------------------------------------------------------------------------
(* The invariant *)

LEMMA Beginning ==
  ASSUME Init
  PROVE  UInv
<1>1. PICK e \in Entity, s \in Slot : where = [d \in Entity |-> IF d = e THEN s ELSE Gone]
  BY DEF Init
<1>2. Alive = {e} /\ where \in [Entity -> Slot \union {Gone}]
  BY <1>1, UndoAssumption DEF Alive
<1>3. /\ phase = "events" /\ memory = [t \in Slot |-> NewFields]
      /\ selected = Nobody /\ moves = 0 /\ active = Idle /\ touched = {}
      /\ undo_items = <<>> /\ redo_items = <<>> /\ temp_items = <<>>
      /\ single_items = [t \in Widget |-> NoItem]
      /\ status = [c \in Cells |-> "kept"] /\ latest = [c \in Cells |-> NewFields[c[2]]]
  BY DEF Init
<1>4. DocOK
  <2>1. memory \in Memory /\ \A t \in Slot, f \in Bit : memory[t][f] \in {0, 1}
    BY <1>3, NewFieldsFacts, BitsAreFields DEF Memory
  <2>2. moves \in 0..MaxMoves
    BY <1>3, UndoAssumption
  <2> QED
    BY <1>2, <1>3, <2>1, <2>2 DEF DocOK, OwnSlots
<1>5. HistOK
  BY <1>3, NewFieldsFacts DEF HistOK, Status, Cells
<1>6. ItemsOK
  <2>1. <<>> \in Seq(GoodItem)
    OBVIOUS
  <2>2. single_items \in GoodSingles
    BY <1>3 DEF GoodSingles
  <2> QED
    BY <1>3, <2>1, <2>2 DEF ItemsOK
<1>7. Typed
  BY <1>3, <1>4, <1>5, <1>6 DEF Typed, Phases
<1>8. \A i : ~ OpenItem(i)
  BY <1>3 DEF OpenItem
<1>9. NoStray /\ Accounted
  BY <1>3, <1>8 DEF NoStray, Accounted
<1>10. \A a \in Address : At(memory, a) = NewFields[a[2]]
  BY <1>3, AddressParts DEF At
<1>11. \A a \in Address : ~ Has(undo_items, a) /\ ~ Has(redo_items, a)
  BY <1>3 DEF Has
<1>12. Restores
  BY <1>8, <1>10, <1>11 DEF Restores
<1>13. Returns
  <2>1. \A a \in Address : \A c \in CellsAt(a) : latest[c] = NewFields[a[2]]
    BY <1>3 DEF CellsAt
  <2> QED
    BY <1>10, <1>11, <2>1 DEF Returns
<1> QED
  BY <1>7, <1>9, <1>12, <1>13 DEF UInv

LEMMA Standstill ==
  ASSUME UInv, UNCHANGED vars
  PROVE  UInv'
<1>1. /\ phase' = phase /\ where' = where /\ memory' = memory /\ selected' = selected
      /\ moves' = moves /\ undo_items' = undo_items /\ redo_items' = redo_items
      /\ temp_items' = temp_items /\ single_items' = single_items /\ active' = active
      /\ status' = status /\ latest' = latest /\ touched' = touched
  BY DEF vars, doc, undo, hist
<1>2. Typed'
  BY <1>1 DEF UInv, Typed, DocOK, HistOK, ItemsOK, OwnSlots, Alive
<1>3. \A i : OpenItem(i)' <=> OpenItem(i)
  BY <1>1 DEF OpenItem
<1>4. \A a : Clean(a)' <=> Clean(a)
  BY <1>1 DEF Clean, CellsAt
<1>5. NoStray'
  <2>1. ASSUME NEW t \in Widget, single_items[t] # NoItem, Clean(single_items[t].ptr)'
        PROVE  t = active
    <3>1. PICK a : a = single_items[t].ptr
      OBVIOUS
    <3>2. Clean(a)'
      BY <1>1, <2>1, <3>1
    <3>3. Clean(a)
      BY <1>4, <3>2
    <3> QED
      BY <2>1, <3>1, <3>3 DEF UInv, NoStray
  <2> QED
    BY <1>1, <2>1 DEF NoStray
<1>6. Restores'
  BY <1>1, <1>3, <1>4 DEF UInv, Restores
<1>7. Accounted'
  BY <1>1, <1>3, <1>4 DEF UInv, Accounted
<1>8. Returns'
  BY <1>1 DEF UInv, Returns, CellsAt
<1> QED
  BY <1>2, <1>5, <1>6, <1>7, <1>8 DEF UInv

\* UInv is an inductive invariant: one step per action of an event, of the gizmo, of
\* Properties and of the end of the frame.
THEOREM UndoInvariance == Spec => []UInv
<1>1. Init => UInv
  BY Beginning
<1>2. UInv /\ [Next]_vars => UInv'
  <2> SUFFICES ASSUME UInv, [Next]_vars PROVE UInv'
    OBVIOUS
  <2>1. CASE UndoKey
    BY <2>1, UndoKeyStep
  <2>2. CASE RedoKey
    BY <2>2, RedoKeyStep
  <2>3. CASE DeleteKey
    BY <2>3, DeleteKeyStep
  <2>4. CASE DuplicateKey
    BY <2>4, DuplicateKeyStep
  <2>5. CASE NoEvent
    BY <2>5, NoEventStep
  <2>6. CASE \E e \in Alive \union {Nobody} : ClickViewport(e)
    BY <2>6, ClickViewportStep
  <2>7. ASSUME NEW tag \in Widget \intersect Gizmos, GizmoRelease(tag) PROVE UInv'
    BY <2>7, GizmoReleaseStep
  <2>8. ASSUME NEW tag \in Widget \intersect Gizmos, NEW v \in Decomposed, GizmoStart(tag, v)
        PROVE  UInv'
    BY <2>8, GizmoStartStep
  <2>9. ASSUME NEW v \in Decomposed, GizmoDrag(v) PROVE UInv'
    BY <2>9, GizmoDragStep
  <2>10. CASE NoProperties
    BY <2>10, NoPropertiesStep
  <2>11. CASE ShowProperties
    BY <2>11, ShowPropertiesStep
  <2>12. CASE ToggleEnabled
    BY <2>12, ToggleEnabledStep
  <2>13. ASSUME NEW tag \in Widget \ Gizmos, Activate(tag) PROVE UInv'
    BY <2>13, ActivateStep
  <2>14. ASSUME NEW tag \in Widget \ Gizmos, Deactivate(tag) PROVE UInv'
    BY <2>14, DeactivateStep
  <2>15. ASSUME NEW tag \in Widget \ Gizmos, SwitchNumber(tag) PROVE UInv'
    BY <2>15, SwitchNumberStep
  <2>16. ASSUME NEW tag \in Widget \ Gizmos, NEW v \in Values, Drag(tag, v) PROVE UInv'
    BY <2>16, DragStep
  <2>17. CASE NoClick \/ CreateEntity \/ DestroyRow \/ \E e \in Alive : ClickRow(e)
    BY <2>17, FrameEndKeeps, CommitStep
  <2>18. CASE UNCHANGED vars
    BY <2>18, Standstill
  <2> QED
    BY <2>1, <2>2, <2>3, <2>4, <2>5, <2>6, <2>7, <2>8, <2>9, <2>10, <2>11, <2>12,
       <2>13, <2>14, <2>15, <2>16, <2>17, <2>18, Zenon DEF Next
<1> QED
  BY <1>1, <1>2, PTL DEF Spec

\* Every variable keeps its type, and no temporary item of Properties outlives its frame.
THEOREM UndoTypeCorrect == Spec => []UndoTypeOK
<1>1. UInv => UndoTypeOK
  BY TypedParts DEF UInv
<1> QED
  BY <1>1, UndoInvariance, PTL

----------------------------------------------------------------------------
(* Undoing and redoing everything *)

LEMMA HasIt ==
  ASSUME NEW items, NEW a
  PROVE  Has(items, a) <=> \E i \in ToSet(items) : i.ptr = a
BY DEF Has, ToSet

\* A walk back over the items ends with the first one at the address.
LEMMA ReachedFacts ==
  ASSUME NEW items \in Seq(GoodItem), NEW c, NEW a, a = <<where[c[1]], c[2]>>
  PROVE  /\ ~ Has(items, a) => Reached(c, items) = At(memory, a)
         /\ \A d : FirstIs(items, a, d) => Reached(c, items) = d
<1> DEFINE own == {n \in DOMAIN items : items[n].ptr = a}
<1>1. Reached(c, items) = IF own = {} THEN memory[a[1]][a[2]] ELSE items[Min(own)].data
  BY DEF Reached
<1>2. ASSUME ~ Has(items, a) PROVE Reached(c, items) = At(memory, a)
  BY <1>1, <1>2 DEF Has, At
<1>3. ASSUME NEW d, FirstIs(items, a, d) PROVE Reached(c, items) = d
  <2>1. PICK n \in DOMAIN items :
          /\ items[n].ptr = a /\ items[n].data = d
          /\ \A m \in DOMAIN items : items[m].ptr = a => n <= m
    BY <1>3 DEF FirstIs
  <2>2. /\ n \in own /\ \A m \in own : n <= m
    BY <2>1
  <2>3. \A m \in own : m \in Nat
    BY LenProperties
  <2> HIDE DEF own
  <2>4. Min(own) \in own /\ \A m \in own : Min(own) <= m
    BY <2>2 DEF Min
  <2>5. Min(own) = n
    BY <2>2, <2>3, <2>4
  <2> QED
    BY <1>1, <2>1, <2>2, <2>5
<1> QED
  BY <1>2, <1>3

LEMMA CleanCell ==
  ASSUME DocOK, NEW c \in Cells, c[1] \in Alive
  PROVE  /\ <<where[c[1]], c[2]>> \in Address /\ c \in CellsAt(<<where[c[1]], c[2]>>)
         /\ status[c] # "leaked" => Clean(<<where[c[1]], c[2]>>)
<1>1. c[2] \in Field
  BY DEF Cells
<1> QED
  BY <1>1, AddressOf DEF CellsAt, Clean

LEMMA RestoresAll ==
  ASSUME UInv
  PROVE  UndoAllRestores
<1>1. DocOK /\ ItemsOK /\ undo_items \in Seq(GoodItem)
  BY DEF UInv, Typed, ItemsOK
<1> SUFFICES ASSUME NEW c \in Cells, c[1] \in Alive, status[c] # "leaked"
             PROVE  IF \E i \in ToSet(undo_items) : i.ptr = <<where[c[1]], c[2]>>
                    THEN Reached(c, undo_items) = NewFields[c[2]]
                    ELSE NewFields[c[2]] \in IF Open(c) # {} THEN {i.data : i \in Open(c)}
                                             ELSE {memory[where[c[1]]][c[2]]}
  BY DEF UndoAllRestores
<1>2. PICK a : a = <<where[c[1]], c[2]>>
  OBVIOUS
<1>3. a \in Address /\ Clean(a) /\ a[2] = c[2] /\ a[1] = where[c[1]]
  BY <1>1, <1>2, CleanCell
<1>4. CASE Has(undo_items, a)
  <2>1. FirstIs(undo_items, a, NewFields[a[2]])
    BY <1>3, <1>4 DEF UInv, Restores
  <2>2. Reached(c, undo_items) = NewFields[a[2]]
    BY <1>1, <1>2, <2>1, ReachedFacts
  <2> QED
    BY <1>2, <1>3, <1>4, <2>2, HasIt
<1>5. CASE ~ Has(undo_items, a)
  <2>1. /\ \A i : OpenItem(i) /\ i.ptr = a => i.data = NewFields[a[2]]
        /\ (\A i : OpenItem(i) => i.ptr # a) => At(memory, a) = NewFields[a[2]]
    BY <1>3, <1>5 DEF UInv, Restores
  <2>2. \A i : i \in Open(c) <=> OpenItem(i) /\ i.ptr = a
    BY <1>2 DEF Open, OpenItem, Pending, ToSet
  <2>3. NewFields[c[2]] \in IF Open(c) # {} THEN {i.data : i \in Open(c)}
                            ELSE {memory[where[c[1]]][c[2]]}
    <3>1. CASE Open(c) # {}
      BY <1>3, <2>1, <2>2, <3>1
    <3>2. CASE Open(c) = {}
      BY <1>3, <2>1, <2>2, <3>2 DEF At
    <3> QED
      BY <3>1, <3>2
  <2> QED
    BY <1>2, <1>5, <2>3, HasIt
<1> QED
  BY <1>4, <1>5

LEMMA ReturnsAll ==
  ASSUME UInv
  PROVE  RedoAllReturns
<1>1. DocOK /\ redo_items \in Seq(GoodItem)
  BY DEF UInv, Typed, ItemsOK
<1> SUFFICES ASSUME NEW c \in Cells, c[1] \in Alive, status[c] = "kept"
             PROVE  Reached(c, redo_items) = latest[c]
  BY DEF RedoAllReturns
<1>2. PICK a : a = <<where[c[1]], c[2]>>
  OBVIOUS
<1>3. a \in Address /\ c \in CellsAt(a)
  BY <1>1, <1>2, CleanCell
<1>4. /\ Has(redo_items, a) => FirstIs(redo_items, a, latest[c])
      /\ ~ Has(redo_items, a) => At(memory, a) = latest[c]
  BY <1>3 DEF UInv, Returns
<1> QED
  BY <1>1, <1>2, <1>4, ReachedFacts

\* Undoing everything leads back to the values of the beginning.
THEOREM UndoRestores == Spec => []UndoAllRestores
BY RestoresAll, UndoInvariance, PTL

\* Redoing everything leads to the last edits, of every field that was not edited
\* while a redo for it was waiting.
THEOREM RedoReturns == Spec => []RedoAllReturns
BY ReturnsAll, UndoInvariance, PTL

----------------------------------------------------------------------------
(* What the commits keep *)

\* What a step may append to undo_items.
Explained ==
  \A i \in ToSet(Committed) :
    i.ptr \in touched \/ \A c \in CellsAt(i.ptr) : status'[c] = "leaked"

LEMMA NothingCommitted ==
  ASSUME UInv, undo_items' = undo_items
  PROVE  Explained
<1>1. undo_items \in Seq(GoodItem) /\ Len(undo_items) \in Nat
  BY LenProperties DEF UInv, Typed, ItemsOK
<1>2. PICK added : added = SubSeq(undo_items, Len(undo_items) + 1, Len(undo_items))
  OBVIOUS
<1>3. added \in Seq(GoodItem) /\ Len(added) = 0
  <2>1. Len(undo_items) = Len(undo_items) + 0
    BY <1>1
  <2> QED
    BY <1>1, <1>2, <2>1, EndOfSequence
<1>4. added = <<>>
  BY <1>3, EmptySeq
<1>5. Committed = <<>>
  BY <1>2, <1>4 DEF Committed
<1> QED
  BY <1>5 DEF Explained, ToSet

\* Open items are committed because a widget wrote at their address, or something
\* changed the bytes past them.
LEMMA CommitExplained ==
  ASSUME UInv, Keeps, memory' \in Memory,
         NEW items \in Seq(GoodItem), \A m \in DOMAIN items : OpenItem(items[m]),
         undo_items' = undo_items \o ChangedItems(items, memory')
  PROVE  Explained
<1>1. undo_items \in Seq(GoodItem) /\ ItemsOK
  BY DEF UInv, Typed, ItemsOK
<1>2. ASSUME NEW i \in ToSet(Committed), NEW c \in CellsAt(i.ptr), status'[c] # "leaked"
      PROVE  i.ptr \in touched
  <2>1. \E m \in DOMAIN items : items[m] = i /\ At(memory', i.ptr) # i.data
    <3>1. PICK mem : mem = memory'
      OBVIOUS
    <3>2. PICK grown : grown = undo_items'
      OBVIOUS
    <3>3. mem \in Memory /\ grown = undo_items \o ChangedItems(items, mem)
      BY <3>1, <3>2
    <3>4. AddedTo(grown, undo_items, items, mem)
      BY <1>1, <3>3, AddedByCommit
    <3>5. i \in ToSet(SubSeq(grown, Len(undo_items) + 1, Len(grown)))
      BY <1>2, <3>2 DEF Committed
    <3> QED
      BY <3>1, <3>4, <3>5 DEF AddedTo
  <2>2. OpenItem(i) /\ At(memory', i.ptr) # i.data
    BY <2>1
  <2>3. i.ptr \in Address
    BY <1>1, <2>2, OpenTyped
  <2>4. status[c] # "leaked" /\ At(memory', i.ptr) = At(memory, i.ptr)
    BY <1>2, <2>3 DEF Keeps
  <2>5. Clean(i.ptr)
    BY <2>4 DEF Clean
  <2> QED
    BY <2>2, <2>4, <2>5 DEF UInv, Accounted
<1> QED
  BY <1>2 DEF Explained

LEMMA ReleaseExplained ==
  ASSUME UInv, NEW tag \in Widget, CommitSingle(single_items, tag),
         UNCHANGED doc, Leak(Abandoned(single_items'))
  PROVE  Explained
<1>1. /\ where' = where /\ memory' = memory /\ memory \in Memory
      /\ HistOK /\ ItemsOK /\ single_items \in GoodSingles
  BY DEF doc, UInv, Typed, ItemsOK, DocOK
<1>2. PICK items \in Seq(GoodItem) :
        /\ items = IF single_items[tag] = NoItem THEN <<>> ELSE <<single_items[tag]>>
        /\ undo_items' = undo_items \o ChangedItems(items, memory)
  BY <1>1, CommittedSingle
<1>3. PICK abandoned : abandoned = Abandoned(single_items')
  OBVIOUS
<1>4. Keeps
  BY <1>1, <1>3, LeakKeeps
<1>5. \A m \in DOMAIN items : OpenItem(items[m])
  <2>1. CASE single_items[tag] = NoItem
    BY <1>2, <2>1
  <2>2. CASE single_items[tag] # NoItem
    BY <1>2, <2>2 DEF OpenItem
  <2> QED
    BY <2>1, <2>2
<1> QED
  BY <1>1, <1>2, <1>4, <1>5, CommitExplained

LEMMA FrameEndExplained ==
  ASSUME UInv, Keeps, DocOK', Commit(memory')
  PROVE  Explained
<1>1. temp_items \in Seq(GoodItem)
  <2>1. <<>> \in Seq(GoodItem)
    OBVIOUS
  <2> QED
    BY <2>1 DEF UInv, Typed, ItemsOK, IsPushed
<1>2. PICK items : items = Reverse(temp_items)
  OBVIOUS
<1>3. /\ items \in Seq(GoodItem)
      /\ \A m \in DOMAIN items : \E n \in DOMAIN temp_items : temp_items[n] = items[m]
  BY <1>1, <1>2, ReverseFacts
<1>4. undo_items' = undo_items \o ChangedItems(items, memory')
  BY <1>2 DEF Commit
<1>5. \A m \in DOMAIN items : OpenItem(items[m])
  BY <1>3 DEF OpenItem
<1>6. memory' \in Memory
  BY DEF DocOK
<1> QED
  BY <1>3, <1>4, <1>5, <1>6, CommitExplained

\* The commits keep only what a widget has changed, or what was changed past the items.
THEOREM CommitsAreExplained == Spec => CommitsRecordEdits
<1>1. UInv /\ [Next]_vars => [redo_items' = redo_items => Explained]_vars
  <2> SUFFICES ASSUME UInv, Next, redo_items' = redo_items PROVE Explained
    OBVIOUS
  <2>1. redo_items \in Seq(GoodItem)
    BY DEF UInv, Typed, ItemsOK
  <2>2. ~ UndoKey
    <3>1. \A i : Append(redo_items, i) # redo_items
      <4>1. \A i : Len(Append(redo_items, i)) = Len(redo_items) + 1 /\ Len(redo_items) \in Nat
        BY <2>1, LenProperties
      <4> QED
        BY <4>1
    <3> QED
      BY <3>1 DEF UndoKey, MoveItem
  <2>3. ~ RedoKey
    BY <2>1, FrontAndLast DEF RedoKey, MoveItem
  <2>4. ASSUME undo_items' = undo_items PROVE Explained
    BY <2>4, NothingCommitted
  <2>5. CASE DeleteKey \/ DuplicateKey \/ NoEvent \/ NoProperties \/ ShowProperties
             \/ ToggleEnabled \/ \E e \in Alive \union {Nobody} : ClickViewport(e)
    BY <2>4, <2>5 DEF DeleteKey, DuplicateKey, NoEvent, NoProperties, ShowProperties,
                      ToggleEnabled, ClickViewport, undo
  <2>6. ASSUME NEW tag \in Widget \intersect Gizmos, NEW v \in Decomposed,
               GizmoStart(tag, v) \/ GizmoDrag(v)
        PROVE  Explained
    BY <2>4, <2>6 DEF GizmoStart, GizmoDrag, undo
  <2>7. ASSUME NEW tag \in Widget \ Gizmos,
               Activate(tag) \/ \E v \in Values : Drag(tag, v)
        PROVE  Explained
    BY <2>4, <2>7 DEF Activate, Drag
  <2>8. ASSUME NEW tag \in Widget \intersect Gizmos, GizmoRelease(tag) PROVE Explained
    BY <2>8, ReleaseExplained DEF GizmoRelease
  <2>9. ASSUME NEW tag \in Widget \ Gizmos, Deactivate(tag) PROVE Explained
    BY <2>9, ReleaseExplained DEF Deactivate
  <2>10. ASSUME NEW tag \in Widget \ Gizmos, SwitchNumber(tag) PROVE Explained
    BY <2>4, <2>10, SwitchNumberFacts
  <2>11. CASE NoClick \/ CreateEntity \/ DestroyRow \/ \E e \in Alive : ClickRow(e)
    BY <2>11, FrameEndKeeps, FrameEndExplained
  <2> QED
    BY <2>2, <2>3, <2>5, <2>6, <2>7, <2>8, <2>9, <2>10, <2>11, Zenon DEF Next
<1> QED
  BY <1>1, UndoInvariance, PTL DEF Spec, CommitsRecordEdits, Explained
=============================================================================
