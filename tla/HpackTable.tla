----------------------------- MODULE HpackTable -----------------------------
(* The encoder's dynamic table, hpack/table.rs: the entries, newest first,   *)
(* and over them an open-addressing index from a name's hash to the oldest   *)
(* entry of that name, the entries of one name being chained from old to     *)
(* new.  An entry's position is the wrapped number of entries inserted       *)
(* before it, negated, so that insertions do not move it.                    *)
(*                                                                           *)
(* Scaled down: the static table has three entries, the index starts with    *)
(* FirstCap places instead of 8, a usize has Wrap values, and the length of  *)
(* a header is 1, or 2 for a long value.                                     *)
EXTENDS Integers, Sequences, FiniteSets, FiniteSetsExt, SequencesExt

CONSTANTS
  FirstCap,  \* places of the first index; fewer than 4 would be filled
  Wrap,      \* a position is a number modulo Wrap
  HashOf     \* the hash of a name

ASSUME TableAssumption == FirstCap \in Nat /\ FirstCap >= 4 /\ Wrap \in Nat \ {0}

Static == << [name |-> ":method", value |-> "GET"],
             [name |-> ":path", value |-> "/"],
             [name |-> "vary", value |-> ""] >>

DynOffset == Len(Static) + 1

Header(n, v) == [name |-> n, value |-> v]

\* Pseudo header fields are no Field{..}: only fields share a name in a row.
IsField(h) == h.name \notin {":method", ":path"}
IsSensitive(h) == h.value = "secret"
SkipValueIndex(h) == h.name = ":path"
HeaderLen(h) == IF h.value = "long" THEN 2 ELSE 1

\* The place in the static table, and whether the value is there as well;
\* 0 is None.  A field's value is never compared but for one name.
IndexStatic(h) ==
  LET named == {i \in DOMAIN Static : Static[i].name = h.name}
  IN  IF named = {} THEN [at |-> 0, full |-> FALSE]
      ELSE LET i == CHOOSE j \in named : TRUE
           IN  [at |-> i, full |-> ~IsField(h) /\ Static[i].value = h.value]

-----------------------------------------------------------------------------
(* The state of a table.                                                     *)

Vacant == [index |-> -1, hash |-> -1]
NoNext == -1

NewTable(max) ==
  [indices |-> <<>>, slots |-> <<>>, inserted |-> 0, size |-> 0, max |-> max]

Cap(t) == Len(t.indices)
Wrapped(n) == n % Wrap
Usable(cap) == cap - cap \div 4

\* Places are counted from 0, TLA+ sequences from 1.
Place(t, p) == t.indices[(p % Cap(t)) + 1]
PutPlace(t, p, pos) == [t EXCEPT !.indices[(p % Cap(t)) + 1] = pos]
Slot(t, real) == t.slots[real + 1]
RealIndex(t, index) == Wrapped(index + t.inserted)

DesiredPos(t, hash) == hash % Cap(t)
ProbeDistance(t, hash, p) == (p - DesiredPos(t, hash)) % Cap(t)

\* The last of 0 .. n up to which P holds at every step.
Steps(n, P(_)) == Max({k \in 0 .. n : \A j \in 1 .. k : P(j)})

-----------------------------------------------------------------------------
(* Eviction.                                                                 *)

\* Entries behind a removed one move back until one is where it wants to be.
RemovePhaseTwo(t, p) ==
  LET k == Steps(Cap(t) - 1, LAMBDA j :
                   /\ Place(t, p + j) # Vacant
                   /\ ProbeDistance(t, Place(t, p + j).hash, p + j) > 0)
      moved == FoldLeft(LAMBDA u, j : PutPlace(u, p + j - 1, Place(t, p + j)), t,
                        [j \in 1 .. k |-> j])
  IN  PutPlace(moved, p + k, Vacant)

\* The places probed for an entry that is in the index, up to its own.
ProbeFor(t, hash, index) ==
  DesiredPos(t, hash) +
    Min({d \in 0 .. Cap(t) - 1 : Place(t, DesiredPos(t, hash) + d).index = index})

\* The oldest entry goes.  prevIdx is the last entry of the name that is being
\* inserted: when nothing else of that name is left, its place is kept for
\* the entry to come.
Evict(t, prevIdx) ==
  LET index == Wrapped(Len(t.slots) - 1 - t.inserted)
      slot == Last(t.slots)
      p == ProbeFor(t, slot.hash, index)
      u == [t EXCEPT !.slots = Front(@), !.size = @ - HeaderLen(slot.header)]
  IN  IF slot.next # NoNext
      THEN PutPlace(u, p, [Place(t, p) EXCEPT !.index = slot.next])
      ELSE IF index = prevIdx
      THEN PutPlace(u, p, [Place(t, p) EXCEPT !.index = Wrapped(-(t.inserted + 1))])
      ELSE RemovePhaseTwo(u, p)

Converge(t, prevIdx) ==
  FoldLeft(LAMBDA u, s : IF u.size > u.max THEN Evict(u, prevIdx) ELSE u, t, t.slots)

UpdateSize(t, len, prevIdx) == Converge([t EXCEPT !.size = @ + len], prevIdx)

Resize(t, size) ==
  IF size = 0
  THEN [t EXCEPT !.max = 0, !.size = 0, !.slots = <<>>, !.inserted = 0,
                 !.indices = [i \in DOMAIN @ |-> Vacant]]
  ELSE Converge([t EXCEPT !.max = size], NoNext)

-----------------------------------------------------------------------------
(* Growth.                                                                   *)

ReinsertInOrder(t, pos) ==
  IF pos = Vacant THEN t
  ELSE LET d == Min({k \in 0 .. Cap(t) - 1 : Place(t, DesiredPos(t, pos.hash) + k) = Vacant})
       IN  PutPlace(t, DesiredPos(t, pos.hash) + d, pos)

Empty(cap) == [i \in 1 .. cap |-> Vacant]

\* Reinsertion starts at the first entry that is where it wants to be, which
\* keeps the order of the others.
Grow(t, cap) ==
  LET ideal == {i \in 0 .. Cap(t) - 1 :
                  Place(t, i) # Vacant /\ ProbeDistance(t, Place(t, i).hash, i) = 0}
      first == IF ideal = {} THEN 0 ELSE Min(ideal)
      order == SubSeq(t.indices, first + 1, Cap(t)) \o SubSeq(t.indices, 1, first)
  IN  FoldLeft(ReinsertInOrder, [t EXCEPT !.indices = Empty(cap)], order)

ReserveOne(t) ==
  IF Len(t.slots) # Usable(Cap(t)) THEN t
  ELSE IF Len(t.slots) = 0 THEN [t EXCEPT !.indices = Empty(FirstCap)]
  ELSE Grow(t, 2 * Cap(t))

-----------------------------------------------------------------------------
(* Finding or adding a header.  The answer is the Index the encoder writes,  *)
(* `at` being the index of the name or of the whole header.                  *)

Index(kind, at, h) == [kind |-> kind, at |-> at, header |-> h]

\* Index::new
IndexNew(st, h) ==
  IF st.at = 0 THEN Index("notIndexed", 0, h)
  ELSE Index(IF st.full THEN "indexed" ELSE "name", st.at, h)

Indexed(t, ix) == [table |-> t, index |-> ix]

Insert(t, h) ==
  [t EXCEPT !.inserted = Wrapped(@ + 1),
            !.slots = <<[hash |-> HashOf[h.name], header |-> h, next |-> NoNext]>> \o @]

\* The first vacant place from p takes the last of the entries pushed on.
ShiftIn(t, p, pos) ==
  LET g == Min({k \in 0 .. Cap(t) - 1 : Place(t, p + k) = Vacant})
      moved == FoldLeft(LAMBDA u, j : PutPlace(u, p + j, Place(t, p + j - 1)), t,
                        [j \in 1 .. g |-> j])
  IN  PutPlace(moved, p, pos)

\* Evictions may have vacated places nearer to the wanted one.
Back(t, dist, p) ==
  Steps(dist, LAMBDA j : \/ Place(t, p - j) = Vacant
                         \/ ProbeDistance(t, Place(t, p - j).hash, p - j) < dist - j)

IndexVacant(t, h, dist, p, st) ==
  LET Put(u, back) ==
        ShiftIn(Insert(u, h), p - back,
                [index |-> Wrapped(-(u.inserted + 1)), hash |-> HashOf[h.name]])
      After(u) == Put(u, IF u.slots = t.slots THEN 0 ELSE Back(u, dist, p))
  IN  IF IsSensitive(h) THEN Indexed(t, IndexNew(st, h))
      ELSE Indexed(After(UpdateSize(t, HeaderLen(h), NoNext)),
                   IF st.at # 0 THEN Index("insertedValue", st.at, h)
                                ELSE Index("inserted", 0, h))

\* The entries of a name, from the one at `index` on, oldest first.
Chain(t, index) ==
  LET f[n \in 0 .. Len(t.slots)] ==
        IF n = 0 THEN <<index>>
        ELSE LET c == f[n - 1]
                 next == Slot(t, RealIndex(t, Last(c))).next
             IN  IF next = NoNext THEN c ELSE Append(c, next)
  IN  f[Len(t.slots)]

\* Mutant: the new entry is not chained to the older ones.
LinkedNot(t, last) == t

Linked(t, last) ==
  LET real == RealIndex(t, last)
  IN  IF real < Len(t.slots)
      THEN [t EXCEPT !.slots[real + 1].next = Wrapped(-t.inserted)] ELSE t

AddOccupied(t, h, chain, st) ==
  LET same == {i \in DOMAIN chain : Slot(t, RealIndex(t, chain[i])).header.value = h.value}
      At(i) == RealIndex(t, chain[i]) + DynOffset
      last == Last(chain)
  IN  IF same # {} THEN Indexed(t, Index("indexed", At(Min(same)), h))
      ELSE IF IsSensitive(h) THEN Indexed(t, Index("name", At(Len(chain)), h))
      ELSE Indexed(Linked(Insert(UpdateSize(t, HeaderLen(h), last), h), last),
                   Index("insertedValue", IF st.at # 0 THEN st.at ELSE At(Len(chain)), h))

IndexOccupied(t, h, index, st) == AddOccupied(t, h, Chain(t, index), st)

\* The place that is probed for h after d others, and whether its entry is
\* nearer to the place it wants than h would be.
Probed(t, h, d) == Place(t, DesiredPos(t, HashOf[h.name]) + d)
Poorer(t, h, d) == ProbeDistance(t, Probed(t, h, d).hash, DesiredPos(t, HashOf[h.name]) + d) < d
SameName(t, h, place) ==
  /\ place.hash = HashOf[h.name]
  /\ Slot(t, RealIndex(t, place.index)).header.name = h.name

\* Where the probing ends.
Distance(t, h) ==
  Min({d \in 0 .. Cap(t) - 1 :
         Probed(t, h, d) = Vacant \/ Poorer(t, h, d) \/ SameName(t, h, Probed(t, h, d))})

IndexDynamic(t0, h, st) ==
  LET IndexAt(t, d) ==
        IF Probed(t, h, d) = Vacant \/ Poorer(t, h, d)
        THEN IndexVacant(t, h, d, DesiredPos(t, HashOf[h.name]) + d, st)
        ELSE IndexOccupied(t, h, Probed(t, h, d).index, st)
      IndexIn(t) == IF Cap(t) = 0 THEN Indexed(t, IndexNew(st, h)) ELSE IndexAt(t, Distance(t, h))
  IN  IndexIn(IF HeaderLen(h) + t0.size < t0.max \/ ~IsSensitive(h)
              THEN ReserveOne(t0) ELSE t0)

\* Table::index
FindOrAdd(t, h) ==
  LET st == IndexStatic(h)
  IN  IF SkipValueIndex(h) \/ st.full \/ 4 * HeaderLen(h) > 3 * t.max
      THEN Indexed(t, IndexNew(st, h))
      ELSE IndexDynamic(t, h, st)

\* Table::resolve_idx, the index of the name of the header written last.
ResolveIndex(ix) == IF ix.kind \in {"inserted", "insertedValue"} THEN DynOffset ELSE ix.at

-----------------------------------------------------------------------------
(* What the structure is for.                                                *)

\* Every name in the table is found by probing, and its chain holds all its
\* entries from old to new; nothing else is in the index.
LookupIsComplete(t) ==
  LET Names == {t.slots[i].header.name : i \in DOMAIN t.slots}
      Reals(n) == {i - 1 : i \in {j \in DOMAIN t.slots : t.slots[j].header.name = n}}
      Places == {p \in 0 .. Cap(t) - 1 : Place(t, p) # Vacant}
      Owner(p) == Slot(t, RealIndex(t, Place(t, p).index))
  IN  /\ \A p \in Places : RealIndex(t, Place(t, p).index) < Len(t.slots)
      /\ \A p \in Places : Place(t, p).hash = Owner(p).hash
      /\ \A n \in Names : \E p \in Places :
           /\ Owner(p).header.name = n
           /\ \A d \in 0 .. ProbeDistance(t, HashOf[n], p) - 1 :
                LET q == DesiredPos(t, HashOf[n]) + d
                IN  /\ Place(t, q) # Vacant
                    /\ ProbeDistance(t, Place(t, q).hash, q) >= d
           /\ LET chain == Chain(t, Place(t, p).index)
                  reals == [i \in DOMAIN chain |-> RealIndex(t, chain[i])]
              IN  ToSet(reals) = Reals(n) /\ \A i \in 1 .. Len(reals) - 1 : reals[i] > reals[i + 1]
      /\ Cardinality(Places) = Cardinality(Names)

SizeIsSum(t) ==
  t.size = FoldLeft(LAMBDA n, s : n + HeaderLen(s.header), 0, t.slots) /\ t.size <= t.max
=============================================================================
