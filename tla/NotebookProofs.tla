---------------------------- MODULE NotebookProofs ----------------------------
(***************************************************************************)
(* Proofs about NotebookPage, for any number of edits and of saves in      *)
(* flight: no sequence of edits, moves and drags loses or doubles a cell,  *)
(* and "Saved" is true as long as saves did not overlap.                   *)
(***************************************************************************)
EXTENDS NotebookPage, TLAPS

---------------------------------------------------------------------------
(* What the operations on a list of cells do, position by position.        *)

LEMMA Joining ==
  ASSUME NEW S, NEW a \in Seq(S), NEW b \in Seq(S)
  PROVE  /\ a \o b \in Seq(S)
         /\ Len(a \o b) = Len(a) + Len(b)
         /\ \A k \in 1..(Len(a) + Len(b)) :
              (a \o b)[k] = IF k <= Len(a) THEN a[k] ELSE b[k - Len(a)]
  OBVIOUS

LEMMA Removal ==
  ASSUME NEW S, NEW cs \in Seq(S), NEW i \in 1..Len(cs)
  PROVE  /\ RemoveAt(cs, i) \in Seq(S)
         /\ Len(RemoveAt(cs, i)) = Len(cs) - 1
         /\ \A k \in 1..(Len(cs) - 1) :
              RemoveAt(cs, i)[k] = IF k < i THEN cs[k] ELSE cs[k + 1]
<1>0. Len(cs) \in Nat
  OBVIOUS
<1> DEFINE front == SubSeq(cs, 1, i - 1)
           back == SubSeq(cs, i + 1, Len(cs))
<1>1. /\ front \in Seq(S) /\ Len(front) = i - 1
      /\ \A k \in 1..(i - 1) : front[k] = cs[k]
  OBVIOUS
<1>2. /\ back \in Seq(S) /\ Len(back) = Len(cs) - i
      /\ \A k \in 1..(Len(cs) - i) : back[k] = cs[i + k]
  OBVIOUS
<1> HIDE DEF front, back
<1>3. front \o back \in Seq(S) /\ Len(front \o back) = Len(cs) - 1
  <2>1. front \o back \in Seq(S) /\ Len(front \o back) = Len(front) + Len(back)
    BY <1>1, <1>2, Joining
  <2> QED
    BY <1>0, <1>1, <1>2, <2>1
<1>4. ASSUME NEW k \in 1..(Len(cs) - 1)
      PROVE  (front \o back)[k] = IF k < i THEN cs[k] ELSE cs[k + 1]
  <2>0. k \in Nat /\ i \in Nat /\ (k < i \/ k >= i)
    BY <1>0
  <2>1. (front \o back)[k] = IF k <= i - 1 THEN front[k] ELSE back[k - (i - 1)]
    BY <1>1, <1>2, Joining
  <2>2. CASE k < i
    BY <1>1, <2>1, <2>2
  <2>3. CASE k >= i
    <3>1. k - (i - 1) \in 1..(Len(cs) - i) /\ i + (k - (i - 1)) = k + 1
      BY <2>3
    <3> QED
      BY <1>2, <2>1, <2>3, <3>1
  <2> QED
    BY <1>0, <2>0, <2>2, <2>3
<1> QED
  BY <1>3, <1>4 DEF RemoveAt, front, back

LEMMA Insertion ==
  ASSUME NEW S, NEW cs \in Seq(S), NEW i \in 1..(Len(cs) + 1), NEW e \in S
  PROVE  /\ InsertAt(cs, i, e) \in Seq(S)
         /\ Len(InsertAt(cs, i, e)) = Len(cs) + 1
         /\ \A k \in 1..(Len(cs) + 1) :
              InsertAt(cs, i, e)[k] = IF k < i THEN cs[k] ELSE IF k = i THEN e ELSE cs[k - 1]
<1>0. Len(cs) \in Nat
  OBVIOUS
<1> DEFINE front == SubSeq(cs, 1, i - 1)
           back == SubSeq(cs, i, Len(cs))
<1>1. /\ front \in Seq(S) /\ Len(front) = i - 1
      /\ \A k \in 1..(i - 1) : front[k] = cs[k]
  OBVIOUS
<1>2. /\ back \in Seq(S) /\ Len(back) = Len(cs) - i + 1
      /\ \A k \in 1..(Len(cs) - i + 1) : back[k] = cs[i + k - 1]
  OBVIOUS
<1> HIDE DEF front, back
<1> DEFINE upto == front \o <<e>>
<1>3. /\ upto \in Seq(S) /\ Len(upto) = i
      /\ \A k \in 1..i : upto[k] = IF k < i THEN cs[k] ELSE e
  BY <1>1
<1> HIDE DEF upto
<1>4. upto \o back \in Seq(S) /\ Len(upto \o back) = Len(cs) + 1
  BY <1>0, <1>2, <1>3, Joining
<1>5. ASSUME NEW k \in 1..(Len(cs) + 1)
      PROVE  (upto \o back)[k] = IF k < i THEN cs[k] ELSE IF k = i THEN e ELSE cs[k - 1]
  <2>0. k \in Nat /\ i \in Nat /\ (k <= i \/ k > i)
    BY <1>0
  <2>1. (upto \o back)[k] = IF k <= i THEN upto[k] ELSE back[k - i]
    BY <1>2, <1>3, Joining
  <2>2. CASE k <= i
    BY <1>3, <2>1, <2>2
  <2>3. CASE k > i
    <3>1. k - i \in 1..(Len(cs) - i + 1) /\ i + (k - i) - 1 = k - 1
      BY <2>3
    <3> QED
      BY <1>2, <2>1, <2>3, <3>1
  <2> QED
    BY <1>0, <2>0, <2>2, <2>3
<1> QED
  BY <1>4, <1>5 DEF InsertAt, front, back, upto

---------------------------------------------------------------------------
(* Cell lists.  New ids are fresh: every id on the page is one of those    *)
(* that it was opened with or that an edit so far has added.  Nothing is   *)
(* under way before the notebook is loaded.                                *)

GoodCells(cs, n) ==
    /\ cs \in Seq(Cell)
    /\ UniqueIds(cs)
    /\ \A i \in DOMAIN cs : cs[i].id <= Opened + n

IdsInv ==
    /\ GoodCells(cells, edits)
    /\ page = "loading" => /\ edits = 0 /\ ~timer /\ InFlight = {}
                           /\ GoodCells(stored.cells, 0)

LEMMA Sizes == MaxEdits \in Nat /\ (edits \in 0..MaxEdits /\ edits < MaxEdits => Rev \in 1..MaxEdits)
  BY EditorAssumption DEF Rev

LEMMA PositionOf ==
  ASSUME NEW id \in Ids(cells), cells \in Seq(Cell)
  PROVE  IndexOf(id) \in 1..Len(cells) /\ cells[IndexOf(id)].id = id
<1>1. \E i \in DOMAIN cells : cells[i].id = id
  BY DEF Ids
<1> QED
  BY <1>1 DEF IndexOf

LEMMA GoodUpdate ==
  ASSUME GoodCells(cells, edits), edits \in 0..MaxEdits, edits < MaxEdits, NEW id
  PROVE  GoodCells([i \in DOMAIN cells |->
                      IF cells[i].id = id THEN [cells[i] EXCEPT !.rev = Rev] ELSE cells[i]],
                   edits + 1)
<1> DEFINE new == [i \in DOMAIN cells |->
                     IF cells[i].id = id THEN [cells[i] EXCEPT !.rev = Rev] ELSE cells[i]]
<1>1. cells \in Seq(Cell) /\ Rev \in 0..MaxEdits
  BY Sizes DEF GoodCells
<1>2. \A i \in DOMAIN cells : cells[i] \in Cell /\ new[i] \in Cell /\ new[i].id = cells[i].id
  <2> SUFFICES ASSUME NEW i \in DOMAIN cells
               PROVE  cells[i] \in Cell /\ new[i] \in Cell /\ new[i].id = cells[i].id
    OBVIOUS
  <2>1. cells[i] \in Cell
    BY <1>1
  <2>2. [cells[i] EXCEPT !.rev = Rev] \in Cell /\ [cells[i] EXCEPT !.rev = Rev].id = cells[i].id
    BY <1>1, <2>1 DEF Cell
  <2> QED
    BY <2>1, <2>2
<1>3. DOMAIN new = DOMAIN cells /\ new \in [1..Len(cells) -> Cell] /\ Len(cells) \in Nat
  <2>1. DOMAIN cells = 1..Len(cells) /\ Len(cells) \in Nat
    BY <1>1
  <2> QED
    BY <1>2, <2>1
<1> HIDE DEF new
<1>4. new \in Seq(Cell)
  BY <1>3
<1>5. UniqueIds(new)
  BY <1>2, <1>3 DEF GoodCells, UniqueIds
<1>6. \A i \in DOMAIN new : new[i].id <= Opened + (edits + 1)
  <2> SUFFICES ASSUME NEW i \in DOMAIN cells
               PROVE  new[i].id <= Opened + (edits + 1)
    BY <1>3
  <2>1. cells[i].id \in Nat /\ cells[i].id <= Opened + edits
    BY <1>2, Sizes DEF GoodCells, Cell, CellIds, Opened
  <2> QED
    BY <1>2, <2>1, Sizes DEF Opened
<1> QED
  BY <1>4, <1>5, <1>6 DEF GoodCells, new

LEMMA GoodAdd ==
  ASSUME GoodCells(cells, edits), edits \in 0..MaxEdits, edits < MaxEdits, NEW kind \in Kinds
  PROVE  GoodCells(Append(cells, NewCell(Opened + Rev, kind)), edits + 1)
<1> DEFINE c == NewCell(Opened + Rev, kind)
           new == Append(cells, c)
<1>1. c \in Cell /\ c.id = Opened + edits + 1
  BY Sizes DEF NewCell, Cell, CellIds, Opened, Rev
<1>2. cells \in Seq(Cell) /\ Len(cells) \in Nat
  BY DEF GoodCells
<1> HIDE DEF c
<1>3. /\ new \in Seq(Cell) /\ DOMAIN new = 1..(Len(cells) + 1)
      /\ \A i \in 1..Len(cells) : new[i] = cells[i]
      /\ new[Len(cells) + 1] = c
  BY <1>1, <1>2
<1> HIDE DEF new
<1>4. \A i \in 1..(Len(cells) + 1) : i \in 1..Len(cells) \/ i = Len(cells) + 1
  BY <1>2
<1>5. \A i \in 1..Len(cells) : cells[i].id \in Nat /\ cells[i].id <= Opened + edits
  <2>1. \A i \in 1..Len(cells) : cells[i] \in Cell /\ i \in DOMAIN cells
    BY <1>2
  <2>2. CellIds \subseteq Nat
    BY Sizes DEF CellIds, Opened
  <2> QED
    BY <2>1, <2>2 DEF GoodCells, Cell
<1>6. UniqueIds(new)
  <2> SUFFICES ASSUME NEW i \in DOMAIN new, NEW k \in DOMAIN new, new[i].id = new[k].id
               PROVE  i = k
    BY DEF UniqueIds
  <2>1. \A l \in 1..Len(cells) : cells[l].id # c.id
    BY <1>1, <1>5, Sizes DEF Opened
  <2>2. CASE i \in 1..Len(cells) /\ k \in 1..Len(cells)
    <3>1. cells[i].id = cells[k].id
      BY <1>3, <2>2
    <3> QED
      BY <2>2, <3>1 DEF GoodCells, UniqueIds
  <2>3. CASE i = Len(cells) + 1 /\ k \in 1..Len(cells)
    BY <1>3, <2>1, <2>3
  <2>4. CASE i \in 1..Len(cells) /\ k = Len(cells) + 1
    BY <1>3, <2>1, <2>4
  <2>5. CASE i = Len(cells) + 1 /\ k = Len(cells) + 1
    BY <2>5
  <2> QED
    BY <1>3, <1>4, <2>2, <2>3, <2>4, <2>5
<1>7. \A i \in DOMAIN new : new[i].id <= Opened + (edits + 1)
  BY <1>1, <1>3, <1>4, <1>5 DEF Opened
<1> QED
  BY <1>3, <1>6, <1>7 DEF GoodCells, new, c

LEMMA GoodRemoval ==
  ASSUME NEW cs, NEW n \in Nat, GoodCells(cs, n), NEW i \in 1..Len(cs)
  PROVE  /\ GoodCells(RemoveAt(cs, i), n)
         /\ \A k \in DOMAIN RemoveAt(cs, i) : RemoveAt(cs, i)[k].id # cs[i].id
<1> DEFINE new == RemoveAt(cs, i)
<1>1. cs \in Seq(Cell) /\ Len(cs) \in Nat /\ DOMAIN cs = 1..Len(cs)
  BY DEF GoodCells
<1>2. /\ new \in Seq(Cell) /\ Len(new) = Len(cs) - 1
      /\ \A k \in 1..(Len(cs) - 1) : new[k] = IF k < i THEN cs[k] ELSE cs[k + 1]
  BY <1>1, Removal
<1>3. DOMAIN new = 1..(Len(cs) - 1)
  BY <1>1, <1>2
<1> HIDE DEF new
<1>4. \A k \in DOMAIN new : \E m \in DOMAIN cs :
         m # i /\ m = (IF k < i THEN k ELSE k + 1) /\ new[k] = cs[m]
  BY <1>1, <1>2, <1>3
<1>5. UniqueIds(new)
  <2> SUFFICES ASSUME NEW k \in DOMAIN new, NEW l \in DOMAIN new, new[k].id = new[l].id
               PROVE  k = l
    BY DEF UniqueIds
  <2>1. PICK m \in DOMAIN cs : m = (IF k < i THEN k ELSE k + 1) /\ new[k] = cs[m]
    BY <1>4
  <2>2. PICK o \in DOMAIN cs : o = (IF l < i THEN l ELSE l + 1) /\ new[l] = cs[o]
    BY <1>4
  <2>3. m = o
    BY <2>1, <2>2 DEF GoodCells, UniqueIds
  <2> QED
    BY <1>1, <1>3, <2>1, <2>2, <2>3
<1>6. /\ \A k \in DOMAIN new : new[k].id <= Opened + n
      /\ \A k \in DOMAIN new : new[k].id # cs[i].id
  BY <1>1, <1>4 DEF GoodCells, UniqueIds
<1> QED
  BY <1>2, <1>5, <1>6 DEF GoodCells, new

LEMMA GoodInsertion ==
  ASSUME NEW cs, NEW n \in Nat, GoodCells(cs, n), NEW i \in 1..(Len(cs) + 1), NEW c \in Cell,
         c.id <= Opened + n, \A k \in DOMAIN cs : cs[k].id # c.id
  PROVE  GoodCells(InsertAt(cs, i, c), n)
<1> DEFINE new == InsertAt(cs, i, c)
<1>1. cs \in Seq(Cell) /\ Len(cs) \in Nat /\ DOMAIN cs = 1..Len(cs)
  BY DEF GoodCells
<1>2. /\ new \in Seq(Cell) /\ Len(new) = Len(cs) + 1
      /\ \A k \in 1..(Len(cs) + 1) :
           new[k] = IF k < i THEN cs[k] ELSE IF k = i THEN c ELSE cs[k - 1]
  <2>1. new \in Seq(Cell)
    BY <1>1, Insertion
  <2>2. Len(new) = Len(cs) + 1
    BY <1>1, Insertion
  <2>3. ASSUME NEW k \in 1..(Len(cs) + 1)
        PROVE  new[k] = IF k < i THEN cs[k] ELSE IF k = i THEN c ELSE cs[k - 1]
    BY <1>1, Insertion
  <2> QED
    BY <2>1, <2>2, <2>3
<1>3. DOMAIN new = 1..(Len(cs) + 1)
  BY <1>1, <1>2
<1> HIDE DEF new
<1>4. \A k \in DOMAIN new :
         \/ k = i /\ new[k] = c
         \/ \E m \in DOMAIN cs : /\ k # i /\ m = (IF k < i THEN k ELSE k - 1)
                                 /\ new[k] = cs[m]
  BY <1>1, <1>2, <1>3
<1>5. UniqueIds(new)
  <2> SUFFICES ASSUME NEW k \in DOMAIN new, NEW l \in DOMAIN new, new[k].id = new[l].id
               PROVE  k = l
    BY DEF UniqueIds
  <2>1. CASE k = i \/ l = i
    BY <1>4, <2>1
  <2>2. CASE k # i /\ l # i
    <3>1. PICK m \in DOMAIN cs : m = (IF k < i THEN k ELSE k - 1) /\ new[k] = cs[m]
      BY <1>4, <2>2
    <3>2. PICK o \in DOMAIN cs : o = (IF l < i THEN l ELSE l - 1) /\ new[l] = cs[o]
      BY <1>4, <2>2
    <3>3. m = o
      BY <3>1, <3>2 DEF GoodCells, UniqueIds
    <3> QED
      BY <1>1, <1>3, <2>2, <3>1, <3>2, <3>3
  <2> QED
    BY <2>1, <2>2
<1>6. \A k \in DOMAIN new : new[k].id <= Opened + n
  BY <1>1, <1>4 DEF GoodCells
<1> QED
  BY <1>2, <1>5, <1>6 DEF GoodCells, new
LEMMA GoodSwap ==
  ASSUME NEW cs, NEW n \in Nat, GoodCells(cs, n), NEW i \in DOMAIN cs, NEW t \in DOMAIN cs
  PROVE  GoodCells([cs EXCEPT ![i] = cs[t], ![t] = cs[i]], n)
<1> DEFINE new == [cs EXCEPT ![i] = cs[t], ![t] = cs[i]]
<1>1. cs \in Seq(Cell) /\ Len(cs) \in Nat /\ DOMAIN cs = 1..Len(cs)
  BY DEF GoodCells
<1>2. /\ new \in Seq(Cell) /\ DOMAIN new = DOMAIN cs
      /\ \A k \in DOMAIN cs : new[k] = IF k = t THEN cs[i] ELSE IF k = i THEN cs[t] ELSE cs[k]
  BY <1>1
<1> HIDE DEF new
<1> DEFINE from(k) == IF k = t THEN i ELSE IF k = i THEN t ELSE k
<1>3. \A k \in DOMAIN new : from(k) \in DOMAIN cs /\ new[k] = cs[from(k)]
  BY <1>2
<1>4. UniqueIds(new)
  <2> SUFFICES ASSUME NEW k \in DOMAIN new, NEW l \in DOMAIN new, new[k].id = new[l].id
               PROVE  k = l
    BY DEF UniqueIds
  <2>1. from(k) = from(l)
    BY <1>3 DEF GoodCells, UniqueIds
  <2> QED
    BY <2>1
<1>5. \A k \in DOMAIN new : new[k].id <= Opened + n
  BY <1>3 DEF GoodCells
<1> QED
  BY <1>2, <1>4, <1>5 DEF GoodCells, new

LEMMA GoodLater ==
  ASSUME NEW cs, NEW n \in Nat, NEW m \in Nat, n <= m, GoodCells(cs, n)
  PROVE  GoodCells(cs, m)
<1>1. \A i \in DOMAIN cs : cs[i].id \in Nat
  <2>1. \A i \in DOMAIN cs : cs[i] \in Cell
    BY DEF GoodCells
  <2> QED
    BY <2>1, Sizes DEF Cell, CellIds, Opened
<1> QED
  BY <1>1 DEF GoodCells, Opened

---------------------------------------------------------------------------
(* Types.  An edit is one of the lists above and whatever Edit does.       *)

LEMMA EditKeeps ==
  ASSUME TypeOK, IdsInv, Edit, GoodCells(cells', edits + 1), title' \in 0..MaxEdits
  PROVE  TypeOK' /\ IdsInv'
<1>1. edits' \in 0..MaxEdits /\ edits' = edits + 1
  BY Sizes DEF Edit, TypeOK
<1>2. IsDoc(Shown)'
  BY DEF IsDoc, Shown, Doc, Docs, GoodCells
<1>3. TypeOK'
  BY <1>1, <1>2 DEF Edit, ScheduleSave, TypeOK, IsDoc, UniqueIds, Docs
<1>4. IdsInv'
  BY <1>1 DEF IdsInv, Edit
<1> QED
  BY <1>3, <1>4

LEMMA UpdateTypes ==
  ASSUME TypeOK, IdsInv, NEW id, UpdateCell(id)
  PROVE  TypeOK' /\ IdsInv'
<1>1. edits \in 0..MaxEdits /\ edits < MaxEdits /\ GoodCells(cells, edits)
  BY DEF TypeOK, IdsInv, UpdateCell, Edit
<1>2. GoodCells(cells', edits + 1)
  BY <1>1, GoodUpdate DEF UpdateCell
<1>3. title' \in 0..MaxEdits
  BY DEF UpdateCell, TypeOK, IsDoc, Shown, Doc, Docs
<1> QED
  BY <1>2, <1>3, EditKeeps DEF UpdateCell

LEMMA TitleTypes ==
  ASSUME TypeOK, IdsInv, HandleTitleChange
  PROVE  TypeOK' /\ IdsInv'
<1>1. edits \in Nat /\ title' \in 0..MaxEdits
  BY Sizes DEF HandleTitleChange, Edit, TypeOK, Rev
<1>2. GoodCells(cells', edits + 1)
  BY <1>1, GoodLater DEF HandleTitleChange, IdsInv
<1> QED
  BY <1>1, <1>2, EditKeeps DEF HandleTitleChange

LEMMA AddTypes ==
  ASSUME TypeOK, IdsInv, NEW kind \in Kinds, AddCell(kind)
  PROVE  TypeOK' /\ IdsInv'
<1>1. edits \in 0..MaxEdits /\ edits < MaxEdits /\ GoodCells(cells, edits)
  BY DEF TypeOK, IdsInv, AddCell, Edit
<1>2. GoodCells(cells', edits + 1)
  BY <1>1, GoodAdd DEF AddCell
<1>3. title' \in 0..MaxEdits
  BY DEF AddCell, TypeOK, IsDoc, Shown, Doc, Docs
<1> QED
  BY <1>2, <1>3, EditKeeps DEF AddCell

LEMMA DeleteTypes ==
  ASSUME TypeOK, IdsInv, NEW id, DeleteCell(id)
  PROVE  TypeOK' /\ IdsInv'
<1>1. edits \in Nat /\ edits + 1 \in Nat /\ GoodCells(cells, edits) /\ cells \in Seq(Cell)
  BY DEF TypeOK, IdsInv, GoodCells
<1>2. IndexOf(id) \in 1..Len(cells)
  BY <1>1, PositionOf DEF DeleteCell
<1>3. GoodCells(cells', edits)
  BY <1>1, <1>2, GoodRemoval DEF DeleteCell
<1>4. GoodCells(cells', edits + 1)
  BY <1>1, <1>3, GoodLater
<1>5. title' \in 0..MaxEdits
  BY DEF DeleteCell, TypeOK, IsDoc, Shown, Doc, Docs
<1> QED
  BY <1>4, <1>5, EditKeeps DEF DeleteCell

LEMMA MoveTypes ==
  ASSUME TypeOK, IdsInv, NEW id, NEW direction, MoveCell(id, direction)
  PROVE  TypeOK' /\ IdsInv'
<1>1. edits \in Nat /\ edits + 1 \in Nat /\ GoodCells(cells, edits) /\ cells \in Seq(Cell)
  BY DEF TypeOK, IdsInv, GoodCells
<1>2. IndexOf(id) \in DOMAIN cells
  BY <1>1, PositionOf DEF MoveCell
<1> DEFINE i == IndexOf(id)
           target == IF direction = "up" THEN i - 1 ELSE i + 1
<1>3. GoodCells(cells', edits)
  <2>1. CASE target \in DOMAIN cells
    <3>1. cells' = [cells EXCEPT ![i] = cells[target], ![target] = cells[i]]
      BY <2>1 DEF MoveCell
    <3> HIDE DEF i, target
    <3>2. i \in DOMAIN cells
      BY <1>2 DEF i
    <3> QED
      BY <1>1, <2>1, <3>1, <3>2, GoodSwap
  <2>2. CASE target \notin DOMAIN cells
    BY <1>1, <2>2 DEF MoveCell
  <2> QED
    BY <2>1, <2>2
<1>4. GoodCells(cells', edits + 1)
  BY <1>1, <1>3, GoodLater
<1>5. title' \in 0..MaxEdits
  BY DEF MoveCell, TypeOK, IsDoc, Shown, Doc, Docs
<1> QED
  BY <1>4, <1>5, EditKeeps DEF MoveCell

LEMMA DragTypes ==
  ASSUME TypeOK, IdsInv, NEW active, NEW over, HandleDragEnd(active, over)
  PROVE  TypeOK' /\ IdsInv'
<1> DEFINE i == IndexOf(active)
           rest == RemoveAt(cells, i)
           c == cells[i]
<1>1. edits \in Nat /\ edits + 1 \in Nat /\ GoodCells(cells, edits) /\ cells \in Seq(Cell)
  BY DEF TypeOK, IdsInv, GoodCells
<1>2. i \in 1..Len(cells) /\ IndexOf(over) \in 1..Len(cells)
  BY <1>1, PositionOf DEF HandleDragEnd
<1>3. cells' = InsertAt(rest, IndexOf(over), c)
  BY DEF HandleDragEnd
<1>4. c \in Cell /\ c.id <= Opened + edits
  BY <1>1, <1>2 DEF GoodCells
<1> HIDE DEF i
<1>5. Len(rest) = Len(cells) - 1 /\ Len(cells) \in Nat
  BY <1>1, <1>2, Removal
<1>6. IndexOf(over) \in 1..(Len(rest) + 1)
  BY <1>2, <1>5
<1>7. GoodCells(rest, edits) /\ \A k \in DOMAIN rest : rest[k].id # c.id
  BY <1>1, <1>2, GoodRemoval
<1> HIDE DEF rest, c
<1>8. GoodCells(cells', edits)
  BY <1>1, <1>3, <1>4, <1>6, <1>7, GoodInsertion
<1>9. GoodCells(cells', edits + 1)
  BY <1>1, <1>8, GoodLater
<1>10. title' \in 0..MaxEdits
  BY DEF HandleDragEnd, TypeOK, IsDoc, Shown, Doc, Docs
<1> QED
  BY <1>9, <1>10, EditKeeps DEF HandleDragEnd

LEMMA LoadTypes ==
  ASSUME TypeOK, IdsInv, Load
  PROVE  TypeOK' /\ IdsInv'
<1>1. edits \in Nat /\ NewCell(Opened, "code") \in Cell /\ NewCell(Opened, "code").id = Opened
  BY Sizes DEF TypeOK, NewCell, Cell, CellIds, Kinds, Opened
<1>2. GoodCells(cells', 0)
  <2>1. CASE stored.cells = <<>>
    <3>1. cells' = <<NewCell(Opened, "code")>>
      BY <2>1 DEF Load
    <3> QED
      BY <1>1, <3>1 DEF GoodCells, UniqueIds, Opened
  <2>2. CASE stored.cells # <<>>
    BY <2>2 DEF Load, IdsInv
  <2> QED
    BY <2>1, <2>2
<1>3. GoodCells(cells', edits)
  BY <1>1, <1>2, GoodLater
<1>4. IsDoc(Shown)'
  BY <1>2 DEF Load, TypeOK, IsDoc, Shown, Doc, Docs, GoodCells
<1>5. TypeOK'
  BY <1>4 DEF Load, TypeOK, IsDoc, UniqueIds, Docs, history
<1> QED
  BY <1>3, <1>5 DEF Load, IdsInv, history

LEMMA SendTypes ==
  ASSUME TypeOK, IdsInv, NEW s \in Saves, Send(s)
  PROVE  /\ save' \in [Saves -> SaveRecords]
         /\ \A r \in Saves : UniqueIds(save'[r].body.cells)
         /\ overlapped' \in BOOLEAN
<1> DEFINE new == [NoSave EXCEPT !.st = "sent", !.body = Shown, !.edit = edits]
<1>1. new \in SaveRecords /\ UniqueIds(new.body.cells)
  BY DEF NoSave, SaveRecords, SaveStates, TypeOK, IsDoc
<1>2. save' = [save EXCEPT ![s] = new]
  BY DEF Send
<1> HIDE DEF new
<1>3. overlapped' \in BOOLEAN
  BY DEF Send, TypeOK
<1> QED
  BY <1>1, <1>2, <1>3 DEF TypeOK

LEMMA AutoSlot == (CHOOSE s \in Autos : save[s].st = "none" \/ Autos \subseteq InFlight) \in Saves
<1>1. \E s \in Autos : save[s].st = "none" \/ Autos \subseteq InFlight
  BY EditorAssumption DEF InFlight, Saves
<1> QED
  BY <1>1 DEF Saves

LEMMA TimerTypes ==
  ASSUME TypeOK, IdsInv, TimerFires
  PROVE  TypeOK' /\ IdsInv'
<1>1. /\ save' \in [Saves -> SaveRecords]
      /\ \A r \in Saves : UniqueIds(save'[r].body.cells)
      /\ overlapped' \in BOOLEAN
  <2>1. CASE AutoSave
    BY <2>1, AutoSlot, SendTypes DEF AutoSave
  <2>2. CASE UNCHANGED <<save, overlapped>>
    BY <2>2 DEF TypeOK
  <2> QED
    BY <2>1, <2>2 DEF TimerFires
<1>2. /\ saveStatus' \in {"saved", "saving", "unsaved"}
      /\ timer' \in BOOLEAN /\ page # "loading"
      /\ UNCHANGED <<page, title, cells, flow, stored, edits, since, wanted>>
  BY DEF TimerFires, TypeOK
<1>3. IsDoc(Shown)'
  BY <1>2 DEF TypeOK, IsDoc, Shown, Doc, Docs, UniqueIds
<1> QED
  BY <1>1, <1>2, <1>3 DEF TypeOK, IdsInv, IsDoc, UniqueIds, Docs

LEMMA FlushTypes ==
  ASSUME TypeOK, IdsInv, ExportNotebook \/ RunAsJob
  PROVE  TypeOK' /\ IdsInv'
<1>1. PICK f \in Flushes : FlushSave(f)
  BY DEF ExportNotebook, RunAsJob, Flushes
<1>2. f \in Saves
  BY DEF Saves
<1>3. /\ save' \in [Saves -> SaveRecords]
      /\ \A r \in Saves : UniqueIds(save'[r].body.cells)
      /\ overlapped' \in BOOLEAN
  BY <1>1, <1>2, SendTypes DEF FlushSave
<1>4. /\ saveStatus' \in {"saved", "saving", "unsaved"} /\ timer' \in BOOLEAN
      /\ flow' \in [Flushes -> FlowPcs]
  BY <1>1 DEF FlushSave, TypeOK, FlowPcs
<1>5. /\ page = "ready" /\ wanted' \in 0..MaxEdits
      /\ UNCHANGED <<page, title, cells, stored, edits, since>>
  BY DEF ExportNotebook, RunAsJob, TypeOK
<1>6. IsDoc(Shown)'
  BY <1>5 DEF TypeOK, IsDoc, Shown, Doc, Docs, UniqueIds
<1> QED
  BY <1>3, <1>4, <1>5, <1>6 DEF TypeOK, IdsInv, IsDoc, UniqueIds, Docs

LEMMA NoSaveTypes == NoSave \in SaveRecords /\ UniqueIds(NoSave.body.cells)
<1>1. NoSave \in SaveRecords /\ NoSave.body.cells = <<>>
  BY Sizes DEF NoSave, NoDoc, Doc, Docs, SaveRecords, SaveStates
<1> QED
  BY <1>1 DEF UniqueIds

LEMMA ServerTypes ==
  ASSUME TypeOK, IdsInv, NEW s \in Saves, ServerLoads(s) \/ ServerWrites(s)
  PROVE  TypeOK' /\ IdsInv'
<1>1. save[s] \in SaveRecords /\ UniqueIds(save[s].body.cells)
  BY DEF TypeOK
<1>2. page # "loading" /\ UNCHANGED <<pageVars, flow, edits, wanted, overlapped>>
  BY DEF ServerLoads, ServerWrites, IdsInv, InFlight, history
<1>3. save' \in [Saves -> SaveRecords] /\ \A r \in Saves : UniqueIds(save'[r].body.cells)
  <2>1. CASE ServerLoads(s)
    <3> DEFINE cols == {col \in {"title", "content"} :
                          \/ col = "title" /\ save[s].body.title # stored.title
                          \/ col = "content" /\ save[s].body.cells # stored.cells}
    <3>1. cols \in SUBSET {"title", "content"}
      OBVIOUS
    <3>2. save' = [save EXCEPT ![s].st = "read", ![s].dirty = cols]
      BY <2>1 DEF ServerLoads
    <3> HIDE DEF cols
    <3> DEFINE new == [save[s] EXCEPT !.st = "read", !.dirty = cols]
    <3>3. save' = [save EXCEPT ![s] = new]
      BY <3>2 DEF TypeOK
    <3>4. new \in SaveRecords /\ new.body = save[s].body
      BY <1>1, <3>1 DEF SaveRecords, SaveStates
    <3> HIDE DEF new
    <3> QED
      BY <1>1, <3>3, <3>4 DEF TypeOK
  <2>2. CASE ServerWrites(s)
    <3> DEFINE new == [NoSave EXCEPT !.st = "written"]
    <3>1. save' = [save EXCEPT ![s] = new]
      BY <2>2 DEF ServerWrites
    <3>2. new \in SaveRecords /\ new.body = NoSave.body
      BY NoSaveTypes DEF SaveRecords, SaveStates
    <3>3. UniqueIds(new.body.cells)
      BY <3>2, NoSaveTypes
    <3> HIDE DEF new
    <3> QED
      BY <3>1, <3>2, <3>3 DEF TypeOK
  <2> QED
    BY <2>1, <2>2
<1>4. IsDoc(stored') /\ since' \in 0..MaxEdits
  <2>1. CASE ServerLoads(s)
    BY <2>1 DEF ServerLoads, TypeOK, history
  <2>2. CASE ServerWrites(s)
    BY <1>1, <2>2 DEF ServerWrites, TypeOK, IsDoc, Doc, Docs, SaveRecords
  <2> QED
    BY <2>1, <2>2
<1>5. IsDoc(Shown)'
  BY <1>2 DEF TypeOK, IsDoc, Shown, Doc, Docs, UniqueIds, pageVars
<1> QED
  BY <1>2, <1>3, <1>4, <1>5 DEF TypeOK, IdsInv, IsDoc, UniqueIds, Docs, pageVars

LEMMA AnswerTypes ==
  ASSUME TypeOK, IdsInv, NEW s \in Saves, SaveAnswered(s) \/ SaveError(s)
  PROVE  TypeOK' /\ IdsInv'
<1>1. save' = [save EXCEPT ![s] = NoSave]
  BY DEF SaveAnswered, SaveError
<1>2. save' \in [Saves -> SaveRecords] /\ \A r \in Saves : UniqueIds(save'[r].body.cells)
  BY <1>1, NoSaveTypes DEF TypeOK
<1>3. /\ page # "loading" /\ wanted' \in 0..MaxEdits
      /\ UNCHANGED <<page, title, cells, timer, stored, edits, since, overlapped>>
  BY Sizes DEF SaveAnswered, SaveError, IdsInv, InFlight, history, TypeOK
<1>4. saveStatus' \in {"saved", "saving", "unsaved"} /\ flow' \in [Flushes -> FlowPcs]
  BY DEF SaveAnswered, SaveError, ShowStatus, FlushReturns, TypeOK, FlowPcs
<1>5. IsDoc(Shown)'
  BY <1>3 DEF TypeOK, IsDoc, Shown, Doc, Docs, UniqueIds
<1> QED
  BY <1>2, <1>3, <1>4, <1>5 DEF TypeOK, IdsInv, IsDoc, UniqueIds, Docs

LEMMA FlowTypes ==
  ASSUME TypeOK, IdsInv, ServerExports \/ ServerCreatesJob
  PROVE  TypeOK' /\ IdsInv'
<1>1. /\ flow' \in [Flushes -> FlowPcs] /\ wanted' \in 0..MaxEdits
      /\ UNCHANGED <<pageVars, save, stored, edits, since, overlapped>>
  BY Sizes DEF ServerExports, ServerCreatesJob, TypeOK, FlowPcs, history
<1>2. IsDoc(Shown)'
  BY <1>1 DEF TypeOK, IsDoc, Shown, Doc, Docs, UniqueIds, pageVars
<1> QED
  BY <1>1, <1>2 DEF TypeOK, IdsInv, IsDoc, UniqueIds, Docs, pageVars, InFlight

LEMMA LeaveTypes ==
  ASSUME TypeOK, IdsInv, Leave \/ UNCHANGED vars
  PROVE  TypeOK' /\ IdsInv'
<1>1. /\ page' \in {"loading", "ready", "left"} /\ (page' = "loading" => page = "loading")
      /\ UNCHANGED <<title, cells, saveStatus, timer, flow, save, stored, history>>
  BY DEF Leave, TypeOK, vars, pageVars
<1>2. IsDoc(Shown)'
  BY <1>1 DEF TypeOK, IsDoc, Shown, Doc, Docs, UniqueIds
<1> QED
  BY <1>1, <1>2 DEF TypeOK, IdsInv, IsDoc, UniqueIds, Docs, history, InFlight

LEMMA InitTypes == Init => TypeOK /\ IdsInv
<1> SUFFICES ASSUME Init PROVE TypeOK /\ IdsInv
  OBVIOUS
<1>1. PICK k \in Kinds : stored = Doc(0, <<>>) \/ stored = Doc(0, <<NewCell(1, k), NewCell(2, "code")>>)
  BY DEF Init, Kinds
<1>2. \A n \in 1..2, q \in Kinds : NewCell(n, q) \in Cell /\ NewCell(n, q).id = n
  BY Sizes DEF NewCell, Cell, CellIds, Opened
<1>3. GoodCells(<<>>, 0) /\ GoodCells(<<NewCell(1, k), NewCell(2, "code")>>, 0)
  <2>1. GoodCells(<<>>, 0)
    BY DEF GoodCells, UniqueIds
  <2> DEFINE a == NewCell(1, k)
             b == NewCell(2, "code")
  <2>2. a \in Cell /\ b \in Cell /\ a.id = 1 /\ b.id = 2
    BY <1>2 DEF Kinds
  <2> HIDE DEF a, b
  <2>3. GoodCells(<<a, b>>, 0)
    BY <2>2 DEF GoodCells, UniqueIds, Opened
  <2> QED
    BY <2>1, <2>3 DEF a, b
<1>4. GoodCells(stored.cells, 0) /\ IsDoc(stored)
  <2>1. ASSUME NEW cs, GoodCells(cs, 0), stored = Doc(0, cs)
        PROVE  GoodCells(stored.cells, 0) /\ IsDoc(stored)
    <3>1. stored.title = 0 /\ stored.cells = cs /\ cs \in Seq(Cell) /\ UniqueIds(cs)
      BY <2>1 DEF Doc, GoodCells
    <3>2. stored \in Docs
      BY <2>1, <3>1, Sizes DEF Doc, Docs
    <3> QED
      BY <2>1, <3>1, <3>2 DEF IsDoc
  <2> QED
    BY <1>1, <1>3, <2>1
<1>5. IsDoc(Shown)
  BY <1>3, Sizes DEF Init, Shown, Doc, IsDoc, Docs, GoodCells
<1>6. InFlight = {}
  BY DEF Init, InFlight, NoSave
<1>7. IdsInv
  BY <1>3, <1>4, <1>6 DEF Init, IdsInv
<1>8. save \in [Saves -> SaveRecords] /\ \A s \in Saves : UniqueIds(save[s].body.cells)
  <2>1. save = [s \in Saves |-> NoSave]
    BY DEF Init
  <2> QED
    BY <2>1, NoSaveTypes
<1>9. /\ flow \in [Flushes -> FlowPcs] /\ saveStatus = "saved" /\ page = "loading"
      /\ timer = FALSE /\ overlapped = FALSE
      /\ edits \in 0..MaxEdits /\ since \in 0..MaxEdits /\ wanted \in 0..MaxEdits
  BY Sizes DEF Init, FlowPcs
<1>10. TypeOK
  BY <1>4, <1>5, <1>8, <1>9 DEF TypeOK
<1> QED
  BY <1>7, <1>10

LEMMA StepTypes == TypeOK /\ IdsInv /\ [Next]_vars => TypeOK' /\ IdsInv'
<1> SUFFICES ASSUME TypeOK, IdsInv, [Next]_vars PROVE TypeOK' /\ IdsInv'
  OBVIOUS
<1>1. CASE Load
  BY <1>1, LoadTypes
<1>2. CASE Toolbar
  BY <1>2, TitleTypes, AddTypes, FlushTypes DEF Toolbar
<1>3. CASE CellControls
  <2>1. PICK id \in CellIds : \/ UpdateCell(id) \/ SortableCell(id) \/ DeleteCell(id) \/ AdvanceFrom(id)
                              \/ \E direction \in {"up", "down"} : MoveCell(id, direction)
    BY <1>3 DEF CellControls, RunCell, CodeCell, MarkdownCell
  <2>2. CASE AdvanceFrom(id)
    BY <2>2, AddTypes DEF AdvanceFrom, Kinds
  <2> QED
    BY <2>1, <2>2, UpdateTypes, DragTypes, DeleteTypes, MoveTypes DEF SortableCell
<1>4. CASE TimerFires
  BY <1>4, TimerTypes
<1>5. CASE Leave \/ UNCHANGED vars
  BY <1>5, LeaveTypes
<1>6. CASE \E s \in Saves : Requests(s) \/ SaveError(s)
  BY <1>6, ServerTypes, AnswerTypes DEF Requests
<1>7. CASE ServerExports \/ ServerCreatesJob
  BY <1>7, FlowTypes
<1> QED
  BY <1>1, <1>2, <1>3, <1>4, <1>5, <1>6, <1>7 DEF Next

\* The page, every request and the row hold well-formed cells whose ids are all
\* different, whatever is added, moved, dragged, deleted or saved when.
THEOREM CellsKeepTheirIds == Spec => []TypeOK
<1>1. Spec => [](TypeOK /\ IdsInv)
  BY InitTypes, StepTypes, PTL DEF Spec
<1> QED
  BY <1>1, PTL

---------------------------------------------------------------------------
(* Saving, as long as no two saves were under way together.  A body that   *)
(* was sent or read is still to be written; what was written is the row.   *)

UnderWay == {"sent", "read"}

SaveInv(s) ==
    /\ save[s].st \in UnderWay => save[s].edit <= edits /\ wanted <= save[s].edit
    /\ save[s].st = "written" => wanted <= since
    /\ save[s].st = "read" =>
         /\ "title" \notin save[s].dirty => stored.title = save[s].body.title
         /\ "content" \notin save[s].dirty => stored.cells = save[s].body.cells
    /\ page = "ready" /\ ~timer =>
         /\ save[s].st \in UnderWay => save[s].body = Shown
         /\ save[s].st = "written" => stored = Shown

Alone == \A s, t \in InFlight : s = t

ExportInv == flow["export"] = "flushed" => wanted <= since

SavedInv ==
    page = "ready" /\ saveStatus = "saved" /\ ~timer /\ InFlight = {}
        => stored = Shown \/ edits = 0

SavingInv ==
    ~overlapped =>
        /\ wanted <= edits
        /\ Alone
        /\ \A s \in Saves : SaveInv(s)
        /\ ExportInv
        /\ SavedInv

LEMMA InitSaving == Init => SavingInv
<1> SUFFICES ASSUME Init PROVE SavingInv
  OBVIOUS
<1>1. \A s \in Saves : save[s].st = "none"
  BY DEF Init, NoSave
<1>2. InFlight = {}
  BY <1>1 DEF InFlight
<1>3. \A s \in Saves : SaveInv(s)
  BY <1>1 DEF SaveInv, UnderWay
<1> QED
  BY <1>2, <1>3 DEF Init, SavingInv, Alone, ExportInv, SavedInv, Flushes

LEMMA LoadSaving ==
  ASSUME TypeOK, IdsInv, SavingInv, Load
  PROVE  SavingInv'
<1>1. edits' = 0 /\ InFlight' = {}
  BY DEF Load, IdsInv, history, InFlight
<1>2. \A s \in Saves : save'[s].st = "none"
  BY <1>1 DEF InFlight
<1>3. \A s \in Saves : SaveInv(s)'
  BY <1>2 DEF SaveInv, UnderWay
<1> QED
  BY <1>1, <1>3 DEF Load, SavingInv, Alone, ExportInv, SavedInv, history

LEMMA EditSaving ==
  ASSUME TypeOK, SavingInv, Edit
  PROVE  SavingInv'
<1> SUFFICES ASSUME ~overlapped' PROVE SavingInv'
  BY DEF SavingInv
<1>1. /\ timer' /\ edits' = edits + 1 /\ edits \in Nat /\ wanted \in Nat
      /\ UNCHANGED <<page, flow, save, stored, since, wanted, overlapped>>
  BY DEF Edit, ScheduleSave, TypeOK
<1>2. ASSUME NEW s \in Saves PROVE SaveInv(s)'
  <2>1. SaveInv(s) /\ save[s].edit \in Nat
    BY <1>1 DEF SavingInv, TypeOK, SaveRecords
  <2> QED
    BY <1>1, <2>1 DEF SaveInv
<1> QED
  BY <1>1, <1>2 DEF SavingInv, Alone, InFlight, ExportInv, SavedInv

LEMMA SendSaving ==
  ASSUME TypeOK, NEW s \in Saves, Send(s), ~overlapped',
         edits' = edits, wanted' <= edits, Shown' = Shown
  PROVE  /\ ~overlapped
         /\ Alone'
         /\ \A r \in Saves : SaveInv(r)'
         /\ InFlight' # {}
<1> DEFINE new == [NoSave EXCEPT !.st = "sent", !.body = Shown, !.edit = edits]
<1>1. save' = [save EXCEPT ![s] = new] /\ ~overlapped /\ InFlight = {}
  BY DEF Send, TypeOK
<1>2. new.st = "sent" /\ new.body = Shown /\ new.edit = edits
  BY DEF NoSave
<1> HIDE DEF new
<1>3. save'[s] = new /\ \A r \in Saves : r # s => save'[r].st = "none"
  BY <1>1 DEF TypeOK, InFlight
<1>4. InFlight' = {s}
  BY <1>2, <1>3 DEF InFlight
<1>5. edits \in Nat
  BY DEF TypeOK
<1>6. ASSUME NEW r \in Saves PROVE SaveInv(r)'
  BY <1>2, <1>3, <1>5 DEF SaveInv, UnderWay
<1> QED
  BY <1>1, <1>4, <1>6 DEF Alone

LEMMA TimerSaving ==
  ASSUME TypeOK, IdsInv, SavingInv, TimerFires
  PROVE  SavingInv'
<1> SUFFICES ASSUME ~overlapped' PROVE SavingInv'
  BY DEF SavingInv
<1>1. UNCHANGED <<page, title, cells, flow, stored, edits, since, wanted>> /\ Shown' = Shown
  BY DEF TimerFires, Shown
<1>2. CASE AutoSave
  <2>1. ~overlapped
    BY <1>2, AutoSlot DEF AutoSave, Send, TypeOK
  <2>2. wanted' <= edits
    BY <1>1, <2>1 DEF SavingInv
  <2>3. Alone' /\ (\A r \in Saves : SaveInv(r)') /\ InFlight' # {}
    BY <1>1, <1>2, <2>2, AutoSlot, SendSaving DEF AutoSave
  <2> QED
    BY <1>1, <2>1, <2>2, <2>3 DEF SavingInv, ExportInv, SavedInv
<1>3. CASE page = "left" /\ UNCHANGED <<save, overlapped>>
  <2>1. ASSUME NEW s \in Saves PROVE SaveInv(s)'
    BY <1>1, <1>3 DEF SavingInv, SaveInv
  <2> QED
    BY <1>1, <1>3, <2>1 DEF SavingInv, Alone, InFlight, ExportInv, SavedInv
<1> QED
  BY <1>2, <1>3 DEF TimerFires

LEMMA FlushSaving ==
  ASSUME TypeOK, IdsInv, SavingInv, ExportNotebook \/ RunAsJob
  PROVE  SavingInv'
<1> SUFFICES ASSUME ~overlapped' PROVE SavingInv'
  BY DEF SavingInv
<1>1. UNCHANGED <<page, title, cells, stored, edits, since>> /\ Shown' = Shown
  BY DEF ExportNotebook, RunAsJob, Shown
<1>2. PICK f \in Flushes : /\ FlushSave(f)
                           /\ f = "export" => wanted' = edits
                           /\ f = "job" => wanted' = wanted
  <2>1. CASE ExportNotebook
    BY <2>1 DEF ExportNotebook, Flushes
  <2>2. CASE RunAsJob
    BY <2>2 DEF RunAsJob, Flushes
  <2> QED
    BY <2>1, <2>2
<1>3. f \in Saves /\ ~overlapped /\ edits \in Nat
  BY <1>2 DEF Saves, FlushSave, Send, TypeOK
<1>4. wanted' <= edits
  BY <1>2, <1>3 DEF SavingInv, Flushes
<1>5. Alone' /\ (\A r \in Saves : SaveInv(r)') /\ InFlight' # {}
  BY <1>1, <1>2, <1>3, <1>4, SendSaving DEF FlushSave
<1>6. ExportInv'
  BY <1>1, <1>2, <1>3 DEF FlushSave, SavingInv, ExportInv, TypeOK, Flushes
<1> QED
  BY <1>1, <1>4, <1>5, <1>6 DEF SavingInv, SavedInv

LEMMA LoadsSaving ==
  ASSUME TypeOK, SavingInv, NEW s \in Saves, ServerLoads(s)
  PROVE  SavingInv'
<1> SUFFICES ASSUME ~overlapped' PROVE SavingInv'
  BY DEF SavingInv
<1> DEFINE cols == {col \in {"title", "content"} :
                      \/ col = "title" /\ save[s].body.title # stored.title
                      \/ col = "content" /\ save[s].body.cells # stored.cells}
<1>1. /\ "title" \notin cols => stored.title = save[s].body.title
      /\ "content" \notin cols => stored.cells = save[s].body.cells
  OBVIOUS
<1>2. /\ save' = [save EXCEPT ![s].st = "read", ![s].dirty = cols] /\ save[s].st = "sent"
      /\ UNCHANGED <<pageVars, flow, stored, history>>
  BY DEF ServerLoads
<1> HIDE DEF cols
<1>3. /\ \A r \in Saves : r # s => save'[r] = save[r]
      /\ save'[s].st = "read" /\ save'[s].body = save[s].body
      /\ save'[s].edit = save[s].edit /\ save'[s].dirty = cols
  BY <1>2 DEF TypeOK, SaveRecords
<1>4. InFlight' = InFlight
  BY <1>2, <1>3 DEF InFlight
<1>5. UNCHANGED <<page, title, cells, saveStatus, timer, edits, since, wanted, overlapped>>
      /\ Shown' = Shown
  BY <1>2 DEF pageVars, history, Shown
<1>6. ASSUME NEW r \in Saves PROVE SaveInv(r)'
  <2>1. SaveInv(r)
    BY <1>5 DEF SavingInv
  <2>2. CASE r = s
    BY <1>1, <1>2, <1>3, <1>5, <2>1, <2>2 DEF SaveInv, UnderWay
  <2>3. CASE r # s
    BY <1>2, <1>3, <1>5, <2>1, <2>3 DEF SaveInv
  <2> QED
    BY <2>2, <2>3
<1> QED
  BY <1>2, <1>4, <1>5, <1>6 DEF SavingInv, Alone, ExportInv, SavedInv

LEMMA WritesSaving ==
  ASSUME TypeOK, IdsInv, SavingInv, NEW s \in Saves, ServerWrites(s)
  PROVE  SavingInv'
<1> SUFFICES ASSUME ~overlapped' PROVE SavingInv'
  BY DEF SavingInv
<1>1. /\ save[s].st = "read" /\ ~overlapped /\ since' = save[s].edit
      /\ save' = [save EXCEPT ![s] = [NoSave EXCEPT !.st = "written"]]
      /\ UNCHANGED <<pageVars, flow, edits, wanted, overlapped>>
  BY DEF ServerWrites
<1>2. SaveInv(s) /\ save[s].body \in Docs
  BY <1>1 DEF SavingInv, TypeOK, SaveRecords
<1>3. stored' = save[s].body
  <2>1. stored' = Doc(save[s].body.title, save[s].body.cells)
    BY <1>1, <1>2 DEF ServerWrites, SaveInv
  <2> QED
    BY <1>2, <2>1 DEF Doc, Docs
<1>4. s \in InFlight /\ \A r \in Saves : r # s => save[r].st = "none"
  BY <1>1 DEF SavingInv, Alone, InFlight
<1>5. save'[s].st = "written" /\ \A r \in Saves : r # s => save'[r].st = "none"
  BY <1>1, <1>4 DEF TypeOK, NoSave
<1>6. UNCHANGED <<page, title, cells, saveStatus, timer, edits, wanted, overlapped>>
      /\ Shown' = Shown
  BY <1>1 DEF pageVars, Shown
<1>7. ASSUME NEW r \in Saves PROVE SaveInv(r)'
  BY <1>1, <1>2, <1>3, <1>5, <1>6 DEF SaveInv, UnderWay
<1>8. InFlight' = {s}
  BY <1>5 DEF InFlight
<1> QED
  BY <1>1, <1>2, <1>6, <1>7, <1>8 DEF SavingInv, SaveInv, UnderWay, Alone, ExportInv, SavedInv

LEMMA AnswerSaving ==
  ASSUME TypeOK, IdsInv, SavingInv, NEW s \in Saves, SaveAnswered(s) \/ SaveError(s)
  PROVE  SavingInv'
<1> SUFFICES ASSUME ~overlapped' PROVE SavingInv'
  BY DEF SavingInv
<1>1. /\ save' = [save EXCEPT ![s] = NoSave] /\ save[s].st # "none"
      /\ UNCHANGED <<page, title, cells, timer, stored, edits, since, overlapped>>
      /\ Shown' = Shown
  BY DEF SaveAnswered, SaveError, history, Shown
<1>2. SaveInv(s)
  BY <1>1 DEF SavingInv
<1>3. \A r \in Saves : save'[r].st = "none"
  BY <1>1 DEF SavingInv, Alone, InFlight, NoSave, TypeOK
<1>4. InFlight' = {}
  BY <1>3 DEF InFlight
<1>5. ASSUME NEW r \in Saves PROVE SaveInv(r)'
  BY <1>3 DEF SaveInv, UnderWay
<1>6. edits \in Nat /\ (wanted' = wanted \/ wanted' = 0)
  BY DEF SaveAnswered, SaveError, history, TypeOK
<1>7. wanted' <= edits'
  BY <1>1, <1>6 DEF SavingInv
<1>8. page # "loading"
  BY <1>1 DEF IdsInv, InFlight
<1>9. CASE SaveAnswered(s)
  <2>1. save[s].st = "written" /\ wanted' = wanted /\ flow' = (IF s \in Flushes THEN [flow EXCEPT ![s] = "flushed"] ELSE flow)
    BY <1>9 DEF SaveAnswered, history, FlushReturns
  <2>2. ExportInv'
    BY <1>1, <1>2, <2>1 DEF SavingInv, SaveInv, ExportInv
  <2>3. SavedInv'
    BY <1>1, <1>2, <2>1 DEF SavedInv, SaveInv
  <2> QED
    BY <1>4, <1>5, <1>7, <2>2, <2>3 DEF SavingInv, Alone
<1>10. CASE SaveError(s)
  <2>1. /\ flow' = (IF s \in Flushes THEN [flow EXCEPT ![s] = "idle"] ELSE flow)
        /\ wanted' = (IF s = "export" THEN 0 ELSE wanted)
        /\ saveStatus' = (IF page = "left" THEN saveStatus ELSE "unsaved")
    BY <1>10 DEF SaveError, FlushReturns, ShowStatus
  <2>2. ExportInv'
    BY <1>1, <2>1 DEF SavingInv, ExportInv, TypeOK, Flushes
  <2>3. SavedInv'
    BY <1>1, <2>1 DEF SavedInv
  <2> QED
    BY <1>4, <1>5, <1>7, <2>2, <2>3 DEF SavingInv, Alone
<1> QED
  BY <1>9, <1>10

LEMMA FlowSaving ==
  ASSUME TypeOK, SavingInv, ServerExports \/ ServerCreatesJob
  PROVE  SavingInv'
<1> SUFFICES ASSUME ~overlapped' PROVE SavingInv'
  BY DEF SavingInv
<1>1. /\ UNCHANGED <<page, title, cells, saveStatus, timer, save, stored, edits, since, overlapped>>
      /\ Shown' = Shown /\ (wanted' = wanted \/ wanted' = 0)
      /\ flow'["export"] # "idle" => flow'["export"] = flow["export"] /\ wanted' = wanted
  BY DEF ServerExports, ServerCreatesJob, history, pageVars, Shown, TypeOK, Flushes
<1>2. edits \in Nat /\ since \in Nat /\ wanted \in Nat
  BY DEF TypeOK
<1>3. ASSUME NEW r \in Saves PROVE SaveInv(r)'
  <2>1. SaveInv(r) /\ save[r].edit \in Nat
    BY <1>1 DEF SavingInv, TypeOK, SaveRecords
  <2> QED
    BY <1>1, <1>2, <2>1 DEF SaveInv
<1> QED
  BY <1>1, <1>2, <1>3 DEF SavingInv, Alone, InFlight, ExportInv, SavedInv

LEMMA LeaveSaving ==
  ASSUME TypeOK, SavingInv, Leave \/ UNCHANGED vars
  PROVE  SavingInv'
<1> SUFFICES ASSUME ~overlapped' PROVE SavingInv'
  BY DEF SavingInv
<1>1. /\ page' = page \/ page' = "left"
      /\ UNCHANGED <<title, cells, saveStatus, timer, flow, save, stored, edits, since, wanted, overlapped>>
      /\ Shown' = Shown
  BY DEF Leave, vars, pageVars, history, Shown
<1>2. ASSUME NEW r \in Saves PROVE SaveInv(r)'
  BY <1>1 DEF SavingInv, SaveInv
<1> QED
  BY <1>1, <1>2 DEF SavingInv, Alone, InFlight, ExportInv, SavedInv

LEMMA StepSaving == TypeOK /\ IdsInv /\ SavingInv /\ [Next]_vars => SavingInv'
<1> SUFFICES ASSUME TypeOK, IdsInv, SavingInv, [Next]_vars PROVE SavingInv'
  OBVIOUS
<1>1. CASE Load
  BY <1>1, LoadSaving
<1>2. CASE Edit
  BY <1>2, EditSaving
<1>3. CASE Toolbar
  BY <1>2, <1>3, FlushSaving DEF Toolbar, HandleTitleChange, AddCell
<1>4. CASE CellControls
  <2>1. PICK id \in CellIds : \/ UpdateCell(id) \/ SortableCell(id) \/ DeleteCell(id) \/ AdvanceFrom(id)
                              \/ \E direction \in {"up", "down"} : MoveCell(id, direction)
    BY <1>4 DEF CellControls, RunCell, CodeCell, MarkdownCell
  <2>2. Edit
    BY <2>1 DEF UpdateCell, SortableCell, HandleDragEnd, DeleteCell, AdvanceFrom, AddCell, MoveCell
  <2> QED
    BY <1>2, <2>2
<1>5. CASE TimerFires
  BY <1>5, TimerSaving
<1>6. CASE Leave \/ UNCHANGED vars
  BY <1>6, LeaveSaving
<1>7. CASE \E s \in Saves : Requests(s) \/ SaveError(s)
  BY <1>7, LoadsSaving, WritesSaving, AnswerSaving DEF Requests
<1>8. CASE ServerExports \/ ServerCreatesJob
  BY <1>8, FlowSaving
<1> QED
  BY <1>1, <1>3, <1>4, <1>5, <1>6, <1>7, <1>8 DEF Next

\* As long as no two saves were under way together, "Saved" with nothing under
\* way means that the row holds what the page shows, and what a finished flush
\* lets export is not older than the click: however edits, the debounce, both
\* flushes, refusals and lost answers come in between.
THEOREM SavedMeansStored == Spec => []SavedIsTrue
<1>1. Init => TypeOK /\ IdsInv /\ SavingInv
  BY InitTypes, InitSaving
<1>2. TypeOK /\ IdsInv /\ SavingInv /\ [Next]_vars => TypeOK' /\ IdsInv' /\ SavingInv'
  BY StepTypes, StepSaving
<1>3. TypeOK /\ SavingInv => SavedIsTrue
  BY DEF TypeOK, SavingInv, ExportInv, SavedInv, SavedIsTrue
<1> QED
  BY <1>1, <1>2, <1>3, PTL DEF Spec
=============================================================================
