----------------------------- MODULE LocalsProof -----------------------------
(***************************************************************************)
(* Proof that editing locals is editing the rows of a table: for every     *)
(* program whose locals are apart, every sequence of keys pressed in views *)
(* of any age implements EditedLocals.                                     *)
(*                                                                         *)
(* The records of a local are many, one for each pc of its location; the   *)
(* table has one row.  The invariant says that they always agree (Rows),   *)
(* and that no record is found for a local that was not written for it     *)
(* (HitOwn, from SlotOwner).                                               *)
(***************************************************************************)
EXTENDS PluginProof

\* All records of a local are the same, or there are none.
Rows(db) ==
    \A v \in Var : \A k \in SlotsOf(v), l \in SlotsOf(v) : db[k] = db[l]

\* The texts of the records are the ones the user typed.
TypedOnly(db) == \A k \in Slot : db[k] # None => db[k].value \in Typed

Table == Rows(names) /\ Rows(types) /\ TypedOnly(names)

-----------------------------------------------------------------------------
(* Slots *)

LEMMA SlotsTyped ==
  ASSUME NEW v \in Var
  PROVE  /\ SlotsOf(v) \subseteq Slot
         /\ Loc[v] \in Location /\ Loc[v].fn \in Func /\ Loc[v].space \in Space
         /\ Loc[v].pc \subseteq Pc
         /\ \A k \in Slot : k \in SlotsOf(v) <=>
               k[1] = Loc[v].fn /\ k[2] = Loc[v].space /\ k[3] \in Loc[v].pc
<1>1. Loc[v] \in Location /\ Loc[v].fn \in Func /\ Loc[v].space \in Space
      /\ Loc[v].pc \subseteq Pc
  BY LocAssumption DEF Location
<1>2. SlotsOf(v) \subseteq Slot
  BY <1>1 DEF SlotsOf, Slot
<1>3. \A k \in Slot : k \in SlotsOf(v) <=>
         k[1] = Loc[v].fn /\ k[2] = Loc[v].space /\ k[3] \in Loc[v].pc
  BY DEF SlotsOf, Slot
<1> QED BY <1>1, <1>2, <1>3

\* What a save and a clear leave in the slots of the local and in others.
LEMMA SavedSlots ==
  ASSUME NEW db, NEW v \in Var, NEW x
  PROVE  \A k \in Slot :
            SaveIn(db, Loc[v].fn, Loc[v], x)[k] =
               IF k \in SlotsOf(v) THEN [value |-> x, offset |-> Loc[v].offset] ELSE db[k]
<1>1. \A k \in Slot : k \in SlotsOf(v) <=>
         k[1] = Loc[v].fn /\ k[2] = Loc[v].space /\ k[3] \in Loc[v].pc
  BY SlotsTyped
<1> QED BY <1>1 DEF SaveIn

LEMMA ClearedSlots ==
  ASSUME NEW db, NEW v \in Var
  PROVE  \A k \in Slot :
            ClearType(db, Loc[v].fn, Loc[v])[k] = IF k \in SlotsOf(v) THEN None ELSE db[k]
<1>1. \A k \in Slot : k \in SlotsOf(v) <=>
         k[1] = Loc[v].fn /\ k[2] = Loc[v].space /\ k[3] \in Loc[v].pc
  BY SlotsTyped
<1> QED BY <1>1 DEF ClearType

\* Writing the records of one local with one value keeps the rows.
LEMMA RowsWritten ==
  ASSUME DisjointSlots, NEW db, Rows(db), NEW v \in Var, NEW e, NEW new,
         \A k \in Slot : new[k] = IF k \in SlotsOf(v) THEN e ELSE db[k]
  PROVE  Rows(new)
<1> SUFFICES ASSUME NEW u \in Var, NEW k \in SlotsOf(u), NEW l \in SlotsOf(u)
             PROVE  new[k] = new[l]
  BY DEF Rows
<1>1. k \in Slot /\ l \in Slot
  BY SlotsTyped
<1>2. CASE u = v
  BY <1>1, <1>2
<1>3. CASE u # v
  <2>1. k \notin SlotsOf(v) /\ l \notin SlotsOf(v)
    BY <1>3 DEF DisjointSlots
  <2>2. db[k] = db[l]
    BY DEF Rows
  <2> QED BY <1>1, <2>1, <2>2
<1> QED BY <1>2, <1>3

-----------------------------------------------------------------------------
(* Records that are found for a local were written for it *)

\* A record at the offset of v that is found where v is in use is v's own.
LEMMA FoundOwn ==
  ASSUME LocalsApart, NEW db, Owned(db), NEW v \in Var,
         NEW h \in Lookups[v], db[<<Loc[v].fn, h[1], h[2]>>] # None,
         EntryAt(v, db[<<Loc[v].fn, h[1], h[2]>>], h[2])
  PROVE  <<Loc[v].fn, h[1], h[2]>> \in SlotsOf(v)
<1> DEFINE k == <<Loc[v].fn, h[1], h[2]>>
<1>1. h \in Space \X Pc /\ Home(h[1]) = Home(Loc[v].space)
  BY LookupsTyped DEF Lookups
<1>2. k \in Slot
  BY <1>1, SlotsTyped DEF Slot
<1>3. PICK u \in Var : k \in SlotsOf(u) /\ db[k].offset = Loc[u].offset
  BY <1>2 DEF Owned
<1>4. Loc[u].fn = Loc[v].fn /\ h[1] = Loc[u].space /\ h[2] \in Loc[u].pc
  BY <1>2, <1>3, SlotsTyped
<1>5. Loc[u].offset = Loc[v].offset /\ InUse(v, h[2])
  BY <1>3 DEF EntryAt
<1>6. SamePlace(v, u)
  BY <1>1, <1>4, <1>5 DEF SamePlace
<1>7. u = v
  BY <1>4, <1>5, <1>6 DEF LocalsApart, DisjointUse
<1> QED BY <1>3, <1>7

\* A text without a bar is read back as it was written.
LEMMA ReadBack ==
  ASSUME PlainTyped, NEW db \in [Slot -> NameEntry \cup {None}], TypedOnly(db),
         NEW f \in Func, NEW s \in Space, NEW p \in Pc
  PROVE  /\ FindName(db, f, s, p) = db[<<f, s, p>>]
         /\ db[<<f, s, p>>] # Throws
<1> DEFINE e == db[<<f, s, p>>]
<1>1. <<f, s, p>> \in Slot /\ e \in NameEntry \cup {None}
  BY DEF Slot
<1>2. CASE e = None
  BY <1>2, EntryAssumption DEF FindName
<1>3. CASE e # None
  <2>1. e.value.base \notin Barred
    BY <1>1, <1>3 DEF TypedOnly, PlainTyped
  <2> QED BY <1>1, <1>3, <2>1, EntryAssumption DEF FindName
<1> QED BY <1>2, <1>3

\* The records that name a local: its own, at the operations where it is in
\* use.
OwnHits(db, v) ==
    {h \in Lookups[v] :
        /\ <<Loc[v].fn, h[1], h[2]>> \in SlotsOf(v)
        /\ db[<<Loc[v].fn, h[1], h[2]>>] # None
        /\ EntryAt(v, db[<<Loc[v].fn, h[1], h[2]>>], h[2])}

LEMMA NameHitsOwn ==
  ASSUME LocalsApart, PlainTyped, NEW db \in [Slot -> NameEntry \cup {None}],
         Owned(db), TypedOnly(db), NEW v \in Var
  PROVE  NameHits(db, v) = OwnHits(db, v)
<1>1. ASSUME NEW h \in Lookups[v]
      PROVE  /\ FindName(db, Loc[v].fn, h[1], h[2]) = db[<<Loc[v].fn, h[1], h[2]>>]
             /\ db[<<Loc[v].fn, h[1], h[2]>>] # Throws
  <2>1. h[1] \in Space /\ h[2] \in Pc
    BY LookupsTyped
  <2> QED BY <2>1, SlotsTyped, ReadBack
<1> QED BY <1>1, FoundOwn DEF NameHits, OwnHits

LEMMA TypeHitsOwn ==
  ASSUME LocalsApart, NEW db, Owned(db), NEW v \in Var
  PROVE  TypeHits(db, v) = OwnHits(db, v)
BY FoundOwn DEF TypeHits, OwnHits, FindType

-----------------------------------------------------------------------------
(* What a local is called and typed, in terms of its own records *)

LEMMA NameOfRow ==
  ASSUME LocalsApart, PlainTyped, NEW db \in [Slot -> NameEntry \cup {None}],
         Owned(db), TypedOnly(db), NEW v \in Var
  PROVE  /\ OwnHits(db, v) = {} => RecoveredName(db, v) = SyncName(v)
         /\ OwnHits(db, v) # {} =>
               \E k \in SlotsOf(v) : db[k] # None /\ RecoveredName(db, v) = db[k].value
<1> DEFINE H == NameHits(db, v)
           last == CHOOSE h \in H : \A g \in H : g = h \/ Before(g, h)
<1>1. H = OwnHits(db, v)
  BY NameHitsOwn
<1>2. CASE H = {}
  BY <1>1, <1>2 DEF RecoveredName
<1>3. CASE H # {}
  <2>1. H \in SUBSET (Space \X Pc)
    BY LookupsTyped DEF NameHits
  <2>2. \E h \in H : \A g \in H : g = h \/ Before(g, h)
    BY <1>3, <2>1, LastHit
  <2>3. last \in H
    BY <2>2
  <2> DEFINE k == <<Loc[v].fn, last[1], last[2]>>
  <2>4. k \in SlotsOf(v) /\ db[k] # None
    BY <1>1, <2>3 DEF OwnHits
  <2>5. last[1] \in Space /\ last[2] \in Pc
    BY <2>1, <2>3
  <2>6. FindName(db, Loc[v].fn, last[1], last[2]) = db[k]
    BY <2>5, SlotsTyped, ReadBack
  <2>7. RecoveredName(db, v) = FindName(db, Loc[v].fn, last[1], last[2]).value
    BY <1>3 DEF RecoveredName
  <2>8. RecoveredName(db, v) = db[k].value
    BY <2>6, <2>7
  <2> HIDE DEF k, last
  <2> QED BY <1>1, <1>3, <2>4, <2>8
<1> QED BY <1>2, <1>3

LEMMA TypeOfRow ==
  ASSUME LocalsApart, NEW db, Owned(db), NEW v \in Var
  PROVE  /\ OwnHits(db, v) = {} \/ v \in Preset => RecoveredType(db, v) = None
         /\ OwnHits(db, v) # {} /\ v \notin Preset =>
               \E k \in SlotsOf(v) : db[k] # None /\ RecoveredType(db, v) = db[k].value
<1> DEFINE H == TypeHits(db, v)
           first == CHOOSE h \in H : \A g \in H : g = h \/ Before(h, g)
<1>1. H = OwnHits(db, v)
  BY TypeHitsOwn
<1>2. CASE H = {} \/ v \in Preset
  BY <1>1, <1>2 DEF RecoveredType
<1>3. CASE H # {} /\ v \notin Preset
  <2>1. H \in SUBSET (Space \X Pc)
    BY LookupsTyped DEF TypeHits
  <2>2. \E h \in H : \A g \in H : g = h \/ Before(h, g)
    BY <1>3, <2>1, FirstHit
  <2>3. first \in H
    BY <2>2
  <2> DEFINE k == <<Loc[v].fn, first[1], first[2]>>
  <2>4. k \in SlotsOf(v) /\ db[k] # None
    BY <1>1, <2>3 DEF OwnHits
  <2>5. FindType(db, Loc[v].fn, first[1], first[2]) = db[k]
    BY DEF FindType
  <2>6. RecoveredType(db, v) = db[k].value
    BY <1>3, <2>5 DEF RecoveredType
  <2> QED BY <1>1, <1>3, <2>4, <2>6
<1> QED BY <1>2, <1>3

\* A local whose own records stay keeps its name and its type.
LEMMA NameOfOwnSlots ==
  ASSUME LocalsApart, PlainTyped, NEW v \in Var,
         NEW old \in [Slot -> NameEntry \cup {None}], Owned(old), TypedOnly(old),
         NEW new \in [Slot -> NameEntry \cup {None}], Owned(new), TypedOnly(new),
         \A k \in SlotsOf(v) : new[k] = old[k]
  PROVE  RecoveredName(new, v) = RecoveredName(old, v)
<1>0. Loc[v].fn \in Func
  BY SlotsTyped
<1> DEFINE H == NameHits(old, v)
           last == CHOOSE h \in H : \A g \in H : g = h \/ Before(g, h)
<1>1. NameHits(new, v) = H
  <2>1. OwnHits(new, v) = OwnHits(old, v)
    BY DEF OwnHits
  <2> QED BY <2>1, NameHitsOwn
<1>2. CASE H = {}
  BY <1>1, <1>2 DEF RecoveredName
<1>3. CASE H # {}
  <2>1. H \in SUBSET (Space \X Pc)
    BY LookupsTyped DEF NameHits
  <2>2. \E h \in H : \A g \in H : g = h \/ Before(g, h)
    BY <1>3, <2>1, LastHit
  <2>3. last \in H
    BY <2>2
  <2>4. <<Loc[v].fn, last[1], last[2]>> \in SlotsOf(v)
    BY <2>3, NameHitsOwn DEF OwnHits
  <2>5. last[1] \in Space /\ last[2] \in Pc
    BY <2>1, <2>3
  <2> DEFINE k == <<Loc[v].fn, last[1], last[2]>>
  <2>6. FindName(new, Loc[v].fn, last[1], last[2]) = new[k]
    BY <1>0, <2>5, ReadBack
  <2>7. FindName(old, Loc[v].fn, last[1], last[2]) = old[k]
    BY <1>0, <2>5, ReadBack
  <2>8. /\ RecoveredName(new, v) = FindName(new, Loc[v].fn, last[1], last[2]).value
        /\ RecoveredName(old, v) = FindName(old, Loc[v].fn, last[1], last[2]).value
    BY <1>1, <1>3 DEF RecoveredName
  <2>9. new[k] = old[k]
    BY <2>4
  <2> QED BY <2>6, <2>7, <2>8, <2>9
<1> QED BY <1>2, <1>3

LEMMA TypeOfOwnSlots ==
  ASSUME LocalsApart, NEW v \in Var,
         NEW old, Owned(old), NEW new, Owned(new),
         \A k \in SlotsOf(v) : new[k] = old[k]
  PROVE  RecoveredType(new, v) = RecoveredType(old, v)
<1> DEFINE H == TypeHits(old, v)
           first == CHOOSE h \in H : \A g \in H : g = h \/ Before(h, g)
<1>1. TypeHits(new, v) = H
  <2>1. OwnHits(new, v) = OwnHits(old, v)
    BY DEF OwnHits
  <2> QED BY <2>1, TypeHitsOwn
<1>2. CASE H = {} \/ v \in Preset
  BY <1>1, <1>2 DEF RecoveredType
<1>3. CASE H # {} /\ v \notin Preset
  <2>1. H \in SUBSET (Space \X Pc)
    BY LookupsTyped DEF TypeHits
  <2>2. \E h \in H : \A g \in H : g = h \/ Before(h, g)
    BY <1>3, <2>1, FirstHit
  <2>3. first \in H
    BY <2>2
  <2>4. <<Loc[v].fn, first[1], first[2]>> \in SlotsOf(v)
    BY <2>3, TypeHitsOwn DEF OwnHits
  <2>5. FindType(new, Loc[v].fn, first[1], first[2])
           = FindType(old, Loc[v].fn, first[1], first[2])
    BY <2>4 DEF FindType
  <2> QED BY <1>1, <1>3, <2>5 DEF RecoveredType
<1> QED BY <1>2, <1>3
-----------------------------------------------------------------------------
(* The invariant, and what an edit does to the rows *)

\* Everything a step needs to know of the records before and after it.
Sound == TypeOK /\ SlotOwner /\ Table

LEMMA TableKept ==
  ASSUME LocalsApart, Sound, [Next]_vars
  PROVE  Table'
<1> USE DEF Table
<1>1. CASE UNCHANGED <<names, types>>
  BY <1>1 DEF Sound, Rows, TypedOnly
<1>2. ASSUME NEW v \in Var, NEW n \in Typed,
             names' = SaveName(names, Loc[v].fn, Loc[v], n), UNCHANGED types
      PROVE  Table'
  <2>1. \A k \in Slot : names'[k] =
           IF k \in SlotsOf(v) THEN [value |-> n, offset |-> Loc[v].offset] ELSE names[k]
    BY <1>2, SavedSlots DEF SaveName
  <2>2. Rows(names)'
    <3>1. Rows(names')
      BY <2>1, RowsWritten DEF LocalsApart, Sound
    <3> QED BY <3>1 DEF Rows
  <2>3. TypedOnly(names)'
    <3>1. ASSUME NEW k \in Slot, names'[k] # None
          PROVE  names'[k].value \in Typed
      BY <2>1, <3>1 DEF Sound, TypedOnly
    <3> QED BY <3>1 DEF TypedOnly
  <2> QED BY <1>2, <2>2, <2>3 DEF Sound, Rows
<1>3. ASSUME NEW v \in Var, NEW t,
             types' = SaveType(types, Loc[v].fn, Loc[v], t), UNCHANGED names
      PROVE  Table'
  <2>1. \A k \in Slot : types'[k] =
           IF k \in SlotsOf(v) THEN [value |-> t, offset |-> Loc[v].offset] ELSE types[k]
    BY <1>3, SavedSlots DEF SaveType
  <2>2. Rows(types')
    BY <2>1, RowsWritten DEF LocalsApart, Sound
  <2> QED BY <1>3, <2>2 DEF Sound, Rows, TypedOnly
<1>4. ASSUME NEW v \in Var,
             types' = ClearType(types, Loc[v].fn, Loc[v]), UNCHANGED names
      PROVE  Table'
  <2>1. \A k \in Slot : types'[k] = IF k \in SlotsOf(v) THEN None ELSE types[k]
    BY <1>4, ClearedSlots
  <2>2. Rows(types')
    BY <2>1, RowsWritten DEF LocalsApart, Sound
  <2> QED BY <1>4, <2>2 DEF Sound, Rows, TypedOnly
<1> QED BY RecordSteps, <1>1, <1>2, <1>3, <1>4 DEF Sound

\* Saving a name changes the name of that local, if it is in use at one of
\* the operations its records are for, and no other name.
LEMMA NameRow ==
  ASSUME LocalsApart, PlainTyped, Sound, Sound', NEW v \in Var, NEW n \in Typed,
         names' = SaveName(names, Loc[v].fn, Loc[v], n)
  PROVE  /\ \A u \in Var \ {v} : RecoveredName(names', u) = RecoveredName(names, u)
         /\ RecoveredName(names', v) \in {n, RecoveredName(names, v)}
         /\ (\E p \in Loc[v].pc : InUse(v, p)) => RecoveredName(names', v) = n
<1>0. /\ names \in [Slot -> NameEntry \cup {None}] /\ Owned(names) /\ TypedOnly(names)
      /\ names' \in [Slot -> NameEntry \cup {None}] /\ Owned(names') /\ TypedOnly(names')
  BY DEF Sound, TypeOK, SlotOwner, Table, Owned, TypedOnly
<1>1. \A k \in Slot : names'[k] =
         IF k \in SlotsOf(v) THEN [value |-> n, offset |-> Loc[v].offset] ELSE names[k]
  BY SavedSlots DEF SaveName
<1>2. ASSUME NEW u \in Var \ {v}
      PROVE  RecoveredName(names', u) = RecoveredName(names, u)
  <2>1. \A k \in SlotsOf(u) : k \in Slot /\ k \notin SlotsOf(v)
    BY SlotsTyped DEF LocalsApart, DisjointSlots
  <2>2. \A k \in SlotsOf(u) : names'[k] = names[k]
    BY <1>1, <2>1
  <2> QED BY <1>0, <2>2, NameOfOwnSlots
<1>3. ASSUME NEW k \in SlotsOf(v)
      PROVE  names'[k].value = n
  BY <1>1, SlotsTyped
<1>4. OwnHits(names', v) # {} => RecoveredName(names', v) = n
  BY <1>0, <1>3, NameOfRow
<1>5. ASSUME NEW h \in Lookups[v], <<Loc[v].fn, h[1], h[2]>> \in SlotsOf(v), InUse(v, h[2])
      PROVE  h \in OwnHits(names', v)
  <2>1. <<Loc[v].fn, h[1], h[2]>> \in Slot
    BY <1>5, SlotsTyped
  <2>2. names'[<<Loc[v].fn, h[1], h[2]>>] = [value |-> n, offset |-> Loc[v].offset]
    BY <1>1, <1>5, <2>1
  <2>3. [value |-> n, offset |-> Loc[v].offset] \in NameEntry
    BY SlotsTyped, PluginAssumption DEF NameEntry, Location
  <2> QED BY <1>5, <2>2, <2>3, EntryAssumption DEF OwnHits, EntryAt
<1>6. OwnHits(names', v) = {} => OwnHits(names, v) = {}
  BY <1>5 DEF OwnHits, EntryAt
<1>7. OwnHits(names', v) = {} => RecoveredName(names', v) = RecoveredName(names, v)
  BY <1>0, <1>6, NameOfRow
<1>8. ASSUME NEW p \in Loc[v].pc, InUse(v, p)
      PROVE  OwnHits(names', v) # {}
  <2>1. <<Loc[v].space, p>> \in Lookups[v]
    BY SlotsTyped DEF Lookups, Ops, Vars
  <2>2. <<Loc[v].fn, Loc[v].space, p>> \in SlotsOf(v)
    BY DEF SlotsOf
  <2> QED BY <1>5, <1>8, <2>1, <2>2
<1> QED BY <1>2, <1>4, <1>7, <1>8

\* Saving a type changes the type of that local and of no other.
LEMMA TypeRow ==
  ASSUME LocalsApart, Sound, Sound', NEW v \in Var, NEW t \in TypeName,
         types' = SaveType(types, Loc[v].fn, Loc[v], t)
  PROVE  /\ \A u \in Var \ {v} : RecoveredType(types', u) = RecoveredType(types, u)
         /\ RecoveredType(types', v) \in {t, RecoveredType(types, v)}
<1>0. Owned(types) /\ Owned(types')
  BY DEF Sound, SlotOwner, Owned
<1>1. \A k \in Slot : types'[k] =
         IF k \in SlotsOf(v) THEN [value |-> t, offset |-> Loc[v].offset] ELSE types[k]
  BY SavedSlots DEF SaveType
<1>2. ASSUME NEW u \in Var \ {v}
      PROVE  RecoveredType(types', u) = RecoveredType(types, u)
  <2>1. \A k \in SlotsOf(u) : k \in Slot /\ k \notin SlotsOf(v)
    BY SlotsTyped DEF LocalsApart, DisjointSlots
  <2>2. \A k \in SlotsOf(u) : types'[k] = types[k]
    BY <1>1, <2>1
  <2> QED BY <1>0, <2>2, TypeOfOwnSlots
<1>3. ASSUME NEW k \in SlotsOf(v)
      PROVE  types'[k].value = t
  BY <1>1, SlotsTyped
<1>4. OwnHits(types', v) # {} /\ v \notin Preset => RecoveredType(types', v) = t
  BY <1>0, <1>3, TypeOfRow
<1>5. ASSUME NEW h \in Lookups[v], <<Loc[v].fn, h[1], h[2]>> \in SlotsOf(v), InUse(v, h[2])
      PROVE  h \in OwnHits(types', v)
  <2>1. <<Loc[v].fn, h[1], h[2]>> \in Slot
    BY <1>5, SlotsTyped
  <2>2. types'[<<Loc[v].fn, h[1], h[2]>>] = [value |-> t, offset |-> Loc[v].offset]
    BY <1>1, <1>5, <2>1
  <2>3. [value |-> t, offset |-> Loc[v].offset] \in TypeEntry
    BY SlotsTyped DEF TypeEntry, Location
  <2> QED BY <1>5, <2>2, <2>3, EntryAssumption DEF OwnHits, EntryAt
<1>6. OwnHits(types', v) = {} => OwnHits(types, v) = {}
  BY <1>5 DEF OwnHits, EntryAt
<1>7. OwnHits(types', v) = {} \/ v \in Preset
         => RecoveredType(types', v) = RecoveredType(types, v)
  BY <1>0, <1>6, TypeOfRow
<1> QED BY <1>2, <1>4, <1>7

\* Clearing takes the type from that local and from no other.
LEMMA ClearRow ==
  ASSUME LocalsApart, Sound, Sound', NEW v \in Var,
         types' = ClearType(types, Loc[v].fn, Loc[v])
  PROVE  /\ \A u \in Var \ {v} : RecoveredType(types', u) = RecoveredType(types, u)
         /\ RecoveredType(types', v) = None
<1>0. Owned(types) /\ Owned(types')
  BY DEF Sound, SlotOwner, Owned
<1>1. \A k \in Slot : types'[k] = IF k \in SlotsOf(v) THEN None ELSE types[k]
  BY ClearedSlots
<1>2. ASSUME NEW u \in Var \ {v}
      PROVE  RecoveredType(types', u) = RecoveredType(types, u)
  <2>1. \A k \in SlotsOf(u) : k \in Slot /\ k \notin SlotsOf(v)
    BY SlotsTyped DEF LocalsApart, DisjointSlots
  <2>2. \A k \in SlotsOf(u) : types'[k] = types[k]
    BY <1>1, <2>1
  <2> QED BY <1>0, <2>2, TypeOfOwnSlots
<1>3. \A k \in SlotsOf(v) : types'[k] = None
  BY <1>1, SlotsTyped
<1>4. OwnHits(types', v) = {}
  BY <1>3 DEF OwnHits
<1> QED BY <1>0, <1>2, <1>4, TypeOfRow

LEMMA InitTable == Init => Table
<1> SUFFICES ASSUME Init PROVE Table
  OBVIOUS
<1>1. \A k \in Slot : names[k] = None /\ types[k] = None
  BY DEF Init, NoNames, NoTypes
<1>2. \A v \in Var : SlotsOf(v) \subseteq Slot
  BY SlotsTyped
<1> QED BY <1>1, <1>2 DEF Table, Rows, TypedOnly

-----------------------------------------------------------------------------
(* Theorems *)

\* In every program whose locals are apart, no sequence of keys, callbacks,
\* stale views and changes in IDA does anything to the names and types that
\* the decompilations recover but change one row of the table at a time, and
\* that to what the user typed.
THEOREM EditsImplementTable ==
  ASSUME LocalsApart, PlainTyped
  PROVE  Spec => LocalsEdited
<1>1. Init => Sound
  <2>1. Init => TypeOK
    BY PluginAssumption, NameAssumption
    DEF Init, TypeOK, NoNames, NoTypes, Global
  <2>2. Init => SlotOwner
    BY DEF Init, SlotOwner, Owned, NoNames, NoTypes
  <2> QED BY <2>1, <2>2, InitTable DEF Sound
<1>2. Spec => []Sound
  <2>1. TypeOK /\ SlotOwner /\ Table /\ [Next]_vars => Table'
    BY TableKept DEF Sound
  <2> QED BY <2>1, InitTable, TypeCorrect, RecordsOwned, PTL DEF Spec, Sound
<1>3. Init => Locals!Init
  <2> SUFFICES ASSUME Init PROVE Locals!Init
    OBVIOUS
  <2>1. ASSUME NEW v \in Var
        PROVE  OwnHits(names, v) = {} /\ OwnHits(types, v) = {}
    BY SlotsTyped DEF Init, NoNames, NoTypes, OwnHits
  <2>2. \A v \in Var : RecoveredName(names, v) = SyncName(v)
    BY <1>1, <2>1, NameOfRow DEF Sound, TypeOK, SlotOwner, Table
  <2>3. \A v \in Var : RecoveredType(types, v) = None
    BY <1>1, <2>1, TypeOfRow DEF Sound, SlotOwner
  <2> QED BY <2>2, <2>3 DEF Locals!Init
<1>4. ASSUME Sound, Sound', [Next]_vars
      PROVE  [Locals!Next]_<<[v \in Var |-> RecoveredName(names, v)],
                             [v \in Var |-> RecoveredType(types, v)]>>
  <2> DEFINE row == [v \in Var |-> RecoveredName(names, v)]
             kind == [v \in Var |-> RecoveredType(types, v)]
             rowNext == [v \in Var |-> RecoveredName(names', v)]
             kindNext == [v \in Var |-> RecoveredType(types', v)]
  <2>1. CASE UNCHANGED <<names, types>>
    BY <2>1
  <2>2. ASSUME NEW v \in Var, NEW n \in Typed,
               names' = SaveName(names, Loc[v].fn, Loc[v], n), UNCHANGED types
        PROVE  Locals!Next \/ (rowNext = row /\ kindNext = kind)
    <3>1. /\ \A u \in Var \ {v} : RecoveredName(names', u) = RecoveredName(names, u)
          /\ RecoveredName(names', v) \in {n, RecoveredName(names, v)}
      BY <1>4, <2>2, NameRow
    <3>2. rowNext = [row EXCEPT ![v] = n] \/ rowNext = row
      BY <3>1
    <3>3. kindNext = kind
      BY <2>2
    <3> QED BY <3>2, <3>3 DEF Locals!Next, Locals!Rename
  <2>3. ASSUME NEW v \in Var, NEW t \in TypeName,
               types' = SaveType(types, Loc[v].fn, Loc[v], t), UNCHANGED names
        PROVE  Locals!Next \/ (rowNext = row /\ kindNext = kind)
    <3>1. /\ \A u \in Var \ {v} : RecoveredType(types', u) = RecoveredType(types, u)
          /\ RecoveredType(types', v) \in {t, RecoveredType(types, v)}
      BY <1>4, <2>3, TypeRow
    <3>2. kindNext = [kind EXCEPT ![v] = t] \/ kindNext = kind
      BY <3>1
    <3>3. rowNext = row
      BY <2>3
    <3> QED BY <3>2, <3>3 DEF Locals!Next, Locals!Retype
  <2>4. ASSUME NEW v \in Var,
               types' = ClearType(types, Loc[v].fn, Loc[v]), UNCHANGED names
        PROVE  Locals!Next \/ (rowNext = row /\ kindNext = kind)
    <3>1. /\ \A u \in Var \ {v} : RecoveredType(types', u) = RecoveredType(types, u)
          /\ RecoveredType(types', v) = None
      BY <1>4, <2>4, ClearRow
    <3>2. kindNext = [kind EXCEPT ![v] = None]
      BY <3>1
    <3>3. rowNext = row
      BY <2>4
    <3> QED BY <3>2, <3>3 DEF Locals!Next, Locals!Clear
  <2>5. \/ UNCHANGED <<names, types>>
        \/ Locals!Next \/ (rowNext = row /\ kindNext = kind)
    BY <1>4, RecordSteps, <2>2, <2>3, <2>4 DEF Sound
  <2> QED BY <2>1, <2>5
<1>5. Sound /\ Sound' /\ [Next]_vars =>
         [Locals!Next]_<<[v \in Var |-> RecoveredName(names, v)],
                        [v \in Var |-> RecoveredType(types, v)]>>
  BY <1>4
<1>6. Spec => Init /\ [][Next]_vars
  BY PTL DEF Spec
<1> QED BY <1>2, <1>3, <1>5, <1>6, PTL DEF LocalsEdited, Locals!Spec

\* If moreover each local is in use at one of the operations its records are
\* for, the next decompilation calls it by the name the user typed.
THEOREM TypedNameTaken ==
  ASSUME LocalsApart, PlainTyped, RecordsReached
  PROVE  Spec => RenameTakes
<1> DEFINE Taken ==
      \A w \in views, i \in Item, n \in Name :
          RenameLocal(w, i, n) => RecoveredName(names', handler'.at) = n
<1>1. Spec => []Sound
  <2>1. TypeOK /\ SlotOwner /\ Table /\ [Next]_vars => Table'
    BY TableKept DEF Sound
  <2> QED BY <2>1, InitTable, TypeCorrect, RecordsOwned, PTL DEF Spec, Sound
<1>2. Sound /\ Sound' => Taken
  <2> SUFFICES ASSUME Sound, Sound', NEW w \in views, NEW i \in Item, NEW n \in Name,
                      RenameLocal(w, i, n)
               PROVE  RecoveredName(names', handler'.at) = n
    OBVIOUS
  <2>1. PICK v \in Var : /\ Resolves(w, i, v)
                         /\ n \in Typed
                         /\ names' = SaveName(names, w.fn, Loc[v], n)
                         /\ handler' = Running("redraw", w, v)
    BY DEF RenameLocal
  <2>2. w.fn = Loc[v].fn
    BY <2>1, TargetTyped DEF Sound
  <2>3. handler'.at = v
    BY <2>1, RunningFields
  <2> QED BY <2>1, <2>2, <2>3, NameRow DEF RecordsReached
<1> QED BY <1>1, <1>2, PTL DEF RenameTakes
=============================================================================
