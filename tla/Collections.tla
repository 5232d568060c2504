---------------------------- MODULE Collections ----------------------------
(***************************************************************************)
(* NSArray, NSDictionary, NSSet and their mutable and Core Foundation      *)
(* variants: one collection of a given kind, filled by guest code, with    *)
(* copies made of it and an enumeration in progress.                       *)
(*                                                                         *)
(* Members are plain objects; two of them may be equal (isEqual:), and     *)
(* unequal ones may have the same hash.  Keys are immutable, so that       *)
(* copying one retains it.  Every method is the sequence of retains and    *)
(* releases it makes (`Apply'), and its change of the collection.          *)
(***************************************************************************)
EXTENDS Integers, Sequences, FiniteSets, FiniteSetsExt, SequencesExt

CONSTANTS Elements,
          Stored,          \* those that are stored as values
          IsEqual(_, _),   \* the isEqual: of the members
          HashOf(_),       \* their hash
          Hashes,
          Kinds,           \* the kinds of collection to try
          MaxItems,        \* bound on the size of a collection
          MaxHeld,         \* bound on the guest's references to an object
          MaxLeaks,        \* bound on the references that are lost
          BatchLen         \* the buffer of a fast enumeration

ASSUME CollectionsConstants ==
    /\ Stored \subseteq Elements
    /\ Kinds \subseteq {"array", "dictionary", "set", "cf_plain", "cf_types"}
    /\ {MaxItems, MaxHeld, MaxLeaks, BatchLen} \subseteq Nat \ {0}
    /\ \A a, b \in Elements : IsEqual(a, b) => HashOf(a) = HashOf(b)

noObject == "nil"
noCopy == [there |-> FALSE, items |-> <<>>, released |-> FALSE]
noCursor == [on |-> FALSE, rest |-> <<>>, fast |-> FALSE, state |-> 0, seen |-> <<>>, done |-> FALSE]
emptyTable == [map |-> [h \in Hashes |-> <<>>], count |-> 0]

VARIABLES
    kind,      \* the class of the collection
    array,     \* ArrayHostObject::array
    table,     \* DictionaryHostObject; of a set, the keys count
    order,     \* in which order the HashMap goes through its hashes
    copied,    \* an array or dictionary made from the collection
    cursor,    \* an enumeration of the collection
    refs,      \* reference counts of the members, 0 when deallocated
    owned,     \* references held by guest code
    leaks      \* references nobody will ever give back

collVars == <<kind, array, table, order, copied, cursor, refs, owned, leaks>>

---------------------------------------------------------------------------
(* retain and release *)

Retain(o) == [retain |-> TRUE, obj |-> o]
Release(o) == [retain |-> FALSE, obj |-> o]
RetainAll(s) == [i \in DOMAIN s |-> Retain(s[i])]
ReleaseAll(s) == [i \in DOMAIN s |-> Release(s[i])]

\* The count can only be changed while the object exists.
Effect(counts, e) ==
    IF counts[e.obj] <= 0 THEN [counts EXCEPT ![e.obj] = -1]
    ELSE [counts EXCEPT ![e.obj] = IF e.retain THEN @ + 1 ELSE @ - 1]

Apply(effects) == refs' = FoldLeft(Effect, refs, effects)

---------------------------------------------------------------------------
(* DictionaryHostObject and CFDictionaryHostObject *)

Retains == kind # "cf_plain"

\* Without callbacks a CFDictionary compares pointers.
EqualKeys(a, b) == IF kind = "cf_plain" THEN a = b ELSE a = b \/ IsEqual(a, b)

Position(t, k) ==
    LET c == t.map[HashOf(k)]
        eq == {i \in DOMAIN c : EqualKeys(c[i][1], k)}
    IN  IF eq = {} THEN 0 ELSE Min(eq)

lookup(t, k) == IF Position(t, k) = 0 THEN noObject ELSE t.map[HashOf(k)][Position(t, k)][2]

Pairs(t) == FlattenSeq([i \in DOMAIN order |-> t.map[order[i]]])
iter_keys(t) == [i \in DOMAIN Pairs(t) |-> Pairs(t)[i][1]]
Values(t) == [i \in DOMAIN Pairs(t) |-> Pairs(t)[i][2]]

\* What DictionaryHostObject::insert does: the key that is already there
\* stays, the retained copy of the new one is kept by nobody.
insert(t, k, v) ==
    LET h == HashOf(k)
        at == Position(t, k)
        counted == IF kind = "set" THEN <<>> ELSE <<Retain(v)>>
    IN  IF at = 0
        THEN [table |-> [map |-> [t.map EXCEPT ![h] = Append(@, <<k, v>>)], count |-> t.count + 1],
              effects |-> <<Retain(k)>> \o counted,
              leak |-> <<>>]
        ELSE [table |-> [t EXCEPT !.map[h][at] = <<@[1], v>>],
              effects |-> <<Retain(k)>> \o counted
                          \o IF kind = "set" THEN <<>> ELSE <<Release(t.map[h][at][2])>>,
              leak |-> <<k>>]

\* DictionaryHostObject::remove and CFDictionaryHostObject::remove.
remove_key(t, k) ==
    LET h == HashOf(k)
        at == Position(t, k)
    IN  IF at = 0 THEN [table |-> t, effects |-> <<>>]
        ELSE [table |-> [map |-> [t.map EXCEPT ![h] = RemoveAt(@, at)], count |-> t.count - 1],
              effects |-> IF ~Retains THEN <<>>
                          ELSE <<Release(t.map[h][at][1])>>
                               \o IF kind = "set" THEN <<>> ELSE <<Release(t.map[h][at][2])>>]

\* CFDictionaryHostObject::insert: count, then remove what was there.
cf_insert(t, k, v) ==
    LET gone == remove_key([t EXCEPT !.count = @ + 1], k)
    IN  [table |-> [gone.table EXCEPT !.map[HashOf(k)] = Append(@, <<k, v>>)],
         effects |-> (IF Retains THEN <<Retain(k), Retain(v)>> ELSE <<>>) \o gone.effects,
         leak |-> <<>>]

Inserted(t, k, v) == IF kind \in {"cf_plain", "cf_types"} THEN cf_insert(t, k, v) ELSE insert(t, k, v)

\* DictionaryHostObject::release
release_table(t) ==
    ReleaseAll(iter_keys(t)) \o IF kind = "set" THEN <<>> ELSE ReleaseAll(Values(t))

\* Keys that come in through another collection are inserted one by one.
InsertAll(t, pairs) ==
    LET Step(acc, p) ==
            LET r == Inserted(acc.table, p[1], p[2])
            IN  [table |-> r.table, effects |-> acc.effects \o r.effects, leak |-> acc.leak \o r.leak]
    IN  FoldLeft(Step, [table |-> t, effects |-> <<>>, leak |-> <<>>], pairs)

Times(s, o) == Cardinality({i \in DOMAIN s : s[i] = o})

---------------------------------------------------------------------------

CollectionsInit ==
    /\ kind \in Kinds
    /\ array = <<>> /\ table = emptyTable
    /\ order \in SetToSeqs(Hashes)
    /\ copied = noCopy /\ cursor = noCursor
    /\ refs = [o \in Elements |-> 1]
    /\ owned = [o \in Elements |-> 1]
    /\ leaks = [o \in Elements |-> 0]

Members == IF kind = "array" THEN array ELSE iter_keys(table)

\* The guest goes on with an enumeration when the members are what they were
\* before a change (the value of a key is replaced, a member is added again).
Mutates ==
    /\ UNCHANGED <<kind, copied, owned>>
    /\ cursor' = IF Members' = Members THEN cursor ELSE noCursor

\* Only objects the guest owns, or finds in the collection, are passed in.
Known(o) == owned[o] > 0 \/ (Retains /\ refs[o] > 0)

(* NSMutableArray *)

ChangesArray(new, effects) ==
    /\ kind = "array"
    /\ array' = new /\ Apply(effects)
    /\ UNCHANGED <<table, order, leaks>>
    /\ Mutates

array_addObject(o) ==
    /\ Known(o) /\ Len(array) < MaxItems
    /\ ChangesArray(Append(array, o), <<Retain(o)>>)

insertObject(o, i) ==
    /\ Known(o) /\ Len(array) < MaxItems /\ i \in 1..(Len(array) + 1)
    /\ ChangesArray(InsertAt(array, i, o), <<Retain(o)>>)

removeObjectAtIndex(i) ==
    /\ i \in DOMAIN array
    /\ ChangesArray(RemoveAt(array, i), <<Release(array[i])>>)

replaceObjectAtIndex(i, o) ==
    /\ i \in DOMAIN array /\ Known(o)
    /\ ChangesArray([array EXCEPT ![i] = o], <<Retain(o), Release(array[i])>>)

removeLastObject ==
    /\ array # <<>>
    /\ ChangesArray(Front(array), <<Release(Last(array))>>)

\* The indices are found first and removed one by one in ascending order,
\* without regard to the shift: with more than one equal object the later
\* removals hit a neighbour or the end (a panic), so that the guest here
\* removes only what is there at most once.
removeObject(o) ==
    /\ Known(o)
    /\ LET to_remove == {i \in DOMAIN array : IsEqual(o, array[i])}
       IN  /\ Cardinality(to_remove) = 1
           /\ ChangesArray(RemoveAt(array, Min(to_remove)), <<Release(array[Min(to_remove)])>>)

removeAllObjects == ChangesArray(<<>>, ReleaseAll(array))

\* dealloc, after which the guest makes a new array.
array_dealloc == ChangesArray(<<>>, ReleaseAll(array))

\* sortUsingFunction: and sortUsingSelector: only permute.
sort == \E p \in SetToSeqs(DOMAIN array) :
            ChangesArray([i \in DOMAIN array |-> array[p[i]]], <<>>)

addObjectsFromArray ==
    /\ copied.there /\ Len(array) + Len(copied.items) <= MaxItems
    /\ ChangesArray(array \o copied.items, RetainAll(copied.items))

(* NSMutableDictionary, NSMutableSet and CFMutableDictionary *)

\* A hash map that gets a new hash may rearrange itself.
ChangesTable(r) ==
    /\ table' = r.table /\ Apply(r.effects)
    /\ order' \in IF \E h \in Hashes : table.map[h] = <<>> /\ r.table.map[h] # <<>>
                  THEN SetToSeqs(Hashes) ELSE {order}
    /\ leaks' = [o \in Elements |-> leaks[o] + Times(r.leak, o)]
    /\ MapThenSumSet(LAMBDA o : leaks'[o], Elements) <= MaxLeaks
    /\ UNCHANGED array
    /\ Mutates

SizeOk(t) == t.count <= MaxItems

setObject(k, v) ==
    /\ kind \in {"dictionary", "cf_plain", "cf_types"} /\ Known(k) /\ Known(v)
    /\ SizeOk(Inserted(table, k, v).table)
    /\ ChangesTable(Inserted(table, k, v))

set_addObject(k) ==
    /\ kind = "set" /\ Known(k)
    /\ SizeOk(insert(table, k, noObject).table)
    /\ ChangesTable(insert(table, k, noObject))

CFDictionaryAddValue(k, v) ==
    /\ kind \in {"cf_plain", "cf_types"} /\ Known(k) /\ Known(v)
    /\ lookup(table, k) = noObject
    /\ SizeOk(cf_insert(table, k, v).table)
    /\ ChangesTable(cf_insert(table, k, v))

removeObjectForKey(k) ==
    /\ kind # "array" /\ Known(k)
    /\ ChangesTable(remove_key(table, k) @@ [leak |-> <<>>])

\* removeAllObjects releases the table at once, CFDictionaryRemoveAllValues
\* removes key after key.
table_removeAllObjects ==
    /\ kind \in {"dictionary", "set"}
    /\ ChangesTable([table |-> emptyTable, effects |-> release_table(table), leak |-> <<>>])

CFDictionaryRemoveAllValues ==
    /\ kind \in {"cf_plain", "cf_types"}
    /\ LET Step(acc, k) == LET r == remove_key(acc.table, k)
                           IN  [table |-> r.table, effects |-> acc.effects \o r.effects, leak |-> <<>>]
       IN  ChangesTable(FoldLeft(Step, [table |-> table, effects |-> <<>>, leak |-> <<>>],
                                 iter_keys(table)))

\* dealloc releases the members, that of a CFDictionary does not.
table_dealloc ==
    /\ kind # "array"
    /\ ChangesTable([table |-> emptyTable,
                     effects |-> IF kind \in {"dictionary", "set"} THEN release_table(table) ELSE <<>>,
                     leak |-> IF kind = "cf_types" THEN iter_keys(table) \o Values(table) ELSE <<>>])

\* unionSet: and addEntriesFromDictionary: with a copy that was made before.
addEntries ==
    /\ kind \in {"dictionary", "set"} /\ copied.there /\ copied.released
    /\ LET ps == IF kind = "set" THEN [i \in DOMAIN copied.items |-> <<copied.items[i], noObject>>]
                 ELSE [i \in 1..(Len(copied.items) \div 2) |->
                          <<copied.items[2 * i - 1], copied.items[2 * i]>>]
           r == InsertAll(table, ps)
       IN  /\ kind = "dictionary" => Len(copied.items) % 2 = 0
           /\ SizeOk(r.table)
           /\ ChangesTable(r)

---------------------------------------------------------------------------
(* Copies and enumerations *)

Copies(items, effects, released) ==
    /\ ~copied.there /\ ~cursor.on
    /\ copied' = [there |-> TRUE, items |-> items, released |-> released]
    /\ Apply(effects)
    /\ UNCHANGED <<kind, array, table, order, cursor, owned, leaks>>

\* copy, mutableCopy, initWithArray: and initWithObjects:
array_copy == kind = "array" /\ Copies(array, RetainAll(array), TRUE)

\* arrayWithObject:, arrayWithObjects: and the like
arrayWithObjects(o) == kind = "array" /\ Known(o) /\ Copies(<<o, o>>, RetainAll(<<o, o>>), TRUE)

subarrayWithRange(i, j) ==
    /\ kind = "array" /\ i <= j /\ j <= Len(array)
    /\ Copies(SubSeq(array, i, j), RetainAll(SubSeq(array, i, j)), TRUE)

\* copy and mutableCopy of a dictionary; its pairs are inserted in a new one.
dict_copy ==
    LET items == FlattenSeq(Pairs(table))
    IN  kind = "dictionary" /\ Copies(items, RetainAll(items), TRUE)

\* A plausible slip: the keys are put in the array as they are.
allKeys_unretained == kind = "dictionary" /\ Copies(iter_keys(table), <<>>, TRUE)

\* allKeys, allValues: the array retains its objects and is autoreleased.
allKeys == kind = "dictionary" /\ Copies(iter_keys(table), RetainAll(iter_keys(table)), TRUE)

allValues == kind = "dictionary" /\ Copies(Values(table), RetainAll(Values(table)), TRUE)

\* allObjects of a set, allKeys of a CFDictionary: the objects are not
\* retained, and the array itself is never released.
allObjects == kind \in {"set", "cf_plain", "cf_types"} /\ Copies(iter_keys(table), <<>>, FALSE)

\* The copy is released or its pool drained.
drop_copy ==
    /\ copied.there
    /\ copied' = noCopy
    /\ Apply(IF copied.released THEN ReleaseAll(copied.items) ELSE <<>>)
    /\ UNCHANGED <<kind, array, table, order, cursor, owned, leaks>>

\* objectEnumerator and reverseObjectEnumerator copy the array.
objectEnumerator(reverse) ==
    /\ kind \in {"array", "set"} /\ ~copied.there
    /\ cursor' = [noCursor EXCEPT !.on = TRUE, !.rest = IF reverse THEN Reverse(Members) ELSE Members]
    /\ UNCHANGED <<kind, array, table, order, copied, refs, owned, leaks>>

nextObject ==
    /\ cursor.on /\ ~cursor.fast /\ ~cursor.done
    /\ cursor' = IF cursor.rest = <<>> THEN [cursor EXCEPT !.done = TRUE]
                 ELSE [cursor EXCEPT !.rest = Tail(@), !.seen = Append(@, Head(cursor.rest))]
    /\ UNCHANGED <<kind, array, table, order, copied, refs, owned, leaks>>

\* A batch of members from the index the last batch ended with.
fast_enumeration_helper(start) ==
    LET last == Min({Len(Members), start + BatchLen})
    IN  [state |-> last, items |-> SubSeq(Members, start + 1, last)]

countByEnumeratingWithState ==
    /\ kind \in {"array", "dictionary", "set"}
    /\ ~copied.there
    /\ ~cursor.on \/ (cursor.fast /\ ~cursor.done)
    /\ LET batch == fast_enumeration_helper(cursor.state)
       IN  cursor' = [on |-> TRUE, rest |-> <<>>, fast |-> TRUE, state |-> batch.state,
                      seen |-> cursor.seen \o batch.items, done |-> batch.items = <<>>]
    /\ Len(cursor'.seen) <= 2 * MaxItems
    /\ UNCHANGED <<kind, array, table, order, copied, refs, owned, leaks>>

---------------------------------------------------------------------------

\* The guest takes and gives up references of its own.
guest_retain(o) ==
    /\ Known(o) /\ owned[o] < MaxHeld
    /\ owned' = [owned EXCEPT ![o] = @ + 1] /\ Apply(<<Retain(o)>>)
    /\ UNCHANGED <<kind, array, table, order, copied, cursor, leaks>>

\* What a dictionary without callbacks holds, the guest must keep.
guest_release(o) ==
    /\ owned[o] > 0
    /\ kind = "cf_plain" => /\ Times(iter_keys(table), o) + Times(Values(table), o) = 0
    /\ owned' = [owned EXCEPT ![o] = @ - 1] /\ Apply(<<Release(o)>>)
    /\ UNCHANGED <<kind, array, table, order, copied, cursor, leaks>>

CollectionsNext ==
    \/ \E o \in Elements :
          \/ array_addObject(o) \/ removeObject(o) \/ set_addObject(o) \/ removeObjectForKey(o)
          \/ guest_retain(o) \/ guest_release(o)
          \/ \E i \in 1..(MaxItems + 1) : insertObject(o, i) \/ replaceObjectAtIndex(i, o)
          \/ \E v \in Stored : setObject(o, v) \/ CFDictionaryAddValue(o, v)
    \/ \E i \in 1..MaxItems : removeObjectAtIndex(i)
    \/ removeLastObject \/ removeAllObjects \/ array_dealloc \/ sort \/ addObjectsFromArray
    \/ table_removeAllObjects \/ CFDictionaryRemoveAllValues \/ table_dealloc \/ addEntries
    \/ array_copy \/ dict_copy \/ (\E o \in Elements : arrayWithObjects(o))
    \/ (\E i, j \in 1..MaxItems : subarrayWithRange(i, j))
    \/ allKeys \/ allValues \/ allObjects \/ drop_copy
    \/ \E reverse \in BOOLEAN : objectEnumerator(reverse)
    \/ nextObject \/ countByEnumeratingWithState

---------------------------------------------------------------------------
(* Properties *)

InTable(o) == Times(iter_keys(table), o) + IF kind = "set" THEN 0 ELSE Times(Values(table), o)

\* The reference count of a member is the number of its owners: the guest, a
\* retaining collection for every place it has in it, and a copy; and of the
\* references that the code loses, which are those of a retained key that
\* replaces the value of one that is there, and those of a CFDictionary when it
\* goes, and no others.  No sequence of insertions, replacements, copies and
\* removals releases an object under one of its owners.
CollectionRefsExact ==
    \A o \in Elements :
        refs[o] = owned[o] + leaks[o] + Times(array, o)
                  + (IF Retains THEN InTable(o) ELSE 0)
                  + (IF copied.released THEN Times(copied.items, o) ELSE 0)

\* The hash table is one: the count is that of the pairs, a pair is under the
\* hash of its key, and no two keys are equal, so that what is found under a
\* key is what was last stored there and removing it leaves none.
TableExact ==
    /\ table.count = Len(Pairs(table))
    /\ \A h \in Hashes : \A i \in DOMAIN table.map[h] :
          /\ HashOf(table.map[h][i][1]) = h
          /\ \A j \in DOMAIN table.map[h] :
                EqualKeys(table.map[h][i][1], table.map[h][j][1]) => i = j

\* An enumeration of a collection whose members stay the same meanwhile gives
\* every member once, in batches as one by one, although a set and a dictionary
\* list their keys anew for each batch ("We assume that order in which objects
\* are reported is consistent between calls!"): also when a value is replaced,
\* or a member added again, between two batches.
EnumeratesOnce ==
    cursor.on =>
        /\ \A o \in Elements : Times(cursor.seen, o) <= Times(Members, o)
        /\ cursor.done => Len(cursor.seen) = Len(Members)

\* Through insertions, replacements, removals and copies of equal and of colliding
\* keys, the counts (apart from what the code is known to lose) and the table stay
\* exact, and so do enumerations that no member comes to or goes from.
CollectionsExact == CollectionRefsExact /\ TableExact /\ EnumeratesOnce

===========================================================================
