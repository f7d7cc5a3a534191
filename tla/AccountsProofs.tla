--------------------------- MODULE AccountsProofs ---------------------------
(***************************************************************************)
(* What every request to the site passes through: the one-time codes and   *)
(* the invite links of accounts, the counters that limit rates, and the    *)
(* cached lists; for any number of requests, codes, guests and changes.    *)
(***************************************************************************)
EXTENDS AuthCodes, Invites, Throttle, Lists, FiniteSetTheorems, TLAPS

-----------------------------------------------------------------------------
(* Cached lists: a list in the cache is current, or is known not to be. *)

Committed == \E w \in Writer : writer[w].at = "committed"

\* A page that may be shown while the rows have version n: it is of these rows, or
\* excused, or about to be deleted.
PageShown(page, n, done) == page.version = n \/ page.excused \/ done

\* The types, one by one.
ListedType == [there : BOOLEAN, page : Page]
ReaderType == [at : {"idle", "missed", "read"}, page : Page]
WriterType == [at : {"idle", "saved", "committed"}, way : {"view", "signal"}]

\* What a reader has in hands is as current as what the cache has.
PagesHold(l, rd, n, done) ==
    /\ l \in ListedType /\ rd \in [Reader -> ReaderType]
    /\ (l.there => PageShown(l.page, n, done))
    /\ \A r \in Reader : rd[r].at = "read" => PageShown(rd[r].page, n, done)

\* The bound on changes covers those that are saved and not committed.
ListsInv ==
    /\ ListsTypeOK
    /\ Changes <= MaxChanges
    /\ PagesHold(listed, reader, rows, Committed)

Saved == {w \in Writer : writer[w].at = "saved"}

\* The writers that have saved and not committed are finitely many.
LEMMA SavedFinite == IsFiniteSet(Saved) /\ Cardinality(Saved) \in Nat
<1>1. IsFiniteSet(Saved)
  BY ListsAssumption, FS_Subset DEF Saved
<1> QED
  BY <1>1, FS_CardinalityType

\* One writer fewer.
LEMMA OneLess ==
    ASSUME NEW S, IsFiniteSet(S), NEW x \in S
    PROVE  /\ Cardinality(S) \in Nat /\ Cardinality(S) > 0
           /\ Cardinality(S \ {x}) = Cardinality(S) - 1
<1>1. Cardinality(S) \in Nat
  BY FS_CardinalityType
<1>2. Cardinality(S \ {x}) = Cardinality(S) - 1
  BY FS_RemoveElement
<1>3. Cardinality(S) # 0
  BY FS_EmptySet
<1> QED
  BY <1>1, <1>2, <1>3

\* The excuse of a page.
LEMMA ExcusedPage ==
    ASSUME NEW page \in Page
    PROVE  Excuse(page) \in Page /\ Excuse(page).excused
BY DEF Excuse, Page

\* Overtaken readers keep their types, and are excused.
LEMMA OvertakenReaders ==
    ASSUME reader \in [Reader -> ReaderType]
    PROVE  /\ Overtaken \in [Reader -> ReaderType]
           /\ \A r \in Reader : Overtaken[r].at = "read" => Overtaken[r].page.excused
<1>1. ASSUME NEW r \in Reader
      PROVE  Overtaken[r] \in ReaderType /\ (Overtaken[r].at = "read" => Overtaken[r].page.excused)
  <2>1. reader[r] \in ReaderType /\ reader[r].page \in Page
    BY DEF ReaderType
  <2>2. Excuse(reader[r].page) \in Page /\ Excuse(reader[r].page).excused
    BY <2>1, ExcusedPage
  <2>3. Overtaken[r] = IF reader[r].at = "read"
                       THEN [reader[r] EXCEPT !.page = Excuse(reader[r].page)] ELSE reader[r]
    BY DEF Overtaken
  <2> QED
    BY <2>1, <2>2, <2>3 DEF ReaderType
<1> QED
  BY <1>1 DEF Overtaken

\* The invariant in terms of the types.
LEMMA ListsParts ==
    ListsInv <=> /\ rows \in 0 .. MaxChanges /\ writer \in [Writer -> WriterType]
                 /\ Changes <= MaxChanges
                 /\ PagesHold(listed, reader, rows, Committed)
BY DEF ListsInv, ListsTypeOK, PagesHold, ListedType, ReaderType, WriterType

\* And after a step.
LEMMA ListsPartsNext ==
    ListsInv' <=> /\ rows' \in 0 .. MaxChanges /\ writer' \in [Writer -> WriterType]
                  /\ Changes' <= MaxChanges
                  /\ PagesHold(listed', reader', rows', Committed')
BY DEF ListsInv, ListsTypeOK, PagesHold, ListedType, ReaderType, WriterType

\* The requests for the list, and what empties the cache.
LEMMA ReaderSteps ==
    ASSUME ListsInv,
           \/ \E r \in Reader : AskList(r) \/ ReadRows(r) \/ FillList(r)
           \/ ListExpires \/ FlushLists
    PROVE  ListsInv'
<1> DEFINE done == Committed
<1>1. /\ rows \in 0 .. MaxChanges /\ listed \in ListedType
      /\ reader \in [Reader -> ReaderType] /\ writer \in [Writer -> WriterType]
      /\ PagesHold(listed, reader, rows, done) /\ Changes <= MaxChanges
  BY ListsParts DEF PagesHold
<1>2. UNCHANGED <<rows, writer>>
  BY DEF AskList, ReadRows, FillList, ListExpires, FlushLists
<1>3. NoPage \in Page /\ [version |-> rows, excused |-> FALSE] \in Page
  BY <1>1, ListsAssumption DEF NoPage, Page
<1>4. done' = done /\ Changes' = Changes
  BY <1>2 DEF Committed, Changes
<1> HIDE DEF done
<1>5. ASSUME NEW r \in Reader, AskList(r) PROVE PagesHold(listed', reader', rows, done)
  BY <1>1, <1>5 DEF AskList, PagesHold, ReaderType
<1>6. ASSUME NEW r \in Reader, ReadRows(r) PROVE PagesHold(listed', reader', rows, done)
  BY <1>1, <1>3, <1>6 DEF ReadRows, PagesHold, ReaderType, PageShown
<1>7. ASSUME NEW r \in Reader, FillList(r) PROVE PagesHold(listed', reader', rows, done)
  <2>1. reader[r].page \in Page /\ PageShown(reader[r].page, rows, done)
    BY <1>1, <1>7 DEF FillList, PagesHold, ReaderType
  <2>2. reader' \in [Reader -> ReaderType]
    BY <1>1, <1>3, <1>7 DEF FillList, ReaderType
  <2>3. ASSUME NEW q \in Reader, reader'[q].at = "read"
        PROVE  PageShown(reader'[q].page, rows, done)
    BY <1>1, <1>7, <2>3 DEF FillList, PagesHold
  <2>4. CASE listed' = listed
    BY <1>1, <2>2, <2>3, <2>4 DEF PagesHold
  <2>5. CASE listed' = [there |-> TRUE, page |-> reader[r].page]
    BY <2>1, <2>2, <2>3, <2>5 DEF ListedType, PagesHold
  <2> QED
    BY <1>7, <2>4, <2>5 DEF FillList
<1>8. ASSUME ListExpires \/ FlushLists PROVE PagesHold(listed', reader', rows, done)
  <2>1. listed' = [there |-> FALSE, page |-> NoPage] /\ reader' = reader
    BY <1>8 DEF ListExpires, FlushLists, Unlisted
  <2>2. PagesHold(listed', reader', rows, done)
    BY <1>1, <1>3, <2>1 DEF ListedType, PagesHold
  <2> QED
    BY <2>2
<1>9. PagesHold(listed', reader', rows, done)
  BY <1>5, <1>6, <1>7, <1>8
<1>10. PagesHold(listed', reader', rows', done')
  BY <1>2, <1>4, <1>9
<1> QED
  BY <1>1, <1>2, <1>4, <1>10, ListsPartsNext DEF done

\* What a change does to the saves under way: none is forgotten.
LEMMA SavedMoves ==
    ASSUME NEW w \in Writer, NEW to \in {"idle", "saved", "committed"}, NEW way,
           writer \in [Writer -> WriterType],
           writer' = [writer EXCEPT ![w] = [at |-> to, way |-> way]]
    PROVE  /\ (writer[w].at = "saved" /\ to # "saved" => Saved' = Saved \ {w})
           /\ (writer[w].at # "saved" /\ to = "saved" => Saved' = Saved \cup {w})
           /\ (writer[w].at # "saved" /\ to # "saved" => Saved' = Saved)
BY DEF Saved

\* What is put in place of the cached list and of the pages in hands, at a change.
LEMMA PagesExcused ==
    ASSUME NEW done \in BOOLEAN, NEW n, NEW l, reader \in [Reader -> ReaderType],
           listed \in ListedType, NoPage \in Page,
           l = Unlisted \/ l = [listed EXCEPT !.page = Excuse(listed.page)]
    PROVE  PagesHold(l, Overtaken, n, done)
<1>1. Excuse(listed.page) \in Page /\ Excuse(listed.page).excused
  BY ExcusedPage DEF ListedType
<1>2. CASE l = Unlisted
  <2>1. l \in ListedType /\ ~l.there
    BY <1>2 DEF Unlisted, ListedType
  <2> QED
    BY <2>1, OvertakenReaders DEF PagesHold, PageShown
<1>3. CASE l = [listed EXCEPT !.page = Excuse(listed.page)]
  <2>1. l = [there |-> listed.there, page |-> Excuse(listed.page)]
    BY <1>3 DEF ListedType
  <2>2. l \in ListedType /\ l.page.excused
    BY <1>1, <2>1 DEF ListedType
  <2> QED
    BY <2>2, OvertakenReaders DEF PagesHold, PageShown
<1> QED
  BY <1>2, <1>3

\* Nobody has changed the cache, and the list is about to be deleted.
LEMMA PagesDone ==
    ASSUME NEW n, NEW m, NEW done, PagesHold(listed, reader, n, done)
    PROVE  PagesHold(listed, reader, m, TRUE)
BY DEF PagesHold, PageShown

\* The changes, and the invalidations that follow them.
LEMMA WriterSteps ==
    ASSUME ListsInv, NEW w \in Writer,
           \/ \E way \in {"view", "signal"} : Signal(w, way)
           \/ Commit(w) \/ SetSetting(w) \/ CommitMessage(w)
           \/ ChangeQuietly(w) \/ InvalidateLater(w)
    PROVE  ListsInv'
<1>1. /\ rows \in 0 .. MaxChanges /\ listed \in ListedType
      /\ reader \in [Reader -> ReaderType] /\ writer \in [Writer -> WriterType]
      /\ PagesHold(listed, reader, rows, Committed) /\ Changes <= MaxChanges
  BY ListsParts DEF PagesHold
<1>2. NoPage \in Page /\ MaxChanges \in Nat /\ Committed \in BOOLEAN /\ Committed' \in BOOLEAN
  BY ListsAssumption DEF NoPage, Page, Committed
<1>3. /\ IsFiniteSet(Saved) /\ Cardinality(Saved) \in Nat /\ rows \in Nat
      /\ Changes = rows + Cardinality(Saved) /\ Changes' = rows' + Cardinality(Saved')
      /\ rows + Cardinality(Saved) <= MaxChanges
  BY <1>1, SavedFinite DEF Changes, Saved
<1>4. /\ writer[w].at \in {"idle", "saved", "committed"} /\ writer[w].way \in {"view", "signal"}
      /\ (w \in Saved <=> writer[w].at = "saved")
  BY <1>1 DEF WriterType, Saved
<1>5. ASSUME NEW way \in {"view", "signal"}, Signal(w, way) PROVE ListsInv'
  <2>1. writer' = [writer EXCEPT ![w] = [at |-> "saved", way |-> way]] /\ writer[w].at = "idle"
    BY <1>5 DEF Signal
  <2>2. writer' \in [Writer -> WriterType] /\ rows' = rows /\ reader' = reader
    BY <1>1, <1>5, <2>1 DEF Signal, WriterType
  <2>3. Committed' = Committed
    BY <1>1, <2>1 DEF Committed
  <2>4. Saved' = Saved \cup {w} /\ w \notin Saved
    BY <1>1, <1>4, <2>1, SavedMoves
  <2>5. Cardinality(Saved') = Cardinality(Saved) + 1 /\ rows + Cardinality(Saved) < MaxChanges
    BY <1>3, <1>5, <2>4, FS_AddElement DEF Signal
  <2>6. Changes' <= MaxChanges
    BY <1>2, <1>3, <2>2, <2>5
  <2>7. listed' = Unlisted \/ listed' = listed
    BY <1>5 DEF Signal
  <2>8. PagesHold(listed', reader', rows', Committed')
    <3>1. CASE listed' = listed
      BY <1>1, <2>2, <2>3, <3>1 DEF PagesHold
    <3>2. CASE listed' = Unlisted
      BY <1>1, <1>2, <2>2, <2>3, <3>2 DEF PagesHold, Unlisted, ListedType
    <3> QED
      BY <2>7, <3>1, <3>2
  <2> QED
    BY <1>1, <2>2, <2>6, <2>8, ListsPartsNext
<1>6. ASSUME Commit(w) PROVE ListsInv'
  <2>1. writer[w].at = "saved" /\ rows' = rows + 1
    BY <1>6 DEF Commit
  <2>2. PICK to \in {"idle", "committed"} :
            /\ writer' = [writer EXCEPT ![w] = [at |-> to, way |-> writer[w].way]]
            /\ (to = "committed" <=> DeletesLater(writer[w].way))
    <3>1. CASE DeletesLater(writer[w].way)
      BY <1>1, <1>6, <3>1 DEF Commit, WriterType
    <3>2. CASE ~DeletesLater(writer[w].way)
      BY <1>1, <1>6, <3>2 DEF Commit, WriterType
    <3> QED
      BY <3>1, <3>2
  <2>3. writer' \in [Writer -> WriterType]
    BY <1>1, <1>4, <2>2 DEF WriterType
  <2>4. Saved' = Saved \ {w} /\ w \in Saved
    BY <1>1, <1>4, <2>1, <2>2, SavedMoves
  <2>5. Cardinality(Saved') = Cardinality(Saved) - 1 /\ Cardinality(Saved) > 0
    BY <1>3, <2>4, OneLess
  <2>6. Changes' <= MaxChanges /\ rows' \in 0 .. MaxChanges
    BY <1>2, <1>3, <2>1, <2>5
  <2>7. CASE writer[w].way = "view"
    <3>1. writer'[w].at = "committed"
      BY <1>1, <2>2, <2>7 DEF DeletesLater
    <3>2. Committed' = TRUE /\ listed' = listed /\ reader' = reader
      BY <1>6, <2>7, <3>1 DEF Committed, Commit
    <3>3. PagesHold(listed', reader', rows', Committed')
      BY <1>1, <3>2, PagesDone
    <3> QED
      BY <2>3, <2>6, <3>3, ListsPartsNext
  <2>8. CASE writer[w].way # "view"
    <3>1. listed' = [listed EXCEPT !.page = Excuse(listed.page)] /\ reader' = Overtaken
      BY <1>6, <2>8 DEF Commit
    <3>2. PagesHold(listed', reader', rows', Committed')
      BY <1>1, <1>2, <3>1, PagesExcused
    <3> QED
      BY <2>3, <2>6, <3>2, ListsPartsNext
  <2> QED
    BY <2>7, <2>8
<1>7. ASSUME CommitThenDelete(w) PROVE ListsInv'
  <2>1. /\ writer' = [writer EXCEPT ![w] = [at |-> "committed", way |-> "view"]]
        /\ writer[w].at = "idle" /\ rows' = rows + 1 /\ UNCHANGED <<listed, reader>>
    BY <1>7 DEF CommitThenDelete
  <2>2. writer' \in [Writer -> WriterType] /\ writer'[w].at = "committed"
    BY <1>1, <2>1 DEF WriterType
  <2>3. Saved' = Saved
    BY <1>1, <1>4, <2>1, SavedMoves
  <2>4. Changes' <= MaxChanges /\ rows' \in 0 .. MaxChanges
    BY <1>2, <1>3, <1>7, <2>1, <2>3 DEF CommitThenDelete
  <2>5. Committed' = TRUE
    BY <2>2 DEF Committed
  <2>6. PagesHold(listed', reader', rows', Committed')
    BY <1>1, <2>1, <2>5, PagesDone
  <2> QED
    BY <2>2, <2>4, <2>6, ListsPartsNext
<1>8. ASSUME ChangeQuietly(w) PROVE ListsInv'
  <2>1. /\ writer' = writer /\ rows' = rows + 1 /\ reader' = Overtaken
        /\ listed' = [listed EXCEPT !.page = Excuse(listed.page)]
    BY <1>8 DEF ChangeQuietly
  <2>2. Saved' = Saved
    BY <2>1 DEF Saved
  <2>3. Changes' <= MaxChanges /\ rows' \in 0 .. MaxChanges
    BY <1>2, <1>3, <1>8, <2>1, <2>2 DEF ChangeQuietly
  <2>4. PagesHold(listed', reader', rows', Committed')
    BY <1>1, <1>2, <2>1, PagesExcused
  <2> QED
    BY <1>1, <2>1, <2>3, <2>4, ListsPartsNext
<1>9. ASSUME InvalidateLater(w) PROVE ListsInv'
  <2>0. /\ writer[w].at = "committed" /\ rows' = rows /\ reader' = Overtaken
        /\ (listed' = Unlisted \/ listed' = [listed EXCEPT !.page = Excuse(listed.page)])
    BY <1>9 DEF InvalidateLater, Invalidate
  <2>1. writer' = [writer EXCEPT ![w] = [at |-> "idle", way |-> writer[w].way]]
    <3>1. writer[w] \in WriterType /\ writer' = [writer EXCEPT ![w].at = "idle"]
      BY <1>1, <1>9 DEF InvalidateLater
    <3>2. [writer[w] EXCEPT !.at = "idle"] = [at |-> "idle", way |-> writer[w].way]
      BY <3>1 DEF WriterType
    <3> QED
      BY <3>1, <3>2
  <2>2. writer' \in [Writer -> WriterType]
    BY <1>1, <1>4, <2>1 DEF WriterType
  <2>3. Saved' = Saved
    BY <1>1, <1>4, <2>0, <2>1, SavedMoves
  <2>4. Changes' <= MaxChanges
    BY <1>3, <2>0, <2>3
  <2>5. PagesHold(listed', reader', rows', Committed')
    BY <1>1, <1>2, <2>0, PagesExcused
  <2> QED
    BY <1>1, <2>0, <2>2, <2>4, <2>5, ListsPartsNext
<1> QED
  BY <1>5, <1>6, <1>7, <1>8, <1>9 DEF SetSetting, CommitMessage

\* The invariant of the cached lists.
THEOREM ListsInvariant == ListsSpec => []ListsInv
<1>1. ListsInit => ListsInv
  <2> SUFFICES ASSUME ListsInit PROVE ListsInv
    OBVIOUS
  <2>1. /\ rows = 0 /\ MaxChanges \in Nat /\ NoPage \in Page /\ ~listed.there
        /\ listed \in ListedType
    BY ListsAssumption DEF ListsInit, Unlisted, NoPage, Page, ListedType
  <2>2. reader \in [Reader -> ReaderType] /\ writer \in [Writer -> WriterType]
    BY <2>1 DEF ListsInit, ReaderType, WriterType
  <2>3. Saved = {} /\ \A r \in Reader : reader[r].at # "read"
    BY DEF ListsInit, Saved
  <2>4. Changes <= MaxChanges
    BY <2>1, <2>3, FS_EmptySet DEF Changes, Saved
  <2>5. PagesHold(listed, reader, rows, Committed)
    BY <2>1, <2>2, <2>3 DEF PagesHold
  <2> QED
    BY <2>1, <2>2, <2>4, <2>5, ListsParts
<1>2. ListsInv /\ [ListsNext]_listsVars => ListsInv'
  <2> SUFFICES ASSUME ListsInv, [ListsNext]_listsVars PROVE ListsInv'
    OBVIOUS
  <2>1. CASE UNCHANGED listsVars
    BY <2>1 DEF listsVars, ListsInv, ListsTypeOK, Changes, PagesHold, Committed
  <2>2. CASE \/ \E r \in Reader : AskList(r) \/ ReadRows(r) \/ FillList(r)
             \/ ListExpires \/ FlushLists
    BY <2>2, ReaderSteps
  <2>3. CASE \E w \in Writer : \/ \E way \in {"view", "signal"} : Signal(w, way)
                              \/ Commit(w) \/ SetSetting(w) \/ CommitMessage(w)
                              \/ ChangeQuietly(w) \/ InvalidateLater(w)
    BY <2>3, WriterSteps
  <2> QED
    BY <2>1, <2>2, <2>3 DEF ListsNext
<1> QED
  BY <1>1, <1>2, PTL DEF ListsSpec

\* A list in the cache shows the rows as they are, or is known not to: every list view
\* of ServiceViewSet, the tickets, the plans and the messenger.
THEOREM ListsAreCurrent == ListsSpec => []ListCurrent
<1>1. ListsInv => ListCurrent
  BY DEF ListsInv, PagesHold, PageShown, Committed, ListCurrent
<1> QED
  BY <1>1, ListsInvariant, PTL

-----------------------------------------------------------------------------
(* The counter of a rate limit. *)

CallerType == [Caller -> {"away", "first", "next"}]

\* The requests that have read the counter and will set it, or increment it.
Before(c, at) == {r \in Caller : c[r] = at}

Callers == Cardinality(Caller)
Firsts == Cardinality(Before(caller, "first"))
Nexts == Cardinality(Before(caller, "next"))

\* What the counter itself reaches.
Most == Limit + Callers - 1

\* The increments under way keep the counter below Most; and each time that a request
\* sets the counter again, one request fewer is left that may do so.
ThrottleInv ==
    /\ ThrottleTypeOK
    /\ counter + Nexts <= Most
    /\ counter <= passed
    /\ (counter = 0 => passed = 0)
    /\ (counter > 0 => Firsts < Callers /\ passed <= (Callers - 1 - Firsts) * Most + counter)
    /\ (~crowded => /\ passed = counter /\ counter <= Limit
                    /\ (counter > 0 => \A r \in Caller : caller[r] # "first")
                    /\ \A r \in Caller : caller[r] = "next" => counter \in 1 .. Limit - 1)

\* Requests that will set the counter, and requests that will increment it, are apart.
LEMMA BeforeCounts ==
    ASSUME NEW c \in CallerType
    PROVE  /\ IsFiniteSet(Before(c, "first")) /\ IsFiniteSet(Before(c, "next"))
           /\ Cardinality(Before(c, "first")) \in Nat /\ Cardinality(Before(c, "next")) \in Nat
           /\ Callers \in Nat
           /\ Cardinality(Before(c, "first")) + Cardinality(Before(c, "next")) <= Callers
<1>1. /\ IsFiniteSet(Before(c, "first")) /\ IsFiniteSet(Before(c, "next")) /\ IsFiniteSet(Caller)
  BY ThrottleAssumption, FS_Subset DEF Before
<1>2. /\ Cardinality(Before(c, "first")) \in Nat /\ Cardinality(Before(c, "next")) \in Nat
      /\ Cardinality(Caller) \in Nat
  BY <1>1, FS_CardinalityType
<1>3. Before(c, "first") \cap Before(c, "next") = {}
  BY DEF Before
<1>4. Cardinality(Before(c, "first") \cup Before(c, "next"))
          = Cardinality(Before(c, "first")) + Cardinality(Before(c, "next"))
  BY <1>1, <1>2, <1>3, FS_Union, FS_EmptySet
<1>5. Before(c, "first") \cup Before(c, "next") \subseteq Caller
  BY DEF Before
<1>6. Cardinality(Before(c, "first") \cup Before(c, "next")) <= Cardinality(Caller)
  BY <1>1, <1>5, FS_Subset
<1> QED
  BY <1>1, <1>2, <1>4, <1>6 DEF Callers

\* A request that has read the counter.
LEMMA BeforeJoined ==
    ASSUME NEW c \in CallerType, NEW r \in Caller, c[r] = "away", NEW at \in {"first", "next"}
    PROVE  LET d == [c EXCEPT ![r] = at] IN
           /\ d \in CallerType
           /\ Cardinality(Before(d, at)) = Cardinality(Before(c, at)) + 1
           /\ \A other \in {"first", "next"} \ {at} : Before(d, other) = Before(c, other)
<1> DEFINE d == [c EXCEPT ![r] = at]
<1>1. d \in CallerType /\ Before(d, at) = Before(c, at) \cup {r} /\ r \notin Before(c, at)
  BY DEF CallerType, Before
<1>2. \A other \in {"first", "next"} \ {at} : Before(d, other) = Before(c, other)
  BY DEF CallerType, Before
<1> HIDE DEF d
<1>3. IsFiniteSet(Before(c, at))
  BY BeforeCounts
<1>4. Cardinality(Before(d, at)) = Cardinality(Before(c, at)) + 1
  BY <1>1, <1>3, FS_AddElement
<1> QED
  BY <1>1, <1>2, <1>4 DEF d

\* A request that goes.
LEMMA BeforeLeft ==
    ASSUME NEW c \in CallerType, NEW r \in Caller, NEW at \in {"first", "next"}, c[r] = at
    PROVE  LET d == [c EXCEPT ![r] = "away"] IN
           /\ d \in CallerType
           /\ Cardinality(Before(c, at)) > 0
           /\ Cardinality(Before(d, at)) = Cardinality(Before(c, at)) - 1
           /\ \A other \in {"first", "next"} \ {at} : Before(d, other) = Before(c, other)
<1> DEFINE d == [c EXCEPT ![r] = "away"]
<1>1. d \in CallerType /\ Before(d, at) = Before(c, at) \ {r} /\ r \in Before(c, at)
  BY DEF CallerType, Before
<1>2. \A other \in {"first", "next"} \ {at} : Before(d, other) = Before(c, other)
  BY DEF CallerType, Before
<1> HIDE DEF d
<1>3. IsFiniteSet(Before(c, at))
  BY BeforeCounts
<1>4. /\ Cardinality(Before(d, at)) = Cardinality(Before(c, at)) - 1
      /\ Cardinality(Before(c, at)) > 0
  BY <1>1, <1>3, OneLess
<1> QED
  BY <1>1, <1>2, <1>4 DEF d

\* The turns that are left.
LEMMA TurnsLeft ==
    ASSUME NEW n \in Nat, NEW f \in Nat, f < n
    PROVE  n - 1 - f \in Nat /\ (n - 1 - f) + 1 <= n /\ n - 1 \in Nat
OBVIOUS

\* One turn of the counter more.
LEMMA OneTurn ==
    ASSUME NEW n \in Nat, NEW most \in Nat
    PROVE  n * most \in Nat /\ (n + 1) * most = n * most + most
OBVIOUS

\* The requests so far leave as many turns as there are requests to come.
LEMMA TurnsKept ==
    ASSUME NEW n \in Nat, NEW m \in Nat, n <= m, NEW most \in Nat
    PROVE  n * most <= m * most
<1>1. PICK d \in Nat : m = n + d
  <2>1. m - n \in Nat /\ m = n + (m - n)
    OBVIOUS
  <2> QED
    BY <2>1
<1>2. m * most = n * most + d * most /\ d * most \in Nat /\ n * most \in Nat
  BY <1>1
<1> QED
  BY <1>2

\* The numbers of the invariant.
LEMMA ThrottleNumbers ==
    ASSUME ThrottleInv
    PROVE  /\ caller \in CallerType /\ crowded \in BOOLEAN
           /\ counter \in Nat /\ passed \in Nat /\ passed <= MaxPassed
           /\ Limit \in Nat \ {0} /\ MaxPassed \in Nat
           /\ Callers \in Nat /\ Firsts \in Nat /\ Nexts \in Nat
           /\ Firsts + Nexts <= Callers
<1>1. caller \in CallerType
  BY DEF ThrottleInv, ThrottleTypeOK, CallerType
<1> QED
  BY <1>1, BeforeCounts, ThrottleAssumption DEF ThrottleInv, ThrottleTypeOK, Firsts, Nexts

\* A request reads the counter.
LEMMA ReadCounterStep ==
    ASSUME ThrottleInv, NEW r \in Caller, ReadCounter(r)
    PROVE  ThrottleInv'
<1>1. /\ caller \in CallerType /\ counter \in Nat /\ Limit \in Nat
      /\ Callers \in Nat /\ Firsts \in Nat /\ Nexts \in Nat /\ Firsts + Nexts <= Callers
  BY ThrottleNumbers
<1>2. UNCHANGED <<counter, passed, crowded>> /\ caller[r] = "away"
  BY DEF ReadCounter
<1>3. CASE counter = 0
  <2>1. caller' = [caller EXCEPT ![r] = "first"]
    BY <1>3 DEF ReadCounter
  <2>2. caller' \in CallerType /\ Nexts' = Nexts
    BY <1>1, <1>2, <2>1, BeforeJoined DEF Nexts
  <2>3. \A q \in Caller : caller'[q] = "next" => caller[q] = "next"
    BY <1>1, <2>1 DEF CallerType
  <2> QED
    BY <1>2, <1>3, <2>2, <2>3 DEF ThrottleInv, ThrottleTypeOK, CallerType, Most, Callers
<1>4. CASE counter # 0 /\ BelowLimit
  <2>1. caller' = [caller EXCEPT ![r] = "next"] /\ counter < Limit
    BY <1>4 DEF ReadCounter, BelowLimit
  <2>2. caller' \in CallerType /\ Nexts' = Nexts + 1 /\ Firsts' = Firsts
    BY <1>1, <1>2, <2>1, BeforeJoined DEF Nexts, Firsts
  <2>3. Firsts' + Nexts' <= Callers /\ Firsts' \in Nat /\ Nexts' \in Nat
    BY <2>2, BeforeCounts DEF Nexts, Firsts
  <2>4. counter + Nexts' <= Most
    <3>1. Nexts + 1 <= Callers
      BY <1>1, <2>2, <2>3
    <3>2. Most = Limit + Callers - 1
      BY DEF Most
    <3>3. counter + (Nexts + 1) <= Most
      BY <1>1, <2>1, <3>1, <3>2
    <3> QED
      BY <2>2, <3>3
  <2>5. \A q \in Caller : caller'[q] = "first" => caller[q] = "first"
    BY <1>1, <2>1 DEF CallerType
  <2>6. counter \in 1 .. Limit - 1
    BY <1>1, <1>4, <2>1
  <2> QED
    BY <1>2, <1>4, <2>2, <2>4, <2>5, <2>6
       DEF ThrottleInv, ThrottleTypeOK, CallerType, Most, Callers
<1>5. CASE counter # 0 /\ ~BelowLimit
  <2>1. caller' = caller
    BY <1>1, <1>2, <1>5 DEF ReadCounter, CallerType
  <2> QED
    BY <1>2, <2>1 DEF ThrottleInv, ThrottleTypeOK, Most, Callers, Firsts, Nexts, Before
<1> QED
  BY <1>3, <1>4, <1>5

\* A request that is admitted alone leaves nobody under way.
LEMMA AdmittedAlone ==
    ASSUME ThrottleInv, NEW r \in Caller, Admit(r), ~crowded'
    PROVE  ~crowded /\ \A q \in Caller : caller'[q] = "away"
BY ThrottleNumbers DEF Admit, CallerType

\* A request sets the counter.
LEMMA SetCounterStep ==
    ASSUME ThrottleInv, NEW r \in Caller, SetCounter(r)
    PROVE  ThrottleInv'
<1>1. /\ caller \in CallerType /\ counter \in Nat /\ passed \in Nat /\ Limit \in Nat \ {0}
      /\ Callers \in Nat /\ Firsts \in Nat /\ Nexts \in Nat /\ Firsts + Nexts <= Callers
      /\ crowded \in BOOLEAN /\ MaxPassed \in Nat
  BY ThrottleNumbers
<1>2. /\ caller[r] = "first" /\ caller' = [caller EXCEPT ![r] = "away"] /\ counter' = 1
      /\ passed < MaxPassed /\ passed' = IF counter = 0 THEN 1 ELSE passed + 1
      /\ crowded' \in BOOLEAN
  BY <1>1 DEF SetCounter, Admit
<1>3. /\ caller' \in CallerType /\ Firsts > 0 /\ Firsts' = Firsts - 1 /\ Nexts' = Nexts
  BY <1>1, <1>2, BeforeLeft DEF Firsts, Nexts
<1>4. Callers' = Callers /\ Most' = Most /\ Most = Limit + Callers - 1
  BY DEF Callers, Most
<1>5. Firsts' \in Nat /\ Firsts' < Callers /\ 1 + Nexts <= Most /\ Most \in Nat
  BY <1>1, <1>3, <1>4
<1>6. passed' \in Nat /\ counter' <= passed' /\ passed' <= MaxPassed /\ counter' \in 0 .. MaxPassed
  BY <1>1, <1>2
<1>7. passed' <= (Callers - 1 - Firsts') * Most + 1
  <2>1. CASE counter = 0
    <3>1. Callers - 1 - Firsts' \in Nat
      BY <1>1, <1>5, TurnsLeft
    <3>2. (Callers - 1 - Firsts') * Most \in Nat
      BY <1>5, <3>1, OneTurn
    <3> QED
      BY <1>2, <2>1, <3>2
  <2>2. CASE counter # 0
    <3> DEFINE n == Callers - 1 - Firsts
    <3>1. /\ Firsts < Callers /\ passed <= n * Most + counter /\ counter + Nexts <= Most
      BY <1>1, <2>2 DEF ThrottleInv
    <3>2. n \in Nat /\ Callers - 1 - Firsts' = n + 1
      BY <1>1, <1>3, <3>1
    <3> HIDE DEF n
    <3>3. (n + 1) * Most = n * Most + Most /\ n * Most \in Nat
      BY <1>5, <3>2, OneTurn
    <3>4. passed + 1 <= n * Most + Most + 1
      BY <1>1, <1>5, <3>1, <3>3
    <3> QED
      BY <1>2, <2>2, <3>2, <3>3, <3>4
  <2> QED
    BY <2>1, <2>2
<1>8. ASSUME ~crowded'
      PROVE  /\ passed' = 1 /\ \A q \in Caller : caller'[q] = "away"
  <2>1. ~crowded /\ \A q \in Caller : caller'[q] = "away"
    BY <1>8, AdmittedAlone DEF SetCounter
  <2>2. ~(counter > 0)
    BY <1>2, <2>1 DEF ThrottleInv
  <2> QED
    BY <1>1, <1>2, <2>1, <2>2
<1> QED
  BY <1>1, <1>2, <1>3, <1>4, <1>5, <1>6, <1>7, <1>8
     DEF ThrottleInv, ThrottleTypeOK, CallerType

\* A request increments the counter.
LEMMA IncrementCounterStep ==
    ASSUME ThrottleInv, NEW r \in Caller, IncrementCounter(r)
    PROVE  ThrottleInv'
<1>1. /\ caller \in CallerType /\ counter \in Nat /\ passed \in Nat /\ Limit \in Nat \ {0}
      /\ Callers \in Nat /\ Firsts \in Nat /\ Nexts \in Nat /\ Firsts + Nexts <= Callers
      /\ crowded \in BOOLEAN /\ MaxPassed \in Nat
  BY ThrottleNumbers
<1>2. /\ caller[r] = "next" /\ caller' = [caller EXCEPT ![r] = "away"] /\ counter' = counter + 1
      /\ passed < MaxPassed /\ passed' = IF counter = 0 THEN 1 ELSE passed + 1
      /\ crowded' \in BOOLEAN
  BY <1>1 DEF IncrementCounter, Admit
<1>3. /\ caller' \in CallerType /\ Nexts > 0 /\ Nexts' = Nexts - 1 /\ Firsts' = Firsts
  BY <1>1, <1>2, BeforeLeft DEF Firsts, Nexts
<1>4. Callers' = Callers /\ Most' = Most /\ Most = Limit + Callers - 1
  BY DEF Callers, Most
<1>5. /\ Firsts' \in Nat /\ Firsts' < Callers /\ Most \in Nat
      /\ counter + Nexts <= Most /\ counter' + Nexts' <= Most
  BY <1>1, <1>2, <1>3, <1>4 DEF ThrottleInv
<1>6. /\ counter <= passed /\ passed' \in Nat /\ counter' <= passed' /\ passed' <= MaxPassed
      /\ counter' \in 0 .. MaxPassed
  BY <1>1, <1>2 DEF ThrottleInv
<1>7. passed' <= (Callers - 1 - Firsts) * Most + counter'
  <2>1. (Callers - 1 - Firsts) * Most \in Nat
    <3>1. Callers - 1 - Firsts \in Nat
      BY <1>1, <1>3, <1>5
    <3> QED
      BY <1>5, <3>1, OneTurn
  <2> DEFINE turns == (Callers - 1 - Firsts) * Most
  <2>2. turns \in Nat /\ (counter > 0 => passed <= turns + counter)
    BY <2>1 DEF ThrottleInv
  <2> HIDE DEF turns
  <2>3. passed' <= turns + counter'
    BY <1>1, <1>2, <2>2
  <2> QED
    BY <2>3 DEF turns
<1>8. ASSUME ~crowded'
      PROVE  /\ passed' = counter' /\ counter' <= Limit /\ \A q \in Caller : caller'[q] = "away"
  <2>1. ~crowded /\ \A q \in Caller : caller'[q] = "away"
    BY <1>8, AdmittedAlone DEF IncrementCounter
  <2>2. counter \in 1 .. Limit - 1 /\ passed = counter
    BY <1>2, <2>1 DEF ThrottleInv
  <2> QED
    BY <1>1, <1>2, <2>1, <2>2
<1> QED
  BY <1>1, <1>2, <1>3, <1>4, <1>5, <1>6, <1>7, <1>8
     DEF ThrottleInv, ThrottleTypeOK, CallerType

\* The window ends.
LEMMA WindowExpiresStep ==
    ASSUME ThrottleInv, WindowExpires
    PROVE  ThrottleInv'
<1>1. /\ caller \in CallerType /\ Nexts \in Nat /\ Callers \in Nat /\ Firsts \in Nat
      /\ Limit \in Nat \ {0} /\ Firsts + Nexts <= Callers /\ MaxPassed \in Nat
  BY ThrottleNumbers
<1>2. /\ counter' = 0 /\ passed' = 0 /\ caller' = caller /\ crowded' \in BOOLEAN
      /\ (~crowded' => \A q \in Caller : caller'[q] = "away")
  BY DEF WindowExpires
<1>3. Nexts' = Nexts /\ Firsts' = Firsts /\ Most' = Most /\ Nexts <= Most
  BY <1>1, <1>2 DEF Nexts, Firsts, Before, Most, Callers
<1> QED
  BY <1>1, <1>2, <1>3 DEF ThrottleInv, ThrottleTypeOK, CallerType

\* The invariant of the rate limit.
THEOREM ThrottleInvariant == ThrottleSpec => []ThrottleInv
<1>1. ThrottleInit => ThrottleInv
  <2> SUFFICES ASSUME ThrottleInit PROVE ThrottleInv
    OBVIOUS
  <2>1. /\ caller \in CallerType /\ Before(caller, "next") = {} /\ counter = 0 /\ passed = 0
        /\ crowded = FALSE
    BY DEF ThrottleInit, CallerType, Before
  <2>2. Nexts = 0 /\ Callers \in Nat /\ Limit \in Nat \ {0} /\ MaxPassed \in Nat
    BY <2>1, FS_EmptySet, BeforeCounts, ThrottleAssumption DEF Nexts
  <2>3. \A r \in Caller : caller[r] = "away"
    BY DEF ThrottleInit
  <2>4. counter + Nexts <= Most /\ counter \in 0 .. MaxPassed
    BY <2>1, <2>2 DEF Most
  <2>5. ThrottleTypeOK
    BY <2>1, <2>2, <2>4 DEF ThrottleTypeOK, CallerType
  <2>6. passed = counter /\ counter <= Limit
    BY <2>1, <2>2
  <2> QED
    BY <2>1, <2>3, <2>4, <2>5, <2>6 DEF ThrottleInv
<1>2. ThrottleInv /\ [ThrottleNext]_throttleVars => ThrottleInv'
  <2> SUFFICES ASSUME ThrottleInv, [ThrottleNext]_throttleVars PROVE ThrottleInv'
    OBVIOUS
  <2>1. CASE UNCHANGED throttleVars
    BY <2>1 DEF throttleVars, ThrottleInv, ThrottleTypeOK, Most, Callers, Firsts, Nexts, Before
  <2>2. CASE ThrottleNext
    BY <2>2, ReadCounterStep, SetCounterStep, IncrementCounterStep, WindowExpiresStep
       DEF ThrottleNext
  <2> QED
    BY <2>1, <2>2
<1> QED
  BY <1>1, <1>2, PTL DEF ThrottleSpec

\* Requests that come one after the other get no more than the limit in a window, and
\* requests at once no more than as many limits as there are requests:
\* core.throttling.check_scope, ScopedRateThrottle.allow_request.
THEOREM RatesAreKept == ThrottleSpec => []RateKept
<1>1. ThrottleInv => RateKept
  <2> SUFFICES ASSUME ThrottleInv PROVE RateKept
    OBVIOUS
  <2>1. /\ counter \in Nat /\ passed \in Nat /\ Limit \in Nat \ {0} /\ Callers \in Nat
        /\ Firsts \in Nat /\ Nexts \in Nat /\ counter + Nexts <= Most
    BY ThrottleNumbers DEF ThrottleInv
  <2>2. ~crowded => passed <= Limit
    BY DEF ThrottleInv
  <2>3. passed <= Callers * Most
    <3>1. CASE counter = 0
      <4>1. passed = 0 /\ Most \in Nat
        BY <2>1, <3>1 DEF ThrottleInv, Most
      <4>2. Callers * Most \in Nat
        BY <2>1, <4>1, OneTurn
      <4> QED
        BY <4>1, <4>2
    <3>2. CASE counter # 0
      <4> DEFINE n == Callers - 1 - Firsts
      <4>1. /\ passed <= n * Most + counter /\ Firsts < Callers
        BY <2>1, <3>2 DEF ThrottleInv
      <4>2. n \in Nat /\ n + 1 <= Callers
        BY <2>1, <4>1, TurnsLeft
      <4>3. Most \in Nat /\ counter <= Most
        BY <2>1, <4>1 DEF Most
      <4> HIDE DEF n
      <4>4. (n + 1) * Most <= Callers * Most
        BY <2>1, <4>2, <4>3, TurnsKept
      <4>5. (n + 1) * Most = n * Most + Most /\ n * Most \in Nat /\ Callers * Most \in Nat
        BY <2>1, <4>2, <4>3, OneTurn
      <4> QED
        BY <2>1, <4>1, <4>3, <4>4, <4>5
    <3> QED
      BY <3>1, <3>2
  <2>4. (Cardinality(Caller) - 1 + 1) * (Limit + (Cardinality(Caller) - 1)) = Callers * Most
    BY <2>1 DEF Callers, Most
  <2> QED
    BY <2>2, <2>3, <2>4 DEF RateKept
<1> QED
  BY <1>1, ThrottleInvariant, PTL

-----------------------------------------------------------------------------
(* Signing up with an invite link. *)

InviteType == [active : BOOLEAN, expired : BOOLEAN, uses : 0 .. Cardinality(Guest)]
GuestType == [at : {"out", "resolved", "created", "recorded", "in", "refused"},
              user : BOOLEAN, usage : BOOLEAN, read : 0 .. Cardinality(Guest), active : BOOLEAN]

\* The guests whose use of the link has been counted.
Admitted(gs) == {g \in Guest : gs[g].at = "in"}

SigningUp(gs, g) == gs[g].at \in {"resolved", "created", "recorded"}

\* As long as nobody has died half way, who has a usage is in, or about to be counted,
\* and whose signup was refused has no account.
GuestsMatch(gs) ==
    \A g \in Guest : /\ (gs[g].usage <=> gs[g].at \in {"recorded", "in"})
                     /\ (gs[g].at \in {"out", "refused"} => ~gs[g].user)

\* As long as guests come one by one, who is under way has read the link as it is.
GuestsAlone(gs, uses) ==
    /\ uses <= LinkUses
    /\ \A g \in Guest : SigningUp(gs, g) => gs[g].read = uses
    /\ \A g, h \in Guest : SigningUp(gs, g) /\ SigningUp(gs, h) => g = h

\* The counter counts who is in; and a usage is recorded below the limit that was read.
InvitesInv ==
    /\ invite \in InviteType /\ guest \in [Guest -> GuestType]
    /\ invited \in [alone : BOOLEAN, alive : BOOLEAN]
    /\ invite.uses = Cardinality(Admitted(guest))
    /\ (\A g \in Guest : guest[g].at = "recorded" => guest[g].read < LinkUses)
    /\ (invited.alive => GuestsMatch(guest))
    /\ (invited.alone => GuestsAlone(guest, invite.uses))

\* The guests are finitely many.
LEMMA AdmittedFinite ==
    ASSUME NEW gs
    PROVE  /\ IsFiniteSet(Admitted(gs)) /\ Cardinality(Admitted(gs)) \in Nat
           /\ Cardinality(Guest) \in Nat /\ Cardinality(Admitted(gs)) <= Cardinality(Guest)
<1>1. IsFiniteSet(Guest) /\ Admitted(gs) \subseteq Guest
  BY InvitesAssumption DEF Admitted
<1> QED
  BY <1>1, FS_Subset, FS_CardinalityType

\* One guest goes on: the others are as they were.
LEMMA GuestMoves ==
    ASSUME NEW g \in Guest, NEW row \in GuestType, guest \in [Guest -> GuestType],
           guest' = [guest EXCEPT ![g] = row]
    PROVE  /\ guest' \in [Guest -> GuestType] /\ guest'[g] = row
           /\ \A h \in Guest \ {g} : guest'[h] = guest[h]
           /\ (guest[g].at # "in" /\ row.at # "in" => Admitted(guest') = Admitted(guest))
           /\ (guest[g].at # "in" /\ row.at = "in" =>
                  Admitted(guest') = Admitted(guest) \cup {g} /\ g \notin Admitted(guest))
BY DEF Admitted

\* What a guest's row becomes.
LEMMA GuestRow ==
    ASSUME NEW x \in GuestType,
           NEW at \in {"out", "resolved", "created", "recorded", "in", "refused"},
           NEW user \in BOOLEAN, NEW usage \in BOOLEAN
    PROVE  /\ [at |-> at, user |-> user, usage |-> usage, read |-> x.read, active |-> x.active]
                  \in GuestType
           /\ x.user \in BOOLEAN /\ x.usage \in BOOLEAN
           /\ [x EXCEPT !.at = at] = [at |-> at, user |-> x.user, usage |-> x.usage,
                                      read |-> x.read, active |-> x.active]
           /\ [x EXCEPT !.at = at, !.user = user] = [at |-> at, user |-> user, usage |-> x.usage,
                                                     read |-> x.read, active |-> x.active]
           /\ [x EXCEPT !.at = at, !.usage = usage] = [at |-> at, user |-> x.user, usage |-> usage,
                                                       read |-> x.read, active |-> x.active]
<1>1. /\ x.user \in BOOLEAN /\ x.usage \in BOOLEAN /\ x.active \in BOOLEAN
      /\ x.read \in 0 .. Cardinality(Guest)
      /\ x = [at |-> x.at, user |-> x.user, usage |-> x.usage, read |-> x.read, active |-> x.active]
  BY DEF GuestType
<1>2. [at |-> at, user |-> user, usage |-> usage, read |-> x.read, active |-> x.active] \in GuestType
  BY <1>1 DEF GuestType
<1>3. [x EXCEPT !.at = at] = [at |-> at, user |-> x.user, usage |-> x.usage,
                              read |-> x.read, active |-> x.active]
  BY <1>1
<1>4. [x EXCEPT !.at = at, !.user = user] = [at |-> at, user |-> user, usage |-> x.usage,
                                             read |-> x.read, active |-> x.active]
  <2> DEFINE y == [at |-> at, user |-> x.user, usage |-> x.usage,
                   read |-> x.read, active |-> x.active]
  <2>1. [x EXCEPT !.at = at, !.user = user] = [[x EXCEPT !.at = at] EXCEPT !.user = user]
    OBVIOUS
  <2>2. [y EXCEPT !.user = user] = [at |-> at, user |-> user, usage |-> x.usage,
                                    read |-> x.read, active |-> x.active]
    OBVIOUS
  <2> HIDE DEF y
  <2>3. [x EXCEPT !.at = at] = y
    BY <1>3 DEF y
  <2> QED
    BY <2>1, <2>2, <2>3
<1>5. [x EXCEPT !.at = at, !.usage = usage] = [at |-> at, user |-> x.user, usage |-> usage,
                                               read |-> x.read, active |-> x.active]
  <2> DEFINE y == [at |-> at, user |-> x.user, usage |-> x.usage,
                   read |-> x.read, active |-> x.active]
  <2>1. [x EXCEPT !.at = at, !.usage = usage] = [[x EXCEPT !.at = at] EXCEPT !.usage = usage]
    OBVIOUS
  <2>2. [y EXCEPT !.usage = usage] = [at |-> at, user |-> x.user, usage |-> usage,
                                    read |-> x.read, active |-> x.active]
    OBVIOUS
  <2> HIDE DEF y
  <2>3. [x EXCEPT !.at = at] = y
    BY <1>3 DEF y
  <2> QED
    BY <2>1, <2>2, <2>3
<1> QED
  BY <1>1, <1>2, <1>3, <1>4, <1>5

\* A guest moves and the link stays as it is.
LEMMA GuestStep ==
    ASSUME InvitesInv, NEW g \in Guest, NEW row \in GuestType,
           guest' = [guest EXCEPT ![g] = row], invite' = invite,
           guest[g].at # "in", row.at # "in",
           invited' \in [alone : BOOLEAN, alive : BOOLEAN],
           row.at = "recorded" => row.read < LinkUses,
           invited'.alive => /\ invited.alive
                             /\ (row.usage <=> row.at = "recorded")
                             /\ (row.at = "refused" => ~row.user) /\ row.at # "out",
           invited'.alone => /\ invited.alone
                             /\ (SigningUp(guest', g) =>
                                    /\ row.read = invite.uses
                                    /\ \A h \in Guest \ {g} : ~SigningUp(guest, h))
    PROVE  InvitesInv'
<1>1. /\ guest' \in [Guest -> GuestType] /\ guest'[g] = row
      /\ \A h \in Guest \ {g} : guest'[h] = guest[h]
      /\ Admitted(guest') = Admitted(guest)
  BY GuestMoves DEF InvitesInv
<1>2. \A h \in Guest : guest'[h].at = "recorded" => guest'[h].read < LinkUses
  BY <1>1 DEF InvitesInv
<1>3. invited'.alive => GuestsMatch(guest')
  BY <1>1 DEF InvitesInv, GuestsMatch
<1>4. ASSUME invited'.alone PROVE GuestsAlone(guest', invite'.uses)
  <2>1. GuestsAlone(guest, invite.uses) /\ \A h \in Guest \ {g} : SigningUp(guest', h) <=> SigningUp(guest, h)
    BY <1>1, <1>4 DEF InvitesInv, SigningUp
  <2>2. \A h \in Guest : SigningUp(guest', h) => guest'[h].read = invite.uses
    BY <1>1, <1>4, <2>1 DEF GuestsAlone
  <2>3. ASSUME NEW h \in Guest, NEW i \in Guest, SigningUp(guest', h), SigningUp(guest', i) PROVE h = i
    BY <1>4, <2>1, <2>3 DEF GuestsAlone
  <2> QED
    BY <2>1, <2>2, <2>3 DEF GuestsAlone
<1> QED
  BY <1>1, <1>2, <1>3, <1>4 DEF InvitesInv

\* Each step of a signup.
LEMMA SignupSteps ==
    ASSUME InvitesInv, NEW g \in Guest,
           \/ ResolveInvite(g) \/ CreateAccount(g) \/ ConsumeInvite(g)
           \/ CountUse(g) \/ SignupDies(g)
    PROVE  InvitesInv'
<1>1. /\ invite \in InviteType /\ guest \in [Guest -> GuestType] /\ guest[g] \in GuestType
      /\ invited \in [alone : BOOLEAN, alive : BOOLEAN]
      /\ invite.uses = Cardinality(Admitted(guest)) /\ LinkUses \in Nat \ {0}
      /\ invite.uses \in Nat /\ Cardinality(Guest) \in Nat
      /\ invite.active \in BOOLEAN /\ invite.uses \in 0 .. Cardinality(Guest)
  BY InvitesAssumption, AdmittedFinite DEF InvitesInv, InviteType
<1>2. /\ (invited.alive => /\ (guest[g].usage <=> guest[g].at \in {"recorded", "in"})
                           /\ (guest[g].at \in {"out", "refused"} => ~guest[g].user))
      /\ (invited.alone => GuestsAlone(guest, invite.uses))
  BY DEF InvitesInv, GuestsMatch
<1>3. ASSUME ResolveInvite(g) PROVE InvitesInv'
  <2>1. PICK at \in {"resolved", "refused"} :
            guest' = [guest EXCEPT ![g] = [at |-> at, user |-> guest[g].user,
                          usage |-> guest[g].usage, read |-> invite.uses,
                          active |-> invite.active]]
    <3>1. PICK at \in {"resolved", "refused"} :
              guest' = [guest EXCEPT ![g] = [guest[g] EXCEPT !.at = at, !.read = invite.uses,
                                                             !.active = invite.active]]
      BY <1>1, <1>3 DEF ResolveInvite
    <3>2. [guest[g] EXCEPT !.at = at, !.read = invite.uses, !.active = invite.active]
              = [at |-> at, user |-> guest[g].user, usage |-> guest[g].usage,
                 read |-> invite.uses, active |-> invite.active]
      <4> DEFINE y == [at |-> at, user |-> guest[g].user, usage |-> guest[g].usage,
                       read |-> guest[g].read, active |-> guest[g].active]
                 z == [at |-> at, user |-> guest[g].user, usage |-> guest[g].usage,
                       read |-> invite.uses, active |-> guest[g].active]
      <4>1. [guest[g] EXCEPT !.at = at, !.read = invite.uses, !.active = invite.active]
                = [[[guest[g] EXCEPT !.at = at] EXCEPT !.read = invite.uses]
                       EXCEPT !.active = invite.active]
        OBVIOUS
      <4>2. [z EXCEPT !.active = invite.active]
                = [at |-> at, user |-> guest[g].user, usage |-> guest[g].usage,
                   read |-> invite.uses, active |-> invite.active]
        OBVIOUS
      <4>3. [y EXCEPT !.read = invite.uses] = z
        OBVIOUS
      <4> HIDE DEF y, z
      <4>4. [guest[g] EXCEPT !.at = at] = y
        BY ZenonT(30), <1>1, GuestRow DEF y
      <4> QED
        BY <4>1, <4>2, <4>3, <4>4
    <3> QED
      BY <3>1, <3>2
  <2> DEFINE row == [at |-> at, user |-> guest[g].user, usage |-> guest[g].usage,
                     read |-> invite.uses, active |-> invite.active]
  <2>2. row \in GuestType
    BY <1>1 DEF GuestType
  <2>3. /\ row.at = at /\ row.user = guest[g].user /\ row.usage = guest[g].usage
        /\ row.read = invite.uses
    OBVIOUS
  <2>4. /\ guest[g].at = "out" /\ invite' = invite
        /\ invited' = [invited EXCEPT !.alone = invited.alone /\ \A h \in Guest : ~Underway(h)]
    BY <1>3 DEF ResolveInvite
  <2>5. /\ invited' \in [alone : BOOLEAN, alive : BOOLEAN] /\ invited'.alive = invited.alive
        /\ (invited'.alone => invited.alone /\ \A h \in Guest : ~SigningUp(guest, h))
    BY <1>1, <2>4 DEF Underway, SigningUp
  <2> HIDE DEF row
  <2> QED
    BY <1>2, <2>1, <2>2, <2>3, <2>4, <2>5, GuestStep DEF row
<1>4. ASSUME CreateAccount(g) PROVE InvitesInv'
  <2> DEFINE row == [at |-> "created", user |-> TRUE, usage |-> guest[g].usage,
                     read |-> guest[g].read, active |-> guest[g].active]
  <2>1. guest' = [guest EXCEPT ![g] = row] /\ row \in GuestType
    <3>1. guest' = [guest EXCEPT ![g] = [guest[g] EXCEPT !.at = "created", !.user = TRUE]]
      BY <1>1, <1>4 DEF CreateAccount
    <3> QED
      BY <1>1, <3>1, GuestRow
  <2>2. /\ row.at = "created" /\ row.usage = guest[g].usage /\ row.read = guest[g].read
    OBVIOUS
  <2>3. guest[g].at = "resolved" /\ invite' = invite /\ invited' = invited
    BY <1>4 DEF CreateAccount
  <2>4. invited.alone => /\ row.read = invite.uses
                         /\ \A h \in Guest \ {g} : ~SigningUp(guest, h)
    BY <1>2, <2>2, <2>3 DEF GuestsAlone, SigningUp
  <2> HIDE DEF row
  <2> QED
    BY <1>1, <1>2, <2>1, <2>2, <2>3, <2>4, GuestStep
<1>5. ASSUME ConsumeInvite(g) PROVE InvitesInv'
  <2>1. guest[g].at = "created" /\ invite' = invite /\ invited' = invited
    BY <1>5 DEF ConsumeInvite
  <2>2. CASE LinkOpen(guest[g].active, guest[g].read)
    <3> DEFINE row == [at |-> "recorded", user |-> guest[g].user, usage |-> TRUE,
                       read |-> guest[g].read, active |-> guest[g].active]
    <3>1. guest' = [guest EXCEPT ![g] = row] /\ row \in GuestType
      <4>1. guest' = [guest EXCEPT ![g] = [guest[g] EXCEPT !.at = "recorded", !.usage = TRUE]]
        BY <1>1, <1>5, <2>2 DEF ConsumeInvite
      <4> QED
        BY <1>1, <4>1, GuestRow
    <3>2. row.at = "recorded" /\ row.usage = TRUE /\ row.read = guest[g].read /\ row.read < LinkUses
      BY <2>2 DEF LinkOpen
    <3>3. invited.alone => /\ row.read = invite.uses
                           /\ \A h \in Guest \ {g} : ~SigningUp(guest, h)
      BY <1>2, <2>1, <3>2 DEF GuestsAlone, SigningUp
    <3> HIDE DEF row
    <3> QED
      BY <1>1, <2>1, <3>1, <3>2, <3>3, GuestStep
  <2>3. CASE ~LinkOpen(guest[g].active, guest[g].read)
    <3> DEFINE row == [at |-> "refused", user |-> FALSE, usage |-> guest[g].usage,
                       read |-> guest[g].read, active |-> guest[g].active]
    <3>1. guest' = [guest EXCEPT ![g] = row] /\ row \in GuestType
      <4>1. guest' = [guest EXCEPT ![g] = [guest[g] EXCEPT !.at = "refused", !.user = FALSE]]
        BY <1>1, <1>5, <2>3 DEF ConsumeInvite
      <4> QED
        BY <1>1, <4>1, GuestRow
    <3>2. row.at = "refused" /\ row.user = FALSE /\ row.usage = guest[g].usage
      OBVIOUS
    <3> HIDE DEF row
    <3>3. ~SigningUp(guest', g)
      BY <1>1, <3>1, <3>2 DEF SigningUp
    <3> QED
      BY <1>1, <1>2, <2>1, <3>1, <3>2, <3>3, GuestStep
  <2> QED
    BY <2>2, <2>3
<1>6. ASSUME SignupDies(g) PROVE InvitesInv'
  <2> DEFINE row == [at |-> "refused", user |-> guest[g].user, usage |-> guest[g].usage,
                     read |-> guest[g].read, active |-> guest[g].active]
  <2>1. guest' = [guest EXCEPT ![g] = row] /\ row \in GuestType
    <3>1. guest' = [guest EXCEPT ![g] = [guest[g] EXCEPT !.at = "refused"]]
      BY <1>1, <1>6 DEF SignupDies
    <3> QED
      BY <1>1, <3>1, GuestRow
  <2>2. row.at = "refused" /\ guest[g].at # "in" /\ invite' = invite
    BY <1>6 DEF SignupDies, Underway
  <2>3. /\ invited' \in [alone : BOOLEAN, alive : BOOLEAN] /\ ~invited'.alive
        /\ invited'.alone = invited.alone
    BY <1>1, <1>6 DEF SignupDies
  <2> HIDE DEF row
  <2>4. ~SigningUp(guest', g)
    BY <1>1, <2>1, <2>2 DEF SigningUp
  <2> QED
    BY <1>1, <2>1, <2>2, <2>3, <2>4, GuestStep
<1>7. ASSUME CountUse(g) PROVE InvitesInv'
  <2> DEFINE row == [at |-> "in", user |-> guest[g].user, usage |-> guest[g].usage,
                     read |-> guest[g].read, active |-> guest[g].active]
  <2>1. guest' = [guest EXCEPT ![g] = row] /\ row \in GuestType
    <3>1. guest' = [guest EXCEPT ![g] = [guest[g] EXCEPT !.at = "in"]]
      BY <1>1, <1>7 DEF CountUse
    <3> QED
      BY <1>1, <3>1, GuestRow
  <2>2. /\ row.at = "in" /\ guest[g].at = "recorded" /\ row.usage = guest[g].usage
        /\ invite' = [invite EXCEPT !.uses = invite.uses + 1] /\ invited' = invited
    BY <1>7 DEF CountUse
  <2> HIDE DEF row
  <2>3. /\ guest' \in [Guest -> GuestType] /\ guest'[g] = row
        /\ \A h \in Guest \ {g} : guest'[h] = guest[h]
        /\ Admitted(guest') = Admitted(guest) \cup {g} /\ g \notin Admitted(guest)
    BY <1>1, <2>1, <2>2, GuestMoves
  <2>4. /\ Cardinality(Admitted(guest')) = invite.uses + 1
        /\ Cardinality(Admitted(guest')) <= Cardinality(Guest)
    <3>1. IsFiniteSet(Admitted(guest)) /\ Cardinality(Admitted(guest')) <= Cardinality(Guest)
      BY AdmittedFinite
    <3>2. Cardinality(Admitted(guest) \cup {g}) = Cardinality(Admitted(guest)) + 1
      BY <2>3, <3>1, FS_AddElement
    <3> QED
      BY <1>1, <2>3, <3>1, <3>2
  <2>5. invite' \in InviteType /\ invite'.uses = invite.uses + 1
    <3>1. invite.uses + 1 \in 0 .. Cardinality(Guest)
      BY <1>1, <2>4
    <3> QED
      BY <1>1, <2>2, <3>1 DEF InviteType
  <2>6. \A h \in Guest : guest'[h].at = "recorded" => guest'[h].read < LinkUses
    BY <2>2, <2>3 DEF InvitesInv
  <2>7. invited'.alive => GuestsMatch(guest')
    BY <2>2, <2>3 DEF InvitesInv, GuestsMatch
  <2>8. ASSUME invited'.alone PROVE GuestsAlone(guest', invite'.uses)
    <3>1. GuestsAlone(guest, invite.uses) /\ SigningUp(guest, g) /\ ~SigningUp(guest', g)
      BY <1>2, <2>2, <2>3, <2>8 DEF SigningUp
    <3>2. guest[g].read = invite.uses /\ guest[g].read < LinkUses
      BY <2>2, <3>1 DEF GuestsAlone, InvitesInv
    <3>3. invite.uses + 1 <= LinkUses
      BY <1>1, <3>2
    <3>4. \A h \in Guest : ~SigningUp(guest', h)
      BY <2>3, <3>1 DEF GuestsAlone, SigningUp
    <3> QED
      BY <2>5, <3>3, <3>4 DEF GuestsAlone
  <2> QED
    BY <1>1, <2>2, <2>3, <2>4, <2>5, <2>6, <2>7, <2>8 DEF InvitesInv
<1> QED
  BY <1>3, <1>4, <1>5, <1>6, <1>7

\* The link expires, or the staff deactivate it.
LEMMA LinkSteps ==
    ASSUME InvitesInv, ExpireInvite \/ DeactivateInvite
    PROVE  InvitesInv'
<1>1. /\ guest' = guest /\ invited' = invited
      /\ invite' \in InviteType /\ invite'.uses = invite.uses
  BY DEF ExpireInvite, DeactivateInvite, InvitesInv, InviteType
<1> QED
  BY <1>1 DEF InvitesInv

\* The invariant of the invite link.
THEOREM InvitesInvariant == InvitesSpec => []InvitesInv
<1>1. InvitesInit => InvitesInv
  <2> SUFFICES ASSUME InvitesInit PROVE InvitesInv
    OBVIOUS
  <2>1. /\ LinkUses \in Nat \ {0} /\ Cardinality(Guest) \in Nat /\ 0 \in 0 .. Cardinality(Guest)
    BY InvitesAssumption, AdmittedFinite
  <2>2. /\ invite \in InviteType /\ guest \in [Guest -> GuestType] /\ invite.uses = 0
        /\ invited \in [alone : BOOLEAN, alive : BOOLEAN]
    BY <2>1 DEF InvitesInit, InviteType, GuestType
  <2>3. \A g \in Guest : guest[g].at = "out" /\ ~guest[g].user /\ ~guest[g].usage
    BY DEF InvitesInit
  <2>4. Cardinality(Admitted(guest)) = 0
    BY <2>3, FS_EmptySet DEF Admitted
  <2> QED
    BY <2>1, <2>2, <2>3, <2>4 DEF InvitesInv, GuestsMatch, GuestsAlone, SigningUp
<1>2. InvitesInv /\ [InvitesNext]_invitesVars => InvitesInv'
  <2> SUFFICES ASSUME InvitesInv, [InvitesNext]_invitesVars PROVE InvitesInv'
    OBVIOUS
  <2>1. CASE UNCHANGED invitesVars
    BY <2>1 DEF invitesVars, InvitesInv
  <2>2. CASE InvitesNext
    BY <2>2, SignupSteps, LinkSteps DEF InvitesNext
  <2> QED
    BY <2>1, <2>2
<1> QED
  BY <1>1, <1>2, PTL DEF InvitesSpec

\* An account of a signup that has ended was invited, the counter of the link counts
\* the usages, and signups that do not overlap are no more than max_uses:
\* StartAuthAPIView, InviteLink.consume.
THEOREM AccountsAreInvited == InvitesSpec => []Invited
<1>1. InvitesInv => Invited
  <2> DEFINE Used == {g \in Guest : guest[g].usage}
  <2> SUFFICES ASSUME InvitesInv, invited.alive
               PROVE  /\ \A g \in Guest :
                             (guest[g].user /\ guest[g].at \in {"in", "refused"}) => guest[g].usage
                      /\ invite.uses = Cardinality({g \in Used : guest[g].at # "recorded"})
                      /\ (invited.alone => Cardinality(Used) <= LinkUses)
    BY DEF Invited
  <2>1. \A g \in Guest : /\ (guest[g].usage <=> guest[g].at \in {"recorded", "in"})
                         /\ (guest[g].at \in {"out", "refused"} => ~guest[g].user)
    BY DEF InvitesInv, GuestsMatch
  <2>2. {g \in Used : guest[g].at # "recorded"} = Admitted(guest)
    BY <2>1 DEF Admitted
  <2>3. invite.uses = Cardinality(Admitted(guest)) /\ IsFiniteSet(Admitted(guest))
        /\ invite.uses \in Nat /\ LinkUses \in Nat
    BY AdmittedFinite, InvitesAssumption DEF InvitesInv
  <2>4. ASSUME invited.alone PROVE Cardinality(Used) <= LinkUses
    <3>1. GuestsAlone(guest, invite.uses)
      BY <2>4 DEF InvitesInv
    <3>2. CASE \E g \in Guest : guest[g].at = "recorded"
      <4>1. PICK g \in Guest : guest[g].at = "recorded"
        BY <3>2
      <4>2. \A h \in Guest : guest[h].at = "recorded" => h = g
        BY <3>1, <4>1 DEF GuestsAlone, SigningUp
      <4>3. Used = Admitted(guest) \cup {g} /\ g \notin Admitted(guest)
        BY <2>1, <4>1, <4>2 DEF Admitted
      <4> HIDE DEF Used
      <4>4. Cardinality(Admitted(guest) \cup {g}) = Cardinality(Admitted(guest)) + 1
        BY <2>3, <4>3, FS_AddElement
      <4>5. guest[g].read = invite.uses /\ guest[g].read < LinkUses
        BY <3>1, <4>1 DEF InvitesInv, GuestsAlone, SigningUp
      <4> QED
        BY <2>3, <4>3, <4>4, <4>5
    <3>3. CASE ~\E g \in Guest : guest[g].at = "recorded"
      <4>1. Used = Admitted(guest)
        BY <2>1, <3>3 DEF Admitted
      <4> QED
        BY <2>3, <3>1, <4>1 DEF GuestsAlone
    <3> QED
      BY <3>2, <3>3
  <2> QED
    BY <2>1, <2>2, <2>3, <2>4
<1> QED
  BY <1>1, InvitesInvariant, PTL

-----------------------------------------------------------------------------
(* One-time codes. *)

PurposeLeft == {<<p>> : p \in Purpose} \cup {<<p, q>> : p, q \in Purpose}
LeftType == {<<>>} \cup {<<p>> : p \in Purpose} \cup {<<p, q>> : p, q \in Purpose}
VisitType == [at : {"none", "create", "refresh", "mail", "check", "count", "accept"},
              op : Endpoint \cup Purpose, row : 0 .. MaxCodes, attempts : 0 .. OtpMaxAttempts,
              guess : 0 .. MaxCodes, left : LeftType, password : BOOLEAN]
PastType == [issued : 0 .. MaxCodes, wrong : [1 .. MaxCodes -> 0 .. OtpMaxAttempts + 1],
             spent : [1 .. MaxCodes -> 0 .. 2], calm : BOOLEAN]
PostType == [queued : 0 .. MaxMails, sent : SUBSET (1 .. MaxCodes), unsent : BOOLEAN]

\* Neither an id nor a code is in two rows, or is issued again.
CodesHold(rs, issued) ==
    /\ rs \subseteq AuthCodeRow /\ IsFiniteSet(rs) /\ Cardinality(rs) <= MaxRows
    /\ \A r \in rs : r.id <= issued /\ r.code <= issued
    /\ \A r, s \in rs : r.id = s.id \/ r.code = s.code => r = s

\* The attempts of a row count every wrong guess of its code, and its code is unspent.
\* Nothing is counted once requests have overlapped.
CountsHold(rs, p) ==
    /\ \A c \in 1 .. MaxCodes : /\ p.wrong[c] <= OtpMaxAttempts /\ p.spent[c] <= 1
                                /\ (c > p.issued => p.wrong[c] = 0 /\ p.spent[c] = 0)
    /\ \A r \in rs : p.wrong[r.code] <= r.attempts /\ p.spent[r.code] = 0
    /\ (~p.calm => \A c \in 1 .. MaxCodes : p.wrong[c] = 0 /\ p.spent[c] = 0)

\* What a request has read is still so, as long as it is alone.
VisitHolds(v, rs, p) ==
    /\ (v.at = "create" => v.op \in Purpose)
    /\ (v.at \in {"check", "count"} => v.left \in PurposeLeft)
    /\ (v.at = "count" => v.attempts < OtpMaxAttempts)
    /\ (v.at = "accept" => v.guess \in 1 .. MaxCodes)
    /\ (p.calm /\ v.at = "count" => \A r \in rs : r.id = v.row => r.attempts = v.attempts)
    /\ (p.calm /\ v.at = "accept" => /\ p.spent[v.guess] = 0 /\ v.guess <= p.issued
                                     /\ \A r \in rs : r.code = v.guess => r.id = v.row)

VisitsHold(vs, rs, p) ==
    /\ vs \in [Visit -> VisitType]
    /\ \A k \in Visit : VisitHolds(vs[k], rs, p)
    /\ (p.calm => \A j, k \in Visit : vs[j].at # "none" /\ vs[k].at # "none" => j = k)

\* A code is mailed, or a mail is on its way, or one was lost.
MailsHold(vs, rs, mails) ==
    \/ mails.unsent \/ mails.queued > 0
    \/ \E k \in Visit : vs[k].at = "mail"
    \/ \A r \in rs : r.code \in mails.sent

CodesInv ==
    /\ account \in [created : BOOLEAN, password : BOOLEAN]
    /\ CodesHold(codes, past.issued)
    /\ past \in PastType /\ CountsHold(codes, past)
    /\ VisitsHold(visit, codes, past)
    /\ post \in PostType /\ MailsHold(visit, codes, post)

\* The numbers.
LEMMA CodesNumbers ==
    /\ OtpMaxAttempts \in Nat /\ MaxCodes \in Nat /\ MaxRows \in Nat /\ MaxMails \in Nat
    /\ OtpMaxAttempts > 0 /\ MaxRows > 0 /\ MaxCodes > 0 /\ MaxMails > 0
BY AuthCodesAssumption

\* The types of the specification are these.
LEMMA CodesTypes == VisitRow = VisitType /\ PurposeLeft \subseteq LeftType
<1>1. PurposeLeft \subseteq LeftType
  BY DEF LeftType, PurposeLeft
<1>2. VisitRow = VisitType
  BY SMT DEF VisitRow, VisitType, LeftType
<1> QED
  BY <1>1, <1>2

\* Of the purposes left, the rest.
LEMMA LeftRest ==
    ASSUME NEW left \in PurposeLeft, Len(left) # 1
    PROVE  Tail(left) \in PurposeLeft
<1>1. CASE left \in {<<p>> : p \in Purpose}
  <2>1. PICK p \in Purpose : left = <<p>>
    BY <1>1
  <2>2. Len(<<p>>) = 1
    OBVIOUS
  <2> QED
    BY <2>1, <2>2
<1>2. CASE left \in {<<p, q>> : p, q \in Purpose}
  <2>1. PICK p \in Purpose, q \in Purpose : left = <<p, q>>
    BY <1>2
  <2>2. Tail(<<p, q>>) = <<q>>
    OBVIOUS
  <2> QED
    BY <2>1, <2>2 DEF PurposeLeft
<1> QED
  BY <1>1, <1>2 DEF PurposeLeft

\* Some of the rows.
LEMMA FewerRows ==
    ASSUME NEW rs, NEW n \in Nat, CodesHold(rs, n), NEW some \in SUBSET rs
    PROVE  CodesHold(some, n)
<1>1. IsFiniteSet(some) /\ Cardinality(some) <= Cardinality(rs)
  BY FS_Subset DEF CodesHold
<1>2. Cardinality(some) \in Nat /\ Cardinality(rs) \in Nat
  BY <1>1, FS_CardinalityType DEF CodesHold
<1> QED
  BY <1>1, <1>2, CodesNumbers DEF CodesHold

\* A row more, of a code that has just been issued.
LEMMA RowAdded ==
    ASSUME NEW rs, NEW n \in Nat, CodesHold(rs, n), Cardinality(rs) < MaxRows,
           NEW s \in AuthCodeRow, s.id = n + 1, s.code = n + 1
    PROVE  CodesHold(rs \cup {s}, n + 1)
<1>1. \A r \in rs : r.id \in Nat /\ r.code \in Nat /\ r.id <= n /\ r.code <= n
  BY CodesNumbers DEF CodesHold, AuthCodeRow
<1>2. s \notin rs
  BY <1>1
<1>3. /\ IsFiniteSet(rs \cup {s}) /\ Cardinality(rs \cup {s}) = Cardinality(rs) + 1
      /\ Cardinality(rs) \in Nat
  BY <1>2, FS_AddElement, FS_CardinalityType DEF CodesHold
<1>4. Cardinality(rs \cup {s}) <= MaxRows
  BY <1>3, CodesNumbers
<1>5. \A r \in rs \cup {s} : r.id <= n + 1 /\ r.code <= n + 1
  BY <1>1
<1>6. ASSUME NEW r \in rs \cup {s}, NEW t \in rs \cup {s}, r.id = t.id \/ r.code = t.code
      PROVE  r = t
  BY <1>1, <1>6 DEF CodesHold
<1> QED
  BY <1>3, <1>4, <1>5, <1>6 DEF CodesHold

\* A row instead of another, with the same code or with one that has just been issued.
LEMMA RowReplaced ==
    ASSUME NEW rs, NEW n \in Nat, NEW m \in Nat, n <= m, CodesHold(rs, n),
           NEW r \in rs, NEW s \in AuthCodeRow, s.id = r.id,
           s.code = r.code \/ (s.code > n /\ s.code <= m)
    PROVE  CodesHold((rs \ {r}) \cup {s}, m)
<1>1. \A t \in rs : t.id \in Nat /\ t.code \in Nat /\ t.id <= n /\ t.code <= n
  BY CodesNumbers DEF CodesHold, AuthCodeRow
<1>2. s.id \in Nat /\ s.code \in Nat
  BY CodesNumbers DEF AuthCodeRow
<1>3. \A t \in rs \ {r} : t.id # s.id /\ t.code # s.code
  BY <1>1, <1>2 DEF CodesHold
<1>4. s \notin rs \ {r}
  BY <1>3
<1>5. /\ IsFiniteSet(rs) /\ IsFiniteSet(rs \ {r})
      /\ Cardinality(rs \ {r}) = Cardinality(rs) - 1 /\ Cardinality(rs) \in Nat
  BY FS_RemoveElement, FS_CardinalityType, FS_Subset DEF CodesHold
<1>6. /\ IsFiniteSet((rs \ {r}) \cup {s})
      /\ Cardinality((rs \ {r}) \cup {s}) = Cardinality(rs \ {r}) + 1
  BY <1>4, <1>5, FS_AddElement
<1>7. Cardinality((rs \ {r}) \cup {s}) <= MaxRows
  BY <1>5, <1>6 DEF CodesHold
<1>8. \A t \in (rs \ {r}) \cup {s} : t.id <= m /\ t.code <= m
  BY <1>1, <1>2
<1>9. ASSUME NEW t \in (rs \ {r}) \cup {s}, NEW u \in (rs \ {r}) \cup {s},
             t.id = u.id \/ t.code = u.code
      PROVE  t = u
  BY <1>3, <1>9 DEF CodesHold
<1> QED
  BY <1>6, <1>7, <1>8, <1>9 DEF CodesHold

\* The parts of the invariant.
LEMMA CodesParts ==
    ASSUME CodesInv
    PROVE  /\ account \in [created : BOOLEAN, password : BOOLEAN]
           /\ CodesHold(codes, past.issued) /\ past \in PastType /\ CountsHold(codes, past)
           /\ VisitsHold(visit, codes, past) /\ visit \in [Visit -> VisitType]
           /\ post \in PostType /\ MailsHold(visit, codes, post)
           /\ past.issued \in Nat /\ past.issued <= MaxCodes /\ past.calm \in BOOLEAN
           /\ past.wrong \in [1 .. MaxCodes -> 0 .. OtpMaxAttempts + 1]
           /\ past.spent \in [1 .. MaxCodes -> 0 .. 2]
           /\ codes \subseteq AuthCodeRow
BY CodesNumbers DEF CodesInv, VisitsHold, PastType, CodesHold

\* A request that is alone: its own state is all that matters.
LEMMA VisitMoves ==
    ASSUME CodesInv, NEW k \in Visit, NEW v \in VisitType, NEW rs, NEW p,
           visit' = [visit EXCEPT ![k] = v],
           p.calm => past.calm /\ \A j \in Visit \ {k} : visit[j].at = "none",
           VisitHolds(v, rs, p)
    PROVE  VisitsHold(visit', rs, p)
<1>1. /\ visit \in [Visit -> VisitType] /\ visit' \in [Visit -> VisitType] /\ visit'[k] = v
      /\ \A j \in Visit \ {k} : visit'[j] = visit[j]
      /\ \A j \in Visit : VisitHolds(visit[j], codes, past)
  BY CodesParts DEF VisitsHold
<1>2. ASSUME NEW j \in Visit \ {k} PROVE VisitHolds(visit'[j], rs, p)
  BY <1>1 DEF VisitHolds
<1>3. \A j \in Visit : VisitHolds(visit'[j], rs, p)
  BY <1>1, <1>2
<1>4. ASSUME p.calm, NEW i \in Visit, NEW j \in Visit, visit'[i].at # "none", visit'[j].at # "none"
      PROVE  i = j
  BY <1>1, <1>4
<1> QED
  BY <1>1, <1>3, <1>4 DEF VisitsHold

\* Who is half way is alone, as long as requests do not overlap.
LEMMA VisitAlone ==
    ASSUME CodesInv, NEW k \in Visit, visit[k].at # "none"
    PROVE  /\ (past.calm => past.calm /\ \A j \in Visit \ {k} : visit[j].at = "none")
           /\ visit[k] \in VisitType /\ VisitHolds(visit[k], codes, past)
BY CodesParts DEF VisitsHold

\* A request ends.
LEMMA NobodyHolds ==
    ASSUME NEW rs, NEW p
    PROVE  NoVisit \in VisitType /\ NoVisit.at = "none" /\ VisitHolds(NoVisit, rs, p)
<1>1. /\ NoVisit.at = "none" /\ 0 \in 0 .. MaxCodes /\ 0 \in 0 .. OtpMaxAttempts
  BY CodesNumbers DEF NoVisit
<1> QED
  BY <1>1 DEF NoVisit, VisitType, VisitHolds, LeftType, Endpoint

\* The counts, after a request has overlapped with another or not.
LEMMA PastAfter ==
    ASSUME CodesInv, NEW calm \in BOOLEAN
    PROVE  /\ Overlapped(calm) \in PastType /\ CountsHold(codes, Overlapped(calm))
           /\ Overlapped(calm).issued = past.issued
           /\ (Overlapped(calm).calm => calm /\ Overlapped(calm) = past)
<1>1. CASE calm
  BY <1>1, CodesParts DEF Overlapped
<1>2. CASE ~calm
  <2> DEFINE p == [past EXCEPT !.calm = FALSE, !.wrong = NoPast, !.spent = NoPast]
  <2>1. /\ NoPast \in [1 .. MaxCodes -> 0 .. OtpMaxAttempts + 1]
        /\ NoPast \in [1 .. MaxCodes -> 0 .. 2]
        /\ \A c \in 1 .. MaxCodes : NoPast[c] = 0
    BY CodesNumbers DEF NoPast
  <2>2. /\ past \in PastType /\ codes \subseteq AuthCodeRow
    BY CodesParts
  <2>3. p \in PastType /\ p.issued = past.issued /\ p.wrong = NoPast /\ p.spent = NoPast
        /\ p.calm = FALSE
    BY <2>1, <2>2 DEF PastType
  <2>4. Overlapped(calm) = p
    BY <1>2 DEF Overlapped
  <2> HIDE DEF p
  <2>5. CountsHold(codes, p)
    BY <2>1, <2>2, <2>3, CodesNumbers DEF CountsHold, AuthCodeRow
  <2> QED
    BY <2>3, <2>4, <2>5
<1> QED
  BY <1>1, <1>2

\* Nothing is taken from the mails.
LEMMA MailsKept ==
    ASSUME MailsHold(visit, codes, post), NEW vs, NEW rs,
           \A k \in Visit : visit[k].at = "mail" => vs[k].at = "mail",
           \A r \in rs : \E s \in codes : r.code = s.code
    PROVE  MailsHold(vs, rs, post)
BY DEF MailsHold

\* A request that is not about to mail a code goes on.
LEMMA MailsPass ==
    ASSUME CodesInv, NEW k \in Visit, NEW v, visit' = [visit EXCEPT ![k] = v],
           visit[k].at # "mail", NEW rs, \A r \in rs : \E s \in codes : r.code = s.code
    PROVE  MailsHold(visit', rs, post)
<1>1. \A j \in Visit : visit[j].at = "mail" => visit'[j].at = "mail"
  BY CodesParts
<1> QED
  BY <1>1, CodesParts, MailsKept

\* A request begins.
LEMMA EnterStep ==
    ASSUME CodesInv, NEW k \in Visit, NEW v \in VisitType, Enter(k, v),
           v.at \in {"create", "refresh", "mail", "check"},
           v.at = "check" => v.left \in PurposeLeft, v.at = "create" => v.op \in Purpose,
           UNCHANGED <<codes, post>>,
           account' \in [created : BOOLEAN, password : BOOLEAN]
    PROVE  CodesInv'
<1> DEFINE calm == \A j \in Visit \ {k} : ~Visiting(j)
<1>1. /\ visit[k].at = "none" /\ visit' = [visit EXCEPT ![k] = v] /\ past' = Overlapped(calm)
      /\ past.calm
  BY DEF Enter, Visiting
<1>2. calm \in BOOLEAN /\ (calm => \A j \in Visit \ {k} : visit[j].at = "none")
  BY DEF Visiting
<1> HIDE DEF calm
<1>3. /\ past' \in PastType /\ CountsHold(codes, past') /\ past'.issued = past.issued
      /\ (past'.calm => past.calm /\ \A j \in Visit \ {k} : visit[j].at = "none")
  BY <1>1, <1>2, PastAfter
<1>4. VisitHolds(v, codes, past')
  BY DEF VisitHolds
<1>5. VisitsHold(visit', codes, past')
  BY <1>1, <1>3, <1>4, VisitMoves
<1>6. MailsHold(visit', codes, post)
  BY <1>1, MailsPass
<1>7. CodesHold(codes, past'.issued) /\ post \in PostType
  BY <1>3, CodesParts
<1> QED
  BY <1>3, <1>5, <1>6, <1>7 DEF CodesInv

\* A code is asked for.
LEMMA AskCodeStep ==
    ASSUME CodesInv, NEW k \in Visit, NEW p \in Purpose, AskCode(k, p)
    PROVE  CodesInv'
<1>1. PICK at \in {"create", "refresh", "mail"}, row \in 0 .. MaxCodes :
          Enter(k, [NoVisit EXCEPT !.op = p, !.at = at, !.row = row])
  <2> DEFINE at == IF Rows(p) = {} THEN "create"
                   ELSE IF \A r \in Rows(p) : Usable(r) THEN "mail" ELSE "refresh"
             row == IF Rows(p) = {} THEN 0 ELSE (CHOOSE r \in Rows(p) : TRUE).id
  <2>1. Enter(k, [NoVisit EXCEPT !.op = p, !.at = at, !.row = row])
    BY DEF AskCode
  <2>2. at \in {"create", "refresh", "mail"}
    OBVIOUS
  <2>3. row \in 0 .. MaxCodes
    <3>1. CASE Rows(p) = {}
      BY <3>1, CodesNumbers
    <3>2. CASE Rows(p) # {}
      <4>1. PICK r \in Rows(p) : row = r.id
        BY <3>2
      <4>2. r.id \in 1 .. MaxCodes
        BY CodesParts DEF Rows, AuthCodeRow
      <4> QED
        BY <4>1, <4>2, CodesNumbers
    <3> QED
      BY <3>1, <3>2
  <2> HIDE DEF at, row
  <2> QED
    BY <2>1, <2>2, <2>3
<1> DEFINE v == [NoVisit EXCEPT !.op = p, !.at = at, !.row = row]
<1>2. v.at = at /\ v.op = p
  BY DEF NoVisit
<1>3. v \in VisitType
  BY NobodyHolds DEF VisitType
<1>4. account' \in [created : BOOLEAN, password : BOOLEAN] /\ UNCHANGED <<codes, post>>
  BY CodesParts DEF AskCode
<1>5. Enter(k, v)
  BY <1>1
<1> HIDE DEF v
<1> QED
  BY <1>2, <1>3, <1>4, <1>5, EnterStep

\* A code is guessed.
LEMMA GuessCodeStep ==
    ASSUME CodesInv, NEW k \in Visit, NEW op \in Endpoint, NEW guess \in 0 .. MaxCodes,
           GuessCode(k, op, guess)
    PROVE  CodesInv'
<1> DEFINE password == account.password /\ op \in {"otp", "final"}
           v == [NoVisit EXCEPT !.at = "check", !.op = op, !.guess = guess,
                                !.left = Accepts(op), !.password = password]
<1>1. Accepts(op) \in PurposeLeft
  <2>1. CASE op \in {"otp", "final"}
    <3>1. Accepts(op) = <<"login", "signup">>
      BY <2>1 DEF Accepts
    <3> QED
      BY <3>1 DEF PurposeLeft, Purpose
  <2>2. CASE op = "set_password"
    <3>1. Accepts(op) = <<"signup", "login">>
      BY <2>2 DEF Accepts
    <3> QED
      BY <3>1 DEF PurposeLeft, Purpose
  <2>3. CASE op \notin {"otp", "final", "set_password"}
    <3>1. Accepts(op) = <<op>> /\ op \in Purpose
      BY <2>3 DEF Accepts, Endpoint, Purpose
    <3> QED
      BY <3>1 DEF PurposeLeft
  <2> QED
    BY <2>1, <2>2, <2>3
<1>2. v \in VisitType
  <2>1. Accepts(op) \in LeftType /\ password \in BOOLEAN
    BY <1>1, CodesTypes, CodesParts
  <2> HIDE DEF password
  <2> QED
    BY <2>1, NobodyHolds DEF VisitType
<1>3. Enter(k, v)
  BY DEF GuessCode
<1>4. v.at = "check" /\ v.left = Accepts(op)
  BY DEF NoVisit
<1>5. UNCHANGED <<codes, post>> /\ account' \in [created : BOOLEAN, password : BOOLEAN]
  BY CodesParts DEF GuessCode
<1> HIDE DEF v
<1> QED
  BY <1>1, <1>2, <1>3, <1>4, <1>5, EnterStep

\* A password is set while no code is pending.
LEMMA UnaskedStep ==
    ASSUME CodesInv, NEW k \in Visit, SetPasswordUnasked(k)
    PROVE  CodesInv'
<1> DEFINE calm == \A j \in Visit : ~Visiting(j)
<1>1. past' = Overlapped(calm) /\ UNCHANGED <<codes, visit, post>> /\ calm \in BOOLEAN /\ past.calm
  BY DEF SetPasswordUnasked
<1>2. /\ past' \in PastType /\ CountsHold(codes, past') /\ past'.issued = past.issued
      /\ (past'.calm => past' = past)
  BY <1>1, PastAfter
<1>3. VisitsHold(visit, codes, past')
  BY ZenonT(30), <1>1, <1>2, CodesParts DEF VisitsHold, VisitHolds
<1>4. account' \in [created : BOOLEAN, password : BOOLEAN]
  BY CodesParts DEF SetPasswordUnasked
<1> QED
  BY <1>1, <1>2, <1>3, <1>4, CodesParts DEF CodesInv

\* A request dies.
LEMMA VisitDiesStep ==
    ASSUME CodesInv, NEW k \in Visit, VisitDies(k)
    PROVE  CodesInv'
<1>1. /\ visit' = [visit EXCEPT ![k] = NoVisit] /\ past' = Overlapped(FALSE)
      /\ post' = [post EXCEPT !.unsent = TRUE] /\ UNCHANGED <<account, codes>>
  BY DEF VisitDies, Leave
<1>2. /\ past' \in PastType /\ CountsHold(codes, past') /\ past'.issued = past.issued
      /\ ~past'.calm
  BY <1>1, PastAfter
<1>3. VisitsHold(visit', codes, past')
  BY <1>1, <1>2, VisitMoves, NobodyHolds
<1>4. post' \in PostType /\ post'.unsent
  BY <1>1, CodesParts DEF PostType
<1>5. MailsHold(visit', codes, post')
  BY <1>4 DEF MailsHold
<1> QED
  BY <1>1, <1>2, <1>3, <1>4, <1>5, CodesParts DEF CodesInv

\* A code is issued.
LEMMA IssueStep ==
    ASSUME CodesInv, Issue
    PROVE  /\ past' \in PastType /\ past'.issued = past.issued + 1 /\ past'.calm = past.calm
           /\ past'.wrong = past.wrong /\ past'.spent = past.spent
           /\ past.issued + 1 \in 1 .. MaxCodes /\ past.issued \in Nat
           /\ past.wrong[past.issued + 1] = 0 /\ past.spent[past.issued + 1] = 0
<1>1. /\ past.issued \in Nat /\ past.issued + 1 <= MaxCodes
      /\ past' = [past EXCEPT !.issued = past.issued + 1]
  BY CodesParts DEF Issue, Issued
<1>2. past.issued + 1 \in 1 .. MaxCodes /\ past.issued + 1 \in 0 .. MaxCodes
  BY <1>1, CodesNumbers
<1>3. past' \in PastType
  BY <1>1, <1>2, CodesParts DEF PastType
<1>4. past.wrong[past.issued + 1] = 0 /\ past.spent[past.issued + 1] = 0
  BY <1>1, <1>2, CodesParts DEF CountsHold
<1> QED
  BY <1>1, <1>2, <1>3, <1>4, CodesParts DEF PastType

\* A row with a code that has just been issued has neither guesses nor uses.
LEMMA IssuedCounts ==
    ASSUME CodesInv, Issue, NEW s, s.code = past.issued + 1, s.attempts = 0,
           NEW rs \in SUBSET (codes \cup {s})
    PROVE  CountsHold(rs, past')
<1>1. /\ past'.issued = past.issued + 1 /\ past'.wrong = past.wrong /\ past'.spent = past.spent
      /\ past.issued \in Nat
      /\ past.wrong[past.issued + 1] = 0 /\ past.spent[past.issued + 1] = 0
      /\ past'.calm = past.calm
  BY IssueStep
<1>2. CountsHold(codes, past)
  BY CodesParts
<1>3. \A c \in 1 .. MaxCodes : c > past'.issued => c > past.issued
  BY <1>1, CodesNumbers
<1>4. \A r \in rs : past.wrong[r.code] <= r.attempts /\ past.spent[r.code] = 0
  BY <1>1, <1>2 DEF CountsHold
<1> QED
  BY <1>1, <1>2, <1>3, <1>4 DEF CountsHold

\* Who has issued a code goes on to mail it.
LEMMA IssuerGoesOn ==
    ASSUME CodesInv, NEW k \in Visit, Issue, visit[k].at \in {"create", "refresh"},
           Step(k, "mail"), NEW rs
    PROVE  VisitsHold(visit', rs, past') /\ MailsHold(visit', rs, post)
<1> DEFINE v == [visit[k] EXCEPT !.at = "mail"]
<1>1. visit' = [visit EXCEPT ![k] = v]
  BY DEF Step
<1>2. v \in VisitType /\ v.at = "mail"
  BY VisitAlone DEF VisitType
<1> HIDE DEF v
<1>3. VisitHolds(v, rs, past')
  BY <1>2 DEF VisitHolds
<1>4. past'.calm => past.calm /\ \A j \in Visit \ {k} : visit[j].at = "none"
  BY IssueStep, VisitAlone
<1>5. VisitsHold(visit', rs, past')
  BY <1>1, <1>2, <1>3, <1>4, VisitMoves
<1>6. visit'[k].at = "mail"
  BY <1>1, <1>2, CodesParts
<1> QED
  BY <1>5, <1>6 DEF MailsHold

\* A row is created.
LEMMA CreateCodeStep ==
    ASSUME CodesInv, NEW k \in Visit, CreateCode(k)
    PROVE  CodesInv'
<1> DEFINE s == [id |-> Issued, purpose |-> visit[k].op, code |-> Issued,
                 attempts |-> 0, expired |-> FALSE]
<1>1. /\ visit[k].at = "create" /\ Cardinality(codes) < MaxRows /\ Issue /\ Step(k, "mail")
      /\ codes' = codes \cup {s} /\ UNCHANGED <<account, post>>
  BY DEF CreateCode
<1>2. s \in AuthCodeRow
  <2>1. visit[k].op \in Purpose
    BY <1>1, VisitAlone DEF VisitHolds
  <2>2. past.issued + 1 \in 1 .. MaxCodes /\ 0 \in 0 .. OtpMaxAttempts
    BY <1>1, IssueStep, CodesNumbers
  <2> QED
    BY <2>1, <2>2 DEF AuthCodeRow, Issued
<1>3. CodesInv'
  <2>1. s.id = past.issued + 1 /\ s.code = past.issued + 1 /\ s.attempts = 0
    BY DEF Issued
  <2> HIDE DEF s
  <2>2. past' \in PastType /\ past'.issued = past.issued + 1 /\ past.issued \in Nat
    BY <1>1, IssueStep
  <2>3. CodesHold(codes', past'.issued)
    BY <1>1, <1>2, <2>1, <2>2, RowAdded, CodesParts
  <2>4. CountsHold(codes', past')
    BY <1>1, <2>1, IssuedCounts
  <2>5. VisitsHold(visit', codes', past') /\ MailsHold(visit', codes', post)
    BY <1>1, IssuerGoesOn
  <2> QED
    BY <1>1, <2>2, <2>3, <2>4, <2>5, CodesParts DEF CodesInv
<1> QED
  BY <1>3

\* A row is given another code.
LEMMA RefreshCodeStep ==
    ASSUME CodesInv, NEW k \in Visit, RefreshCode(k)
    PROVE  CodesInv'
<1>1. visit[k].at = "refresh" /\ UNCHANGED <<account, post>>
  BY DEF RefreshCode
<1>2. CASE RowOf(k) = {}
  <2>1. visit' = [visit EXCEPT ![k] = NoVisit] /\ UNCHANGED <<codes, past>>
    BY <1>2 DEF RefreshCode, Leave
  <2>2. VisitsHold(visit', codes, past)
    BY <1>1, <2>1, VisitMoves, VisitAlone, NobodyHolds
  <2>3. MailsHold(visit', codes, post)
    BY <1>1, <2>1, MailsPass
  <2> QED
    BY <1>1, <2>1, <2>2, <2>3, CodesParts DEF CodesInv
<1>3. CASE RowOf(k) # {}
  <2>1. PICK r \in codes : r.id = visit[k].row
    BY <1>3 DEF RowOf
  <2>2. r \in AuthCodeRow /\ RowOf(k) = {r}
    BY <2>1, CodesParts DEF RowOf, CodesHold
  <2> DEFINE s == [r EXCEPT !.code = Issued, !.attempts = 0, !.expired = FALSE]
  <2>3. Issue /\ Step(k, "mail")
    BY <1>3 DEF RefreshCode
  <2>4. codes' = {IF q \in RowOf(k)
                  THEN [q EXCEPT !.code = Issued, !.attempts = 0, !.expired = FALSE]
                  ELSE q : q \in codes}
    BY <1>3 DEF RefreshCode
  <2>5. codes' = (codes \ {r}) \cup {s}
    BY <2>1, <2>2, <2>4
  <2>6. s \in AuthCodeRow /\ s.id = r.id /\ s.code = past.issued + 1 /\ s.attempts = 0
    <3>1. past.issued + 1 \in 1 .. MaxCodes /\ 0 \in 0 .. OtpMaxAttempts
      BY <2>3, IssueStep, CodesNumbers
    <3> QED
      BY <2>2, <3>1 DEF AuthCodeRow, Issued
  <2> HIDE DEF s
  <2>7. past' \in PastType /\ past'.issued = past.issued + 1 /\ past.issued \in Nat
    BY <2>3, IssueStep
  <2>8. CodesHold(codes', past'.issued)
    <3>1. s.code > past.issued /\ s.code <= past'.issued /\ past.issued <= past'.issued
          /\ past'.issued \in Nat
      BY <2>6, <2>7
    <3> QED
      BY <2>1, <2>5, <2>6, <2>7, <3>1, RowReplaced, CodesParts
  <2>9. CountsHold(codes', past')
    BY <2>3, <2>5, <2>6, IssuedCounts
  <2>10. VisitsHold(visit', codes', past') /\ MailsHold(visit', codes', post)
    BY <1>1, <2>3, IssuerGoesOn
  <2> QED
    BY <1>1, <2>7, <2>8, <2>9, <2>10, CodesParts DEF CodesInv
<1> QED
  BY <1>2, <1>3

\* A mail is queued.
LEMMA QueueMailStep ==
    ASSUME CodesInv, NEW k \in Visit, QueueMail(k)
    PROVE  CodesInv'
<1>1. /\ visit[k].at = "mail" /\ post.queued < MaxMails
      /\ post' = [post EXCEPT !.queued = post.queued + 1]
      /\ visit' = [visit EXCEPT ![k] = NoVisit] /\ UNCHANGED <<account, codes, past>>
  BY DEF QueueMail, Leave
<1>2. VisitsHold(visit', codes, past)
  BY <1>1, VisitMoves, VisitAlone, NobodyHolds
<1>3. post' \in PostType /\ post'.queued > 0
  <2>1. post.queued + 1 \in 0 .. MaxMails /\ post.queued \in Nat
    BY <1>1, CodesParts, CodesNumbers DEF PostType
  <2> QED
    BY <1>1, <2>1, CodesParts DEF PostType
<1>4. MailsHold(visit', codes, post')
  BY <1>3 DEF MailsHold
<1> QED
  BY <1>1, <1>2, <1>3, <1>4, CodesParts DEF CodesInv

\* A mail task runs.
LEMMA MailCodeStep ==
    ASSUME CodesInv, NEW works \in BOOLEAN, MailCode(works)
    PROVE  CodesInv'
<1>1. post.queued > 0 /\ UNCHANGED <<account, codes, visit, past>>
  BY DEF MailCode
<1>2. post.queued - 1 \in 0 .. MaxMails
  BY <1>1, CodesParts, CodesNumbers DEF PostType
<1>3. CASE works /\ Cardinality(codes) = 1
  <2>1. post' = [post EXCEPT !.queued = post.queued - 1,
                             !.sent = post.sent \cup {r.code : r \in codes}]
    BY <1>3 DEF MailCode
  <2>2. {r.code : r \in codes} \subseteq 1 .. MaxCodes
    BY CodesParts DEF AuthCodeRow
  <2>3. post' \in PostType /\ \A r \in codes : r.code \in post'.sent
    BY <1>2, <2>1, <2>2, CodesParts DEF PostType
  <2>4. MailsHold(visit, codes, post')
    BY <2>3 DEF MailsHold
  <2> QED
    BY <1>1, <2>3, <2>4, CodesParts DEF CodesInv
<1>4. CASE ~(works /\ Cardinality(codes) = 1)
  <2>1. post' = [post EXCEPT !.queued = post.queued - 1, !.unsent = TRUE]
    BY <1>4 DEF MailCode
  <2>2. post' \in PostType /\ post'.unsent
    BY <1>2, <2>1, CodesParts DEF PostType
  <2>3. MailsHold(visit, codes, post')
    BY <2>2 DEF MailsHold
  <2> QED
    BY <1>1, <2>2, <2>3, CodesParts DEF CodesInv
<1> QED
  BY <1>3, <1>4

\* The next purpose, or the end.
LEMMA NextPurposeStep ==
    ASSUME CodesInv, NEW k \in Visit, visit[k].at \in {"check", "count"}, NextPurpose(k)
    PROVE  \E v \in VisitType : /\ visit' = [visit EXCEPT ![k] = v] /\ v.at \in {"none", "check"}
                                /\ \A rs, p : VisitHolds(v, rs, p)
<1>1. visit[k].left \in PurposeLeft /\ visit[k] \in VisitType
  BY VisitAlone DEF VisitHolds
<1>2. CASE Len(visit[k].left) = 1
  <2>1. visit' = [visit EXCEPT ![k] = NoVisit]
    BY <1>2 DEF NextPurpose
  <2> QED
    BY <2>1, NobodyHolds
<1>3. CASE Len(visit[k].left) # 1
  <2> DEFINE v == [visit[k] EXCEPT !.at = "check", !.left = Tail(visit[k].left)]
  <2>1. visit' = [visit EXCEPT ![k] = v]
    BY <1>3 DEF NextPurpose
  <2>2. Tail(visit[k].left) \in PurposeLeft /\ Tail(visit[k].left) \in LeftType
    BY <1>1, <1>3, LeftRest, CodesTypes
  <2>3. v \in VisitType /\ v.at = "check" /\ v.left = Tail(visit[k].left)
    BY <1>1, <2>2 DEF VisitType
  <2> HIDE DEF v
  <2>4. \A rs, p : VisitHolds(v, rs, p)
    BY <2>2, <2>3 DEF VisitHolds
  <2> QED
    BY <2>1, <2>3, <2>4
<1> QED
  BY <1>2, <1>3

\* A request that reads goes on, or ends, with what it has read.
LEMMA VisitReads ==
    ASSUME CodesInv, NEW k \in Visit, visit[k].at \in {"check", "count", "accept"},
           UNCHANGED <<account, codes, post, past>>,
           NEW v \in VisitType, visit' = [visit EXCEPT ![k] = v], VisitHolds(v, codes, past)
    PROVE  CodesInv'
<1>1. past.calm => past.calm /\ \A j \in Visit \ {k} : visit[j].at = "none"
  BY VisitAlone
<1>2. VisitsHold(visit', codes, past)
  BY <1>1, VisitMoves
<1>3. MailsHold(visit', codes, post)
  BY MailsPass
<1> QED
  BY <1>2, <1>3, CodesParts DEF CodesInv

\* A guess is compared with the code of a purpose.
LEMMA CheckCodeStep ==
    ASSUME CodesInv, NEW k \in Visit, CheckCode(k)
    PROVE  CodesInv'
<1> DEFINE found == Rows(Head(visit[k].left))
<1>1. visit[k].at = "check" /\ UNCHANGED <<account, codes, post, past>>
  BY DEF CheckCode
<1>2. CASE NextPurpose(k)
  BY <1>1, <1>2, NextPurposeStep, VisitReads
<1>3. CASE Leave(k)
  BY <1>1, <1>3, VisitReads, NobodyHolds DEF Leave
<1>4. ASSUME NEW r \in found, Usable(r),
             visit' = [visit EXCEPT ![k].row = r.id, ![k].attempts = r.attempts,
                         ![k].at = IF r.code = visit[k].guess THEN "accept" ELSE "count"]
      PROVE  CodesInv'
  <2>1. /\ r \in codes /\ r \in AuthCodeRow /\ r.attempts < OtpMaxAttempts
        /\ CodesHold(codes, past.issued) /\ CountsHold(codes, past)
    <3>1. r \in codes /\ r \in AuthCodeRow
      BY CodesParts DEF Rows
    <3>2. r.attempts \in Nat
      BY <3>1, CodesNumbers DEF AuthCodeRow
    <3> QED
      BY <1>4, <3>1, <3>2, CodesNumbers, CodesParts DEF Usable, LockedOut
  <2>2. PICK at \in {"accept", "count"} :
            /\ visit' = [visit EXCEPT ![k] = [visit[k] EXCEPT !.row = r.id,
                                                 !.attempts = r.attempts, !.at = at]]
            /\ (at = "accept" => r.code = visit[k].guess)
    BY <1>4
  <2> DEFINE v == [visit[k] EXCEPT !.row = r.id, !.attempts = r.attempts, !.at = at]
  <2>3. visit[k] \in VisitType
    BY <1>1, VisitAlone
  <2>4. r.id \in 0 .. MaxCodes /\ r.attempts \in 0 .. OtpMaxAttempts /\ r.code \in 1 .. MaxCodes
    BY <2>1, CodesNumbers DEF AuthCodeRow
  <2>5. /\ v \in VisitType /\ v.at = at /\ v.row = r.id /\ v.attempts = r.attempts
        /\ v.guess = visit[k].guess /\ v.left = visit[k].left
    BY <2>3, <2>4 DEF VisitType
  <2> HIDE DEF v
  <2>6. visit[k].left \in PurposeLeft
    BY <1>1, VisitAlone DEF VisitHolds
  <2>7. ASSUME at = "count"
        PROVE  \A q \in codes : q.id = v.row => q.attempts = v.attempts
    BY <2>1, <2>5 DEF CodesHold
  <2>8. ASSUME at = "accept"
        PROVE  /\ v.guess \in 1 .. MaxCodes /\ past.spent[v.guess] = 0
               /\ v.guess <= past.issued
               /\ \A q \in codes : q.code = v.guess => q.id = v.row
    BY <2>1, <2>2, <2>4, <2>5, <2>8 DEF CodesHold, CountsHold
  <2>9. VisitHolds(v, codes, past)
    BY <2>1, <2>5, <2>6, <2>7, <2>8 DEF VisitHolds
  <2>10. visit' = [visit EXCEPT ![k] = v]
    BY <2>2 DEF v
  <2> QED
    BY <1>1, <2>5, <2>9, <2>10, VisitReads
<1>5. \/ NextPurpose(k) \/ Leave(k)
      \/ \E r \in found : /\ Usable(r)
                          /\ visit' = [visit EXCEPT ![k].row = r.id, ![k].attempts = r.attempts,
                                ![k].at = IF r.code = visit[k].guess THEN "accept" ELSE "count"]
  BY DEF CheckCode
<1> QED
  BY <1>2, <1>3, <1>4, <1>5

\* The password of an account is wrong.
LEMMA RefusePasswordStep ==
    ASSUME CodesInv, NEW k \in Visit, RefusePassword(k)
    PROVE  CodesInv'
BY VisitReads, NobodyHolds DEF RefusePassword, Leave

\* A wrong guess is counted.
LEMMA CountAttemptStep ==
    ASSUME CodesInv, NEW k \in Visit, CountAttempt(k)
    PROVE  CodesInv'
<1>1. visit[k].at = "count" /\ UNCHANGED <<account, post>>
  BY DEF CountAttempt
<1>2. CASE RowOf(k) = {}
  BY <1>1, <1>2, VisitReads, NobodyHolds DEF CountAttempt, Leave
<1>3. CASE RowOf(k) # {}
  <2>1. PICK r \in RowOf(k) :
            /\ codes' = (codes \ {r}) \cup
                          {[r EXCEPT !.attempts = IF visit[k].attempts < OtpMaxAttempts
                                                  THEN visit[k].attempts + 1 ELSE r.attempts]}
            /\ past' = IF past.calm
                       THEN [past EXCEPT !.wrong[r.code] =
                               IF past.wrong[r.code] > OtpMaxAttempts THEN past.wrong[r.code]
                               ELSE past.wrong[r.code] + 1]
                       ELSE past
            /\ NextPurpose(k)
    BY <1>3 DEF CountAttempt
  <2> DEFINE seen == visit[k].attempts
             s == [r EXCEPT !.attempts = seen + 1]
  <2>2. /\ r \in codes /\ r.id = visit[k].row /\ r \in AuthCodeRow
    BY CodesParts DEF RowOf
  <2>3. /\ seen \in Nat /\ seen < OtpMaxAttempts /\ seen + 1 \in 0 .. OtpMaxAttempts
        /\ (past.calm => r.attempts = seen)
    <3>1. visit[k] \in VisitType /\ VisitHolds(visit[k], codes, past)
      BY <1>1, VisitAlone
    <3>2. seen \in 0 .. OtpMaxAttempts
      BY <3>1 DEF VisitType
    <3>3. seen < OtpMaxAttempts /\ (past.calm => r.attempts = seen)
      BY <1>1, <2>2, <3>1 DEF VisitHolds
    <3> QED
      BY <3>2, <3>3, CodesNumbers
  <2>4. codes' = (codes \ {r}) \cup {s}
    BY <2>1, <2>3
  <2>5. s \in AuthCodeRow /\ s.id = r.id /\ s.code = r.code /\ s.attempts = seen + 1
    BY <2>2, <2>3 DEF AuthCodeRow
  <2> HIDE DEF s, seen
  <2>6. CodesHold(codes', past.issued)
    BY <2>2, <2>4, <2>5, RowReplaced, CodesParts
  <2>7. r.code \in 1 .. MaxCodes /\ past.wrong[r.code] \in Nat
        /\ past.wrong[r.code] <= r.attempts /\ r.code <= past.issued
        /\ \A q \in codes \ {r} : q.code # r.code
    <3>1. r.code \in 1 .. MaxCodes
      BY <2>2 DEF AuthCodeRow
    <3>2. past.wrong[r.code] \in 0 .. OtpMaxAttempts + 1
      BY <3>1, CodesParts
    <3> QED
      BY <2>2, <3>1, <3>2, CodesNumbers, CodesParts DEF CodesHold, CountsHold
  <2>8. /\ past' \in PastType /\ CountsHold(codes', past') /\ past'.issued = past.issued
        /\ past'.calm = past.calm
    <3>1. CASE past.calm
      <4> DEFINE n == past.wrong[r.code] + 1
      <4>1. n \in Nat /\ n <= OtpMaxAttempts /\ n <= seen + 1 /\ n \in 0 .. OtpMaxAttempts + 1
        BY <2>3, <2>7, <3>1, CodesNumbers
      <4>2. past' = [past EXCEPT !.wrong = [past.wrong EXCEPT ![r.code] = n]]
        <5>1. ~(past.wrong[r.code] > OtpMaxAttempts)
          BY <2>7, <4>1, CodesNumbers
        <5> QED
          BY <2>1, <3>1, <5>1
      <4> HIDE DEF n
      <4>3. [past.wrong EXCEPT ![r.code] = n] \in [1 .. MaxCodes -> 0 .. OtpMaxAttempts + 1]
        BY <2>7, <4>1, CodesParts
      <4>4. /\ past' \in PastType /\ past'.wrong = [past.wrong EXCEPT ![r.code] = n]
            /\ past'.spent = past.spent /\ past'.issued = past.issued /\ past'.calm = past.calm
        BY <4>2, <4>3, CodesParts DEF PastType
      <4>5. \A c \in 1 .. MaxCodes : past'.wrong[c] = IF c = r.code THEN n ELSE past.wrong[c]
        BY <4>4, CodesParts
      <4>6. CountsHold(codes, past)
        BY CodesParts
      <4>7. ASSUME NEW c \in 1 .. MaxCodes
            PROVE  /\ past'.wrong[c] <= OtpMaxAttempts /\ past'.spent[c] <= 1
                   /\ (c > past'.issued => past'.wrong[c] = 0 /\ past'.spent[c] = 0)
        <5>1. past.issued \in Nat /\ c \in Nat
          BY CodesParts, CodesNumbers
        <5> QED
          BY <2>7, <4>1, <4>4, <4>5, <4>6, <5>1 DEF CountsHold
      <4>8. ASSUME NEW q \in codes' PROVE past'.wrong[q.code] <= q.attempts /\ past'.spent[q.code] = 0
        <5>1. CASE q = s
          BY <2>2, <2>5, <2>7, <4>1, <4>4, <4>5, <4>6, <5>1 DEF CountsHold
        <5>2. CASE q \in codes \ {r}
          <6>1. q.code \in 1 .. MaxCodes /\ q.code # r.code
            BY <2>7, <5>2, CodesParts DEF AuthCodeRow
          <6> QED
            BY <4>4, <4>5, <4>6, <5>2, <6>1 DEF CountsHold
        <5> QED
          BY <2>4, <5>1, <5>2
      <4>9. CountsHold(codes', past')
        BY <3>1, <4>4, <4>7, <4>8 DEF CountsHold
      <4> QED
        BY <4>4, <4>9
    <3>2. CASE ~past.calm
      <4>1. past' = past
        BY <2>1, <3>2
      <4>2. \A q \in codes' : q.code \in 1 .. MaxCodes /\ q.attempts \in Nat
        BY <2>2, <2>4, <2>5, CodesNumbers, CodesParts DEF AuthCodeRow
      <4>3. CountsHold(codes', past)
        BY <3>2, <4>2, CodesParts DEF CountsHold
      <4> QED
        BY <4>1, <4>3, CodesParts
    <3> QED
      BY <3>1, <3>2
  <2>9. PICK v \in VisitType : /\ visit' = [visit EXCEPT ![k] = v]
                               /\ \A rs, p : VisitHolds(v, rs, p)
    BY <1>1, <2>1, NextPurposeStep
  <2>10. past'.calm => past.calm /\ \A j \in Visit \ {k} : visit[j].at = "none"
    BY <1>1, <2>8, VisitAlone
  <2>11. VisitsHold(visit', codes', past')
    BY <2>9, <2>10, VisitMoves
  <2>12. \A q \in codes' : \E t \in codes : q.code = t.code
    BY <2>2, <2>4, <2>5
  <2>13. MailsHold(visit', codes', post)
    BY <1>1, <2>9, <2>12, MailsPass
  <2> QED
    BY <1>1, <2>6, <2>8, <2>11, <2>13, CodesParts DEF CodesInv
<1> QED
  BY <1>2, <1>3

\* An accepted code is used up.
LEMMA AcceptCodeStep ==
    ASSUME CodesInv, NEW k \in Visit, AcceptCode(k)
    PROVE  CodesInv'
<1> DEFINE c == visit[k].guess
           all == visit[k].op \in {"final", "set_password", "password_reset"}
<1>1. /\ visit[k].at = "accept" /\ post' = post /\ Spend(c) /\ codes' = codes \ Spends(k, all)
      /\ visit' = [visit EXCEPT ![k] = NoVisit]
  BY DEF AcceptCode, Leave
<1>2. visit[k] \in VisitType /\ VisitHolds(visit[k], codes, past)
  BY <1>1, VisitAlone
<1>3. /\ c \in 1 .. MaxCodes
      /\ (past.calm => /\ past.spent[c] = 0 /\ c <= past.issued
                       /\ \A r \in codes : r.code = c => r.id = visit[k].row)
  BY <1>1, <1>2 DEF VisitHolds
<1>4. past.calm => \A r \in codes' : r.code # c
  BY <1>1, <1>3 DEF Spends, RowOf
<1>5. account' \in [created : BOOLEAN, password : BOOLEAN]
  <2>1. visit[k].password \in BOOLEAN
    BY <1>2 DEF VisitType
  <2>2. PICK password \in BOOLEAN : account' = [account EXCEPT !.password = password]
    <3>1. CASE visit[k].op \in {"set_password", "password_reset"}
      BY <3>1 DEF AcceptCode
    <3>2. CASE visit[k].op = "recovery"
      BY <3>2, CodesParts DEF AcceptCode
    <3>3. CASE visit[k].op \notin {"set_password", "password_reset", "recovery"}
      BY <2>1, <3>3 DEF AcceptCode
    <3> QED
      BY <3>1, <3>2, <3>3
  <2> QED
    BY <2>2, CodesParts
<1> HIDE DEF c, all
<1>6. codes' \subseteq codes /\ CodesHold(codes', past.issued)
  BY <1>1, FewerRows, CodesParts
<1>7. /\ past' \in PastType /\ CountsHold(codes', past') /\ past'.issued = past.issued
      /\ past'.calm = past.calm
  <2>1. CASE past.calm
    <3>1. past.spent[c] = 0 /\ past.spent[c] # 2
      BY <1>3, <2>1
    <3>2. past' = [past EXCEPT !.spent = [past.spent EXCEPT ![c] = 1]]
      BY <1>1, <2>1, <3>1 DEF Spend
    <3>3. [past.spent EXCEPT ![c] = 1] \in [1 .. MaxCodes -> 0 .. 2]
      BY <1>3, CodesParts
    <3>4. /\ past' \in PastType /\ past'.spent = [past.spent EXCEPT ![c] = 1]
          /\ past'.wrong = past.wrong /\ past'.issued = past.issued /\ past'.calm = past.calm
      BY <3>2, <3>3, CodesParts DEF PastType
    <3>5. \A d \in 1 .. MaxCodes : past'.spent[d] = IF d = c THEN 1 ELSE past.spent[d]
      BY <3>4, CodesParts
    <3>6. CountsHold(codes, past) /\ \A r \in codes' : r \in codes /\ r.code \in 1 .. MaxCodes
      BY <1>6, CodesParts DEF AuthCodeRow
    <3>7. ASSUME NEW d \in 1 .. MaxCodes
          PROVE  /\ past'.wrong[d] <= OtpMaxAttempts /\ past'.spent[d] <= 1
                 /\ (d > past'.issued => past'.wrong[d] = 0 /\ past'.spent[d] = 0)
      <4>1. past.issued \in Nat /\ (d = c => ~(d > past.issued))
        BY <1>3, <2>1, CodesParts, CodesNumbers
      <4> QED
        BY <3>4, <3>5, <3>6, <4>1 DEF CountsHold
    <3>8. \A r \in codes' : past'.wrong[r.code] <= r.attempts /\ past'.spent[r.code] = 0
      BY <1>4, <2>1, <3>4, <3>5, <3>6 DEF CountsHold
    <3>9. CountsHold(codes', past')
      BY <2>1, <3>4, <3>7, <3>8 DEF CountsHold
    <3> QED
      BY <3>4, <3>9
  <2>2. CASE ~past.calm
    BY <1>1, <1>6, <2>2, CodesParts DEF Spend, CountsHold
  <2> QED
    BY <2>1, <2>2
<1>8. past'.calm => past.calm /\ \A j \in Visit \ {k} : visit[j].at = "none"
  BY <1>1, <1>7, VisitAlone
<1>9. VisitsHold(visit', codes', past')
  BY <1>1, <1>8, VisitMoves, NobodyHolds
<1>10. MailsHold(visit', codes', post)
  BY <1>1, <1>6, MailsPass
<1> QED
  BY <1>1, <1>5, <1>6, <1>7, <1>9, <1>10, CodesParts DEF CodesInv

\* The rows change, and nothing that has been read of them.
LEMMA RowsChange ==
    ASSUME CodesInv, UNCHANGED <<account, visit, post, past>>, CodesHold(codes', past.issued),
           \A r \in codes' : \E s \in codes : r.id = s.id /\ r.code = s.code
                                              /\ r.attempts = s.attempts
    PROVE  CodesInv'
<1>1. CountsHold(codes, past) /\ VisitsHold(visit, codes, past)
  BY CodesParts
<1>2. CountsHold(codes', past)
  BY <1>1 DEF CountsHold
<1>3. \A k \in Visit : VisitHolds(visit[k], codes', past)
  BY <1>1 DEF VisitsHold, VisitHolds
<1>4. MailsHold(visit, codes', post)
  BY CodesParts, MailsKept
<1> QED
  BY <1>1, <1>2, <1>3, <1>4, CodesParts DEF CodesInv, VisitsHold

\* Codes expire, and are deleted.
LEMMA RowSteps ==
    ASSUME CodesInv, (\E r \in codes : ExpireCode(r) \/ DeleteCode(r)) \/ PurgeCodes
    PROVE  CodesInv'
<1>1. UNCHANGED <<account, visit, post, past>>
  BY DEF ExpireCode, DeleteCode, PurgeCodes
<1>2. ASSUME NEW r \in codes, ExpireCode(r) PROVE CodesInv'
  <2> DEFINE s == [r EXCEPT !.expired = TRUE]
  <2>1. codes' = (codes \ {r}) \cup {s} /\ r \in AuthCodeRow
    BY <1>2, CodesParts DEF ExpireCode
  <2>2. s \in AuthCodeRow /\ s.id = r.id /\ s.code = r.code /\ s.attempts = r.attempts
    BY <2>1 DEF AuthCodeRow
  <2> HIDE DEF s
  <2>3. CodesHold(codes', past.issued)
    BY <2>1, <2>2, RowReplaced, CodesParts
  <2> QED
    BY <1>1, <2>1, <2>2, <2>3, RowsChange
<1>3. ASSUME codes' \subseteq codes PROVE CodesInv'
  BY <1>1, <1>3, FewerRows, RowsChange, CodesParts
<1>4. (\A r \in codes : ~ExpireCode(r)) => codes' \subseteq codes
  BY DEF DeleteCode, PurgeCodes
<1> QED
  BY <1>2, <1>3, <1>4

\* The invariant of the codes.
THEOREM CodesInvariant == AuthCodesSpec => []CodesInv
<1>1. AuthCodesInit => CodesInv
  <2> SUFFICES ASSUME AuthCodesInit PROVE CodesInv
    OBVIOUS
  <2>1. codes = {} /\ account \in [created : BOOLEAN, password : BOOLEAN]
    BY AuthCodesAssumption DEF AuthCodesInit
  <2>2. /\ NoPast \in [1 .. MaxCodes -> 0 .. OtpMaxAttempts + 1]
        /\ NoPast \in [1 .. MaxCodes -> 0 .. 2]
        /\ \A c \in 1 .. MaxCodes : NoPast[c] = 0
        /\ 0 \in 0 .. MaxCodes /\ 0 \in 0 .. MaxMails
    BY CodesNumbers DEF NoPast
  <2>3. past \in PastType /\ past.issued = 0 /\ past.wrong = NoPast /\ past.spent = NoPast
    BY <2>2 DEF AuthCodesInit, PastType
  <2>4. CodesHold(codes, past.issued)
    BY <2>1, FS_EmptySet, CodesNumbers DEF CodesHold
  <2>5. CountsHold(codes, past)
    BY <2>1, <2>2, <2>3, CodesNumbers DEF CountsHold
  <2>6. VisitsHold(visit, codes, past)
    BY NobodyHolds DEF AuthCodesInit, VisitsHold
  <2>7. post \in PostType /\ MailsHold(visit, codes, post)
    BY <2>1, <2>2 DEF AuthCodesInit, PostType, MailsHold
  <2> QED
    BY <2>1, <2>3, <2>4, <2>5, <2>6, <2>7 DEF CodesInv
<1>2. CodesInv /\ [AuthCodesNext]_authCodesVars => CodesInv'
  <2> SUFFICES ASSUME CodesInv, [AuthCodesNext]_authCodesVars PROVE CodesInv'
    OBVIOUS
  <2>1. CASE UNCHANGED authCodesVars
    BY <2>1 DEF authCodesVars, CodesInv
  <2>2. ASSUME NEW k \in Visit,
               \/ \E p \in Purpose : AskCode(k, p)
               \/ \E op \in Served, c \in 0 .. MaxCodes : GuessCode(k, op, c)
        PROVE  CodesInv'
    BY <2>2, AskCodeStep, GuessCodeStep, AuthCodesAssumption DEF Endpoint
  <2>3. ASSUME NEW k \in Visit,
               \/ CreateCode(k) \/ RefreshCode(k) \/ QueueMail(k)
               \/ SetPasswordUnasked(k) \/ CheckCode(k) \/ CountAttempt(k)
               \/ AcceptCode(k) \/ RefusePassword(k) \/ VisitDies(k)
        PROVE  CodesInv'
    BY <2>3, CreateCodeStep, RefreshCodeStep, QueueMailStep, UnaskedStep, CheckCodeStep,
       CountAttemptStep, AcceptCodeStep, RefusePasswordStep, VisitDiesStep
  <2>4. CASE (\E works \in BOOLEAN : MailCode(works))
             \/ (\E r \in codes : ExpireCode(r) \/ DeleteCode(r)) \/ PurgeCodes
    BY <2>4, MailCodeStep, RowSteps
  <2> QED
    BY <2>1, <2>2, <2>3, <2>4 DEF AuthCodesNext
<1> QED
  BY <1>1, <1>2, PTL DEF AuthCodesSpec

\* A code is compared with no more wrong guesses than LoginSettings allows, unless two
\* requests overlap: AuthCode.validate, create_or_refresh.
THEOREM GuessesAreLimited == AuthCodesSpec => []GuessLimit
<1>1. CodesInv => GuessLimit
  BY CodesParts DEF CountsHold, GuessLimit
<1> QED
  BY <1>1, CodesInvariant, PTL

\* A code is good for one use, unless two requests overlap: AuthCode.consume.
THEOREM CodesAreSpentOnce == AuthCodesSpec => []CodeSpentOnce
<1>1. CodesInv => CodeSpentOnce
  BY CodesParts DEF CountsHold, CodeSpentOnce
<1> QED
  BY <1>1, CodesInvariant, PTL

\* When every mail task has found one code to send, a code that can be used has been
\* mailed, however requests overlapped: send_otp, send_code_via_email.
THEOREM CodesAreMailed == AuthCodesSpec => []CodeMailed
<1>1. CodesInv => CodeMailed
  <2> SUFFICES ASSUME CodesInv, ~post.unsent, post.queued = 0, \A k \in Visit : ~Visiting(k)
               PROVE  \A r \in codes : r.code \in post.sent
    BY DEF CodeMailed
  <2> QED
    BY CodesParts DEF MailsHold, Visiting
<1> QED
  BY <1>1, CodesInvariant, PTL

=============================================================================
