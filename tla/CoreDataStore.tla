---------------------------- MODULE CoreDataStore ----------------------------
(***************************************************************************)
(* CoreDataManager and CoreDataStack: the saved episodes.                  *)
(*                                                                         *)
(* Every PlayerViewController builds its own CoreDataManager, hence its    *)
(* own NSPersistentContainer and view context, all over one SQLite file.   *)
(* The file is `store', the unsaved changes of a context are `inserted'    *)
(* and `deleted'.  A saved episode is a row; two rows may hold the same    *)
(* episode, so rows have an identity (the NSManagedObjectID).  Of the      *)
(* seven attributes the code only ever compares title and subtitle (`key') *)
(* and groups by podcastName (`name'); the others are payload.             *)
(***************************************************************************)
EXTENDS Naturals, FiniteSets

CONSTANTS
    Contexts,    \* the contexts, one per PlayerViewController instance
    Episodes,    \* the (title, subtitle) pairs of the catalogue
    Blank,       \* the pair with the empty title
    Names,       \* podcast names
    NoName,      \* the empty podcast name
    RowIds,      \* bound: the row identities in use at one time
    SaveFails,   \* may context.save() throw for a reason of its own?
    FetchFails   \* may context.fetch() throw?

ASSUME StoreAssumption ==
    /\ Blank \notin Episodes
    /\ NoName \notin Names
    /\ RowIds # {}
    /\ SaveFails \in BOOLEAN
    /\ FetchFails \in BOOLEAN

VARIABLES
    store,       \* the rows of the SQLite file
    inserted,    \* inserted[c]: rows inserted in context c, not saved yet
    deleted      \* deleted[c]: rows deleted in context c, not saved yet

storeVars == <<store, inserted, deleted>>

Keys == Episodes \cup {Blank}
Row == [id : RowIds, key : Keys, name : Names \cup {NoName}]

StoreTypeOK ==
    /\ store \in SUBSET Row
    /\ inserted \in [Contexts -> SUBSET Row]
    /\ deleted \in [Contexts -> SUBSET Row]

\* Launch: what an earlier launch saved, and no context yet.
StoreInit(rows) ==
    /\ store = rows
    /\ inserted = [c \in Contexts |-> {}]
    /\ deleted = [c \in Contexts |-> {}]

------------------------------------------------------------------------------
\* context.fetch(request): the file's rows with the context's own pending
\* changes applied (includesPendingChanges).
Fetch(c) == (store \ deleted[c]) \cup inserted[c]

\* What a fetch may return to a caller that swallows the error.
FetchResults(c) == {Fetch(c)} \cup (IF FetchFails THEN {{}} ELSE {})

HasChanges(c) == inserted[c] # {} \/ deleted[c] # {}

LiveRows == store \cup UNION {inserted[c] \cup deleted[c] : c \in Contexts}
UsedIds == {r.id : r \in LiveRows}

\* checkIfEpisodeIsFavorite, over the rows its fetch returned.
IsSaved(k, rows) == \E r \in rows : r.key = k

\* addEpisodeInFavorite up to saveContext: insertNewObject and the setValues.
InsertRow(c, k, n) ==
    /\ \E id \in RowIds \ UsedIds :
          inserted' = [inserted EXCEPT
                         ![c] = @ \cup {[id |-> id, key |-> k, name |-> n]}]
    /\ UNCHANGED <<store, deleted>>

\* Mutant of DeleteRows: the loop deletes without comparing.
DeleteRowsOfAll(c, k) ==
    /\ \E rows \in FetchResults(c) :
          /\ inserted' = [inserted EXCEPT ![c] = @ \ rows]
          /\ deleted' = [deleted EXCEPT ![c] = @ \cup (rows \ inserted[c])]
    /\ UNCHANGED store

\* removeEpisodeFromFavorite up to saveContext: every fetched row of the
\* episode is deleted, and every row with an empty title with it.
DeleteRows(c, k) ==
    /\ \E rows \in FetchResults(c) :
          LET doomed == {r \in rows : r.key \in {k, Blank}}
          IN  /\ inserted' = [inserted EXCEPT ![c] = @ \ doomed]
              /\ deleted' = [deleted EXCEPT ![c] = @ \cup (doomed \ inserted[c])]
    /\ UNCHANGED store

Commit(c) ==
    /\ store' = (store \ deleted[c]) \cup inserted[c]
    /\ inserted' = [inserted EXCEPT ![c] = {}]
    /\ deleted' = [deleted EXCEPT ![c] = {}]

\* A pending delete of a row that another context has removed from the file:
\* the save may be refused as a conflict.
Conflict(c) == ~(deleted[c] \subseteq store)

\* CoreDataStack.saveContext: nothing without changes; an error is printed and
\* the changes stay pending in the context.
SaveContext(c) ==
    \/ ~HasChanges(c) /\ UNCHANGED storeVars
    \/ HasChanges(c) /\ Commit(c)
    \/ HasChanges(c) /\ (SaveFails \/ Conflict(c)) /\ UNCHANGED storeVars

\* Mutant of FreshContext: the context outlives its player.
FreshContextShared(c) == UNCHANGED storeVars

\* A new CoreDataManager in the place of a released one, whose unsaved changes
\* are lost with it.
FreshContext(c) ==
    /\ inserted' = [inserted EXCEPT ![c] = {}]
    /\ deleted' = [deleted EXCEPT ![c] = {}]
    /\ UNCHANGED store

\* The process ends: the file stays, every context goes.
LoseContexts ==
    /\ inserted' = [c \in Contexts |-> {}]
    /\ deleted' = [c \in Contexts |-> {}]
    /\ UNCHANGED store

\* fetchFavoriteEpisode: the rows in one section per podcast name; a name
\* without rows has no section.
Sections(rows) ==
    [n \in Names \cup {NoName} |-> {r \in rows : r.name = n}]
==============================================================================
