---------------------------- MODULE RequestList ----------------------------
(***************************************************************************)
(* monitorRequestList (monitor/request_list.go): the retry list of the     *)
(* monitor, a map from transaction ids to requests together with a slice   *)
(* of the same requests sorted by nextRetry.                               *)
(*                                                                         *)
(* Every method takes the mutex of the list for its whole body, so each is *)
(* one atomic action here.  Requests are pointers: nextRetry is a field of *)
(* the request and is written by the callers of the list outside its       *)
(* mutex, which is why it is a variable indexed by request.                *)
(*                                                                         *)
(* Times are ticks of the clock.  The list orders requests by the          *)
(* millisecond of nextRetry (UnixMilli) but compares the full instant when *)
(* it looks for a request to delete; TicksPerMilli keeps the two apart.    *)
(***************************************************************************)
EXTENDS Integers, Sequences, FiniteSetsExt, SequencesExt

CONSTANTS
    Request,         \* the *monitorRequest values, one per AddL2Transaction call
    Key,             \* the values of l2Tx.Id, the keys of the map
    IdOf,            \* the l2Tx.Id of each request
    HashOf,          \* the l2Tx.Hash of each request
    Nil,             \* the nil request: the map holds nothing for an id
    Time,            \* instants
    TicksPerMilli    \* ticks of the clock in a millisecond

ASSUME ListAssumption ==
    /\ IdOf \in [Request -> Key]
    /\ Nil \notin Request
    /\ Time \subseteq Nat /\ 0 \in Time
    /\ TicksPerMilli \in Nat \ {0}

VARIABLES
    list,            \* list: the map, Nil where an id is absent
    sorted,          \* sorted: the slice
    nextRetry        \* nextRetry of every request

listVars == <<list, sorted, nextRetry>>

Listed(r) == list[IdOf[r]] = r

----------------------------------------------------------------------------
UnixMilli(t) == t \div TicksPerMilli

isGreaterThan(r, s) == UnixMilli(nextRetry[r]) > UnixMilli(nextRetry[s])

isGreaterOrEqualThan(r, s) == UnixMilli(nextRetry[r]) >= UnixMilli(nextRetry[s])

\* sort.Search: the smallest index in S, one past the end if there is none.
\* The library finds it by bisection, which needs S to be upward closed in
\* the slice; SortedByRetry is what makes it so.
search(S) == IF S = {} THEN Len(sorted) + 1 ELSE Min(S)

\* Mistaken variants of addSort, which the runs must tell from the code: the
\* other comparison, and a plain append.
addSortIndexGE(map, r) ==
    search({k \in DOMAIN sorted : isGreaterOrEqualThan(map[IdOf[sorted[k]]], r)})

addSortIndexEnd(map, r) == Len(sorted) + 1

\* Where addSort puts r: before the first request of a later millisecond.
addSortIndex(map, r) ==
    search({k \in DOMAIN sorted : isGreaterThan(map[IdOf[sorted[k]]], r)})

\* The bisections look the requests of the slice up in the map and read the
\* nextRetry of what they find: they panic where the map has lost a request.
\* Only a Mixup (below) makes it lose one.
Readable(map) == \A k \in DOMAIN sorted : map[IdOf[sorted[k]]] # Nil

add(r) ==
    IF list[IdOf[r]] = Nil
    THEN /\ list' = [list EXCEPT ![IdOf[r]] = r]
         /\ Readable(list')
         /\ sorted' = InsertAt(sorted, addSortIndex(list', r), r)
    ELSE UNCHANGED <<list, sorted>>

\* Mistaken variant of deleteIndex: the search starts one too far.
deleteIndexSkips(q) ==
    LET first == search({k \in DOMAIN sorted :
                            isGreaterThan(list[IdOf[sorted[k]]], q)})
    IN search({k \in DOMAIN sorted : k >= first /\ HashOf[sorted[k]] = HashOf[q]})

\* Where delete's loop stops when it looks for q: from the first request of
\* q's millisecond on, at the first request with another nextRetry or with
\* q's hash, or at the end of the slice.
deleteIndex(q) ==
    LET first == search({k \in DOMAIN sorted :
                            isGreaterOrEqualThan(list[IdOf[sorted[k]]], q)})
    IN search({k \in DOMAIN sorted :
                  /\ k >= first
                  /\ \/ nextRetry[sorted[k]] # nextRetry[q]
                     \/ HashOf[sorted[k]] = HashOf[q]})

\* delete gives up at the end of the slice or at another nextRetry.
deleteFinds(q) ==
    LET i == deleteIndex(q)
    IN /\ i # Len(sorted) + 1
       /\ nextRetry[sorted[i]] = nextRetry[q]

\* Mistaken variants: the map keeps the request, the slice is not cut, the
\* gap is filled with the last request.
removeKeyKeeps(q) == list
removeSortedNil(i) == Append(RemoveAt(sorted, i), Nil)
removeSortedSwaps(i) == Front([sorted EXCEPT ![i] = Last(sorted)])

removeKey(q) == [list EXCEPT ![IdOf[q]] = Nil]

removeSorted(i) == RemoveAt(sorted, i)

\* The request to remove is looked up by the id of the argument.
delete(r) ==
    LET q == list[IdOf[r]]
    IN /\ q # Nil => Readable(list)
       /\ IF q # Nil /\ deleteFinds(q)
          THEN /\ list' = removeKey(q)
               /\ sorted' = removeSorted(deleteIndex(q))
          ELSE UNCHANGED <<list, sorted>>

len == Len(sorted)

----------------------------------------------------------------------------
\* newMonitorRequestList; the nextRetry of a new request is the zero time.
ListInit ==
    /\ list = [i \in Key |-> Nil]
    /\ sorted = <<>>
    /\ nextRetry = [r \in Request |-> 0]

\* A caller of the list owns the requests that are not listed and may set
\* their nextRetry (monitor.go:57 and :85).
SetNextRetry(r, t) ==
    /\ ~Listed(r)
    /\ nextRetry' = [nextRetry EXCEPT ![r] = t]
    /\ UNCHANGED <<list, sorted>>

ListAdd(r) == add(r) /\ UNCHANGED nextRetry

ListDelete(r) == delete(r) /\ UNCHANGED nextRetry

ListNext ==
    \E r \in Request :
        \/ \E t \in Time : SetNextRetry(r, t)
        \/ ListAdd(r)
        \/ ListDelete(r)

ListSpec == ListInit /\ [][ListNext]_listVars

----------------------------------------------------------------------------
ListTypeOK ==
    /\ list \in [Key -> Request \cup {Nil}]
    /\ sorted \in Seq(Request)
    /\ nextRetry \in [Request -> Time]

\* The map and the slice hold the same requests, each once and under its own
\* id: no request can be found through one and not through the other.
Consistent ==
    /\ \A i \in Key : list[i] # Nil => IdOf[list[i]] = i /\ list[i] \in ToSet(sorted)
    /\ \A k \in DOMAIN sorted : Listed(sorted[k])
    /\ IsInjective(sorted)

\* The slice is sorted by the millisecond of nextRetry, so that the head is
\* the next request to retry and bisection is applicable.
SortedByRetry ==
    \A j, k \in DOMAIN sorted :
        j < k => UnixMilli(nextRetry[sorted[j]]) <= UnixMilli(nextRetry[sorted[k]])

ListOK == Consistent /\ SortedByRetry

\* delete takes q out of the map and its twin t, a request of another id with
\* the same hash and the same instant, out of the slice.  Such requests exist:
\* a raw transaction that comes in twice is stored twice, pool.transaction has
\* no constraint on hash.  What follows is not modelled beyond Readable: the
\* map holds a request that will never be the head and the slice one whose
\* look-up is nil.
Mixup ==
    \E q, t \in Request :
        /\ q # t /\ HashOf[q] = HashOf[t] /\ nextRetry[q] = nextRetry[t]
        /\ Listed(q) /\ list'[IdOf[q]] = Nil
        /\ t \in ToSet(sorted) /\ t \notin ToSet(sorted')

\* The map and the slice go on holding the same requests, whatever is added,
\* deleted and rescheduled: nothing but a Mixup parts them, that is, the hash
\* and the instant by which delete finds the place in the slice
\* (request_list.go:52-68) mislead it only from a request to its twin.
ConsistentKept == [][ListOK => Consistent' \/ Mixup]_listVars

\* The slice stays sorted by the millisecond of nextRetry, on which both
\* bisections and the checker's look at the head rely, a Mixup included
\* (request_list.go:47, :117).
SortedKept == [][ListOK => SortedByRetry']_listVars

\* An added request is placed behind every request of its own or an earlier
\* millisecond and ahead of the others (addSort): equal times are served in
\* the order in which they were added.
AddGoesLast ==
    [][ListOK =>
          \A k \in DOMAIN sorted' :
              sorted'[k] \notin ToSet(sorted) =>
                  \A j \in DOMAIN sorted' \ {k} :
                      j < k <=> UnixMilli(nextRetry[sorted'[j]])
                                  <= UnixMilli(nextRetry[sorted'[k]])]_listVars

\* Adding or deleting a request does not reorder the others.
OrderKept ==
    [][ListOK =>
          \A j, k \in DOMAIN sorted, m, n \in DOMAIN sorted' :
              (/\ sorted[j] = sorted'[m]
               /\ sorted[k] = sorted'[n]
               /\ j < k) => m < n]_listVars
============================================================================
