----------------------------- MODULE D1KeyValue -----------------------------
(***************************************************************************)
(* The table of a D1 database that stands in for Workers KV: put, get,     *)
(* delete, and list, which pages through the keys of a prefix by LIMIT and *)
(* OFFSET while other requests change the table and rows expire.           *)
(* src/src/d1-oauth-kv.ts; those who list until list_complete are outside. *)
(*                                                                         *)
(* Keys are numbers in the order of kv_key, all of one prefix.  A row is   *)
(* its expires_at, the empty set for NULL.                                 *)
(***************************************************************************)
EXTENDS FiniteSets, WorkerClock

CONSTANTS
  Keys,        \* keys of the prefix that is listed
  Ttls,        \* values of expirationTtl, {} for none given
  PageSize,    \* the limit the lister gives
  KvScenes     \* the keys there are at first, and bounds on changes and listings

ASSUME KvAssumption ==
  /\ Keys \subseteq Nat /\ PageSize \in Nat \ {0}
  /\ \A ttl \in Ttls : ttl \subseteq Nat /\ Cardinality(ttl) <= 1
  /\ KvScenes \subseteq [keys : SUBSET Keys, changes : Nat, listings : Nat]
  /\ \A s \in KvScenes : IsFiniteSet(s.keys)

VARIABLES
  table,    \* the expiry of each key that has a row
  changes,  \* puts and deletes that may still come
  listings, \* listings that may still start
  lister    \* a listing: the offset its cursor says, the keys it was given so far and
            \* those of them it was given twice; history: the keys that could be listed
            \* all along, those that ceased to be and those that came to be since it
            \* started

kvState == <<table, changes, listings, lister>>
kvVars == <<clock, kvState>>

\* expirationFromOptions
Expiration(ttl) == {clock + t : t \in ttl}

\* A row that has expired is not seen, although it is still there.
Expired(key) == \E t \in table[key] : t <= clock

Live == {key \in DOMAIN table : ~Expired(key)}

\* Every variable has its type.
KvTypeOK ==
  /\ DOMAIN table \subseteq Keys /\ \A key \in DOMAIN table : table[key] \subseteq Nat
  /\ changes \in Nat /\ listings \in Nat
  /\ lister.pc \in {"idle", "page", "done"} /\ lister.offset \in Nat
  /\ lister.listed \cup lister.twice \subseteq Keys
  /\ lister.stable \cup lister.lost \cup lister.came \subseteq Keys

KvStart(s) ==
  /\ table = [key \in s.keys |-> {}]
  /\ changes = s.changes /\ listings = s.listings
  /\ lister = [pc |-> "idle", offset |-> 0, listed |-> {}, twice |-> {},
               stable |-> {}, lost |-> {}, came |-> {}]

KvInit == clock = 0 /\ \E s \in KvScenes : KvStart(s)

\* What a change of the table or of the time does to the listing's history.
Observed == [lister EXCEPT !.stable = @ \cap Live', !.lost = @ \cup (Live \ Live'),
                              !.came = @ \cup (Live' \ Live)]

KvTick ==
  /\ clock < MaxClock /\ clock' = clock + 1
  /\ UNCHANGED <<table, changes, listings>>
  /\ lister' = Observed

Change == changes > 0 /\ changes' = changes - 1 /\ lister' = Observed

\* put: one row per key, with the expiry of the last put.
KvPut(key, ttl) ==
  /\ table' = [k \in DOMAIN table \cup {key} |-> IF k = key THEN Expiration(ttl) ELSE table[k]]
  /\ UNCHANGED <<clock, listings>>
  /\ Change

KvDelete(key) ==
  /\ key \in DOMAIN table
  /\ table' = [k \in DOMAIN table \ {key} |-> table[k]]
  /\ UNCHANGED <<clock, listings>>
  /\ Change

StartListing ==
  /\ lister.pc # "page" /\ listings > 0 /\ listings' = listings - 1
  /\ lister' = [pc |-> "page", offset |-> 0, listed |-> {}, twice |-> {},
                stable |-> Live, lost |-> {}, came |-> {}]
  /\ UNCHANGED <<clock, table, changes>>

\* The cursor that goes with a page.
NextOffset == lister.offset + PageSize

\* The rows of a set of keys that one page selects: one more than it may return.
Selected(keys) ==
  {key \in keys : Cardinality({k \in keys : k < key}) \in lister.offset..lister.offset + PageSize}

\* Variant: rows that expired are left out of a page after it was cut.
PageFiltered == {key \in Selected(DOMAIN table) : ~Expired(key)}

Page == Selected(Live)

\* list: the page, and a cursor unless the listing is complete.
ListPage ==
  /\ lister.pc = "page"
  /\ LET complete == Cardinality(Page) <= PageSize
         visible == IF complete THEN Page ELSE {key \in Page : \E last \in Page : key < last}
     IN lister' = [lister EXCEPT !.pc = IF complete THEN "done" ELSE @,
                                 !.offset = IF complete THEN @ ELSE NextOffset,
                                 !.listed = @ \cup visible,
                                 !.twice = @ \cup (lister.listed \cap visible)]
  /\ UNCHANGED <<clock, table, changes, listings>>

KvStep ==
  \/ \E key \in Keys, ttl \in Ttls : KvPut(key, ttl)
  \/ \E key \in Keys : KvDelete(key)
  \/ StartListing \/ ListPage

KvNext == KvTick \/ KvStep

KvSpec == KvInit /\ [][KvNext]_kvVars

-----------------------------------------------------------------------------
(* Properties.                                                             *)

\* A listing that came to its end gave every key that could be listed all along, other
\* than one that moved up because a key before it expired or was deleted meanwhile;
\* and it gave none twice, unless one before it was put meanwhile.
ListingComplete ==
  lister.pc = "done" =>
    /\ \A key \in lister.stable \ lister.listed : \E gone \in lister.lost : gone < key
    /\ \A key \in lister.twice : \E new \in lister.came : new <= key
=============================================================================
